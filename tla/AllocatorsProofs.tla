-------------------------- MODULE AllocatorsProofs --------------------------
(***************************************************************************)
(* The allocators give each user memory of its own and lose none of it,    *)
(* for every number of users, every size of buffer, cache and pool, and    *)
(* all sizes and alignments that the assumptions allow: Allocators is      *)
(* shown to implement Allocator, step by step.                             *)
(*                                                                         *)
(* Each allocator has an inductive invariant of its own, which says who    *)
(* holds what: CacheInv, ArenaInv, PagesInv and PoolInv.  The last one is  *)
(* that of the lock-free free list of the queue.  The theorems suppose     *)
(* RequestsFit: page_allocator.hpp computes without regard to a request of *)
(* a third of the address space.                                           *)
(***************************************************************************)
EXTENDS Allocators, NumberLemmas, Sequences, FiniteSetTheorems

(* Nothing is no number and no allocation.                                 *)
LEMMA NoneDiffers ==
  /\ \A n \in Int : n # None
  /\ \A a \in Int, n \in Int : [addr |-> a, len |-> n] # None
  /\ \A p \in Int, a \in Int, n \in Int : [page |-> p, offset |-> a, len |-> n] # None
BY AllocatorsAssumption

(* The cache counts with the library's operator.                           *)
LEMMA CacheCardinality ==
  ASSUME NEW S
  PROVE  Cache!Cardinality(S) = Cardinality(S)
BY DEF Cache!Cardinality, Cardinality

(***************************************************************************)
(* recycling_cache: each piece that the base allocator has given, which    *)
(* base records with its length, is apart from the others and has exactly  *)
(* one holder, a user or an element of the cache; its first word is the    *)
(* size that Deallocate will read, whatever users have written.            *)
(***************************************************************************)
CacheTypes ==
  /\ block \in [Users -> [addr : Int, len : CacheSizes] \cup {None}]
  /\ elements \in [Cache!Slots -> [ptr : Cache!Addresses \cup {None}, size : CacheSizes \cup {0}]]
  /\ open \in BOOLEAN
  /\ DOMAIN base \subseteq Cache!Addresses
  /\ base \in [DOMAIN base -> Nat \ {0}]
  /\ memory \in [Cache!Addresses -> CacheSizes \cup {Cache!Junk}]
  /\ misfreed = FALSE

Piece(a) == Cache!Region(a, base[a])

PiecesApart ==
  /\ \A a \in DOMAIN base : Piece(a) \subseteq Cache!Addresses
  /\ \A a \in DOMAIN base : \A b \in DOMAIN base : a # b => Piece(a) \cap Piece(b) = {}

UserHas(u, a) == block[u] # None /\ block[u].addr = a + 1
CellHas(i, a) == elements[i].ptr = a

(* The word before the user's memory is its size.                          *)
PiecesLabelled == \A a \in DOMAIN base : memory[a] = base[a] - 1

UsersKnown ==
  \A u \in Users : block[u] # None =>
    \E a \in DOMAIN base : block[u].addr = a + 1 /\ block[u].len < base[a]

CellsKnown ==
  \A i \in Cache!Slots : elements[i].ptr # None =>
    /\ elements[i].ptr \in DOMAIN base
    /\ elements[i].size = base[elements[i].ptr] - 1

HoldersDiffer ==
  /\ \A u \in Users : \A v \in Users : u # v /\ block[u] # None /\ block[v] # None =>
       block[u].addr # block[v].addr
  /\ \A i \in Cache!Slots : \A j \in Cache!Slots :
       i # j /\ elements[i].ptr # None => elements[i].ptr # elements[j].ptr
  /\ \A u \in Users : \A i \in Cache!Slots :
       block[u] # None /\ elements[i].ptr # None => block[u].addr # elements[i].ptr + 1

PiecesHeld ==
  \A a \in DOMAIN base : (\E u \in Users : UserHas(u, a))
    \/ (\E i \in Cache!Slots : CellHas(i, a))

CacheInv ==
  /\ CacheTypes
  /\ PiecesApart
  /\ PiecesLabelled
  /\ open => UsersKnown /\ CellsKnown /\ HoldersDiffer /\ PiecesHeld
  /\ ~open => DOMAIN base = {} /\ \A u \in Users : block[u] = None

(* What is assumed of the words, the elements and the requested sizes.     *)
LEMMA CacheConstants == Words \in Nat /\ Cells \in Nat \ {0} /\ CacheSizes \subseteq Nat
BY AllocatorsAssumption DEF Cache!CacheAssumption

(* An empty cache fulfils its invariant.                                   *)
LEMMA CacheStart ==
  ASSUME Cache!Init
  PROVE  CacheInv
<1> USE CacheConstants, NoneDiffers DEF Cache!Init, Cache!Slots, Cache!Addresses, Cache!Junk
<1>1. CacheTypes
  BY DEF CacheTypes
<1>2. PiecesApart
  BY DEF PiecesApart
<1>3. UsersKnown /\ CellsKnown /\ PiecesLabelled
  BY DEF UsersKnown, CellsKnown, PiecesLabelled
<1>4. HoldersDiffer /\ PiecesHeld
  BY DEF HoldersDiffer, PiecesHeld
<1> QED
  BY <1>1, <1>2, <1>3, <1>4 DEF CacheInv

(* The first of some elements is one of them.                              *)
LEMMA CacheMin ==
  ASSUME NEW T \in SUBSET Cache!Slots, T # {}
  PROVE  Cache!Min(T) \in T
<1>1. T \in SUBSET Nat
  BY CacheConstants DEF Cache!Slots
<1>2. \E x \in T : \A y \in T : x <= y
  BY <1>1, LeastNatural
<1> QED
  BY <1>2 DEF Cache!Min

(* An element that is given out: its piece is a user's.                    *)
LEMMA CacheReuse ==
  ASSUME CacheInv, NEW u \in Users, NEW n \in CacheSizes, open, block[u] = None, Cache!Reuse(u, n)
  PROVE  CacheInv'
<1> USE CacheConstants, NoneDiffers
<1> DEFINE i == Cache!Min(Cache!Hits(n))
           a == elements[i].ptr
<1>1. i \in Cache!Slots /\ elements[i].ptr # None /\ elements[i].size >= n
  BY CacheMin DEF Cache!Reuse, Cache!Hits
<1>2. /\ block' = [block EXCEPT ![u] = [addr |-> elements[i].ptr + 1, len |-> n]]
      /\ elements' = [elements EXCEPT ![i].ptr = None]
      /\ UNCHANGED <<open, base, memory, misfreed>>
  BY DEF Cache!Reuse, Cache!UserPart
<1> HIDE DEF i
<1>3. CacheTypes /\ PiecesApart /\ PiecesLabelled /\ UsersKnown /\ CellsKnown /\ HoldersDiffer
      /\ PiecesHeld
  BY DEF CacheInv
<1>4. a \in DOMAIN base /\ a \in Int /\ elements[i].size = base[a] - 1 /\ base[a] \in Nat
      /\ n \in Nat
  BY <1>1, <1>3 DEF CellsKnown, CacheTypes, Cache!Addresses
<1>5. /\ block'[u] = [addr |-> a + 1, len |-> n] /\ block'[u] # None
      /\ \A v \in Users : v # u => block'[v] = block[v]
  BY <1>2, <1>3, <1>4 DEF CacheTypes
<1>6. /\ elements'[i].ptr = None
      /\ \A j \in Cache!Slots : elements'[j].size = elements[j].size
      /\ \A j \in Cache!Slots : j # i => elements'[j] = elements[j]
  BY <1>1, <1>2, <1>3 DEF CacheTypes
<1>7. CacheTypes'
  <2>1. block' \in [Users -> [addr : Int, len : CacheSizes] \cup {None}]
    BY <1>2, <1>3, <1>4 DEF CacheTypes
  <2>2. elements' \in [Cache!Slots -> [ptr : Cache!Addresses \cup {None}, size : CacheSizes \cup {0}]]
    BY <1>1, <1>2, <1>3 DEF CacheTypes
  <2> QED
    BY <2>1, <2>2, <1>2, <1>3 DEF CacheTypes
<1>8. PiecesApart' /\ PiecesLabelled'
  BY <1>2, <1>3 DEF PiecesApart, Piece, PiecesLabelled
<1>9. UsersKnown'
  BY <1>1, <1>2, <1>3, <1>4, <1>5 DEF UsersKnown
<1>10. CellsKnown'
  BY <1>2, <1>3, <1>6 DEF CellsKnown
<1>11. HoldersDiffer'
  <2>1. ASSUME NEW v \in Users, v # u, block[v] # None
        PROVE  block[v].addr # a + 1
    BY <2>1, <1>1, <1>3 DEF HoldersDiffer
  <2>2. ASSUME NEW v \in Users, NEW w \in Users, v # w, block'[v] # None, block'[w] # None
        PROVE  block'[v].addr # block'[w].addr
    BY <2>1, <2>2, <1>3, <1>5 DEF HoldersDiffer
  <2>3. ASSUME NEW j \in Cache!Slots, NEW k \in Cache!Slots, j # k, elements'[j].ptr # None
        PROVE  elements'[j].ptr # elements'[k].ptr
    BY <2>3, <1>3, <1>6 DEF HoldersDiffer
  <2>4. ASSUME NEW v \in Users, NEW j \in Cache!Slots, block'[v] # None, elements'[j].ptr # None
        PROVE  block'[v].addr # elements'[j].ptr + 1
    <3>1. j # i /\ elements[j].ptr \in Int
      BY <2>4, <1>3, <1>6 DEF CacheTypes, Cache!Addresses
    <3> QED
      BY <2>4, <3>1, <1>1, <1>3, <1>4, <1>5, <1>6 DEF HoldersDiffer
  <2> QED
    BY <2>2, <2>3, <2>4 DEF HoldersDiffer
<1>12. PiecesHeld'
  <2> SUFFICES ASSUME NEW b \in DOMAIN base
               PROVE  (\E v \in Users : UserHas(v, b)') \/ (\E j \in Cache!Slots : CellHas(j, b)')
    BY <1>2 DEF PiecesHeld
  <2>1. CASE b = a
    BY <2>1, <1>5 DEF UserHas
  <2>2. CASE b # a
    <3>1. CASE \E v \in Users : UserHas(v, b)
      BY <3>1, <1>5 DEF UserHas
    <3>2. CASE \E j \in Cache!Slots : CellHas(j, b)
      BY <3>2, <2>2, <1>6 DEF CellHas
    <3> QED
      BY <3>1, <3>2, <1>3 DEF PiecesHeld
  <2> QED
    BY <2>1, <2>2
<1> QED
  BY <1>2, <1>7, <1>8, <1>9, <1>10, <1>11, <1>12 DEF CacheInv

(* A new piece, from the base allocator.                                   *)
LEMMA CacheFresh ==
  ASSUME CacheInv, NEW u \in Users, NEW n \in CacheSizes, open, block[u] = None, Cache!Fresh(u, n)
  PROVE  CacheInv'
<1> USE CacheConstants, NoneDiffers
<1>1. PICK a \in Cache!Addresses :
         /\ Cache!Free(a, n + 1)
         /\ base' = [b \in DOMAIN base \cup {a} |-> IF b = a THEN n + 1 ELSE base[b]]
         /\ memory' = [memory EXCEPT ![a] = n]
         /\ block' = [block EXCEPT ![u] = [addr |-> a + 1, len |-> n]]
  BY DEF Cache!Fresh, Cache!UserPart
<1>2. UNCHANGED <<elements, open, misfreed>>
  BY DEF Cache!Fresh
<1>3. CacheTypes /\ PiecesApart /\ PiecesLabelled /\ UsersKnown /\ CellsKnown /\ HoldersDiffer
      /\ PiecesHeld
  BY DEF CacheInv
<1>4. a \in Int /\ n \in Nat
  BY DEF Cache!Addresses
<1>5. /\ block'[u] = [addr |-> a + 1, len |-> n] /\ block'[u] # None
      /\ \A v \in Users : v # u => block'[v] = block[v]
  BY <1>1, <1>3, <1>4 DEF CacheTypes
<1>6. a \notin DOMAIN base
  <2> SUFFICES ASSUME a \in DOMAIN base PROVE FALSE
    OBVIOUS
  <2>1. a \in Cache!Region(a, n + 1) /\ a \in Cache!Region(a, base[a])
    BY <1>3, <1>4 DEF CacheTypes, Cache!Region
  <2> QED
    BY <2>1, <1>1 DEF Cache!Free
<1>7. /\ base'[a] = n + 1 /\ DOMAIN base' = DOMAIN base \cup {a}
      /\ \A b \in DOMAIN base : base'[b] = base[b]
  BY <1>1, <1>6
<1>8. memory'[a] = n /\ \A b \in Cache!Addresses : b # a => memory'[b] = memory[b]
  BY <1>1, <1>3 DEF CacheTypes
<1>9. CacheTypes'
  <2>1. block' \in [Users -> [addr : Int, len : CacheSizes] \cup {None}]
    BY <1>1, <1>3, <1>4 DEF CacheTypes
  <2>2. memory' \in [Cache!Addresses -> CacheSizes \cup {Cache!Junk}]
    BY <1>1, <1>3 DEF CacheTypes
  <2>3. base' \in [DOMAIN base' -> Nat \ {0}] /\ DOMAIN base' \subseteq Cache!Addresses
    BY <1>1, <1>3, <1>4, <1>7 DEF CacheTypes
  <2> QED
    BY <2>1, <2>2, <2>3, <1>2, <1>3 DEF CacheTypes
<1>10. PiecesApart'
  <2>1. Piece(a)' = Cache!Region(a, n + 1) /\ \A b \in DOMAIN base : Piece(b)' = Piece(b)
    BY <1>7 DEF Piece
  <2>2. Piece(a)' \subseteq Cache!Addresses /\ \A b \in DOMAIN base : Piece(a)' \cap Piece(b) = {}
    BY <2>1, <1>1 DEF Cache!Free, Piece
  <2> HIDE DEF Piece
  <2> QED
    BY <2>1, <2>2, <1>3, <1>7 DEF PiecesApart
<1>11. PiecesLabelled'
  <2>1. \A b \in DOMAIN base : b # a /\ b \in Cache!Addresses
    BY <1>3, <1>6 DEF CacheTypes
  <2>2. memory'[a] = base'[a] - 1
    BY <1>4, <1>7, <1>8
  <2>3. \A b \in DOMAIN base : memory'[b] = base'[b] - 1
    BY <2>1, <1>3, <1>7, <1>8 DEF PiecesLabelled
  <2> QED
    BY <2>2, <2>3, <1>7 DEF PiecesLabelled
<1>12. UsersKnown'
  BY <1>3, <1>4, <1>5, <1>7 DEF UsersKnown
<1>13. CellsKnown'
  BY <1>2, <1>3, <1>7 DEF CellsKnown
<1>14. HoldersDiffer'
  <2>1. ASSUME NEW v \in Users, block[v] # None
        PROVE  block[v].addr # a + 1
    <3>1. PICK b \in DOMAIN base : block[v].addr = b + 1
      BY <2>1, <1>3 DEF UsersKnown
    <3> QED
      BY <3>1, <1>3, <1>4, <1>6 DEF CacheTypes, Cache!Addresses
  <2>2. ASSUME NEW v \in Users, NEW w \in Users, v # w, block'[v] # None, block'[w] # None
        PROVE  block'[v].addr # block'[w].addr
    BY <2>1, <2>2, <1>3, <1>5 DEF HoldersDiffer
  <2>3. ASSUME NEW v \in Users, NEW j \in Cache!Slots, block'[v] # None, elements'[j].ptr # None
        PROVE  block'[v].addr # elements'[j].ptr + 1
    <3>1. elements[j].ptr \in DOMAIN base /\ elements[j].ptr \in Int
      BY <2>3, <1>2, <1>3 DEF CellsKnown, CacheTypes, Cache!Addresses
    <3> QED
      BY <2>3, <3>1, <1>2, <1>3, <1>4, <1>5, <1>6 DEF HoldersDiffer
  <2> QED
    BY <2>2, <2>3, <1>2, <1>3 DEF HoldersDiffer
<1>15. PiecesHeld'
  BY <1>2, <1>3, <1>5, <1>7 DEF PiecesHeld, UserHas, CellHas
<1> QED
  BY <1>2, <1>9, <1>10, <1>11, <1>12, <1>13, <1>14, <1>15 DEF CacheInv
(* What a step of an allocator does to the users' memory, seen from the    *)
(* contract: u gets memory that is apart from all other, or gives its      *)
(* back.                                                                   *)
Given(u, b) ==
  /\ block[u] = None /\ block' = [block EXCEPT ![u] = b]
  /\ \A v \in Users \ {u} : block[v] # None =>
       (b.addr .. b.addr + b.len - 1) \cap (block[v].addr .. block[v].addr + block[v].len - 1) = {}

Taken(u) == block[u] # None /\ block' = [block EXCEPT ![u] = None]


(* A user writes, and the labels stay.                                     *)
LEMMA CacheWrite ==
  ASSUME CacheInv, NEW u \in Users, Cache!Write(u)
  PROVE  CacheInv'
<1> USE CacheConstants, NoneDiffers
<1>1. /\ block[u] # None
      /\ memory' = [a \in Cache!Addresses |->
                      IF a \in Cache!Region(block[u].addr, block[u].len) THEN Cache!Junk
                      ELSE memory[a]]
      /\ UNCHANGED <<block, elements, open, base, misfreed>>
  BY DEF Cache!Write
<1>2. open /\ CacheTypes /\ PiecesApart /\ PiecesLabelled /\ UsersKnown /\ CellsKnown
      /\ HoldersDiffer /\ PiecesHeld
  BY <1>1 DEF CacheInv, CacheTypes
<1>3. CacheTypes'
  BY <1>1, <1>2 DEF CacheTypes
<1>4. PiecesLabelled'
  <2>1. PICK a \in DOMAIN base : block[u].addr = a + 1 /\ block[u].len < base[a]
    BY <1>1, <1>2 DEF UsersKnown
  <2>2. a \in Int /\ base[a] \in Nat /\ block[u].len \in Nat
    <3>1. block[u] \in [addr : Int, len : CacheSizes]
      BY <1>1, <1>2 DEF CacheTypes
    <3> QED
      BY <2>1, <3>1, <1>2 DEF CacheTypes, Cache!Addresses
  <2>3. ASSUME NEW b \in DOMAIN base
        PROVE  b \notin Cache!Region(block[u].addr, block[u].len)
    <3>1. b \in Int /\ base[b] \in Nat \ {0}
      BY <1>2 DEF CacheTypes, Cache!Addresses
    <3>2. CASE b = a
      BY <3>1, <3>2, <2>1, <2>2 DEF Cache!Region
    <3>3. CASE b # a
      <4>1. Piece(b) \cap Piece(a) = {} /\ b \in Piece(b)
        BY <3>1, <3>3, <1>2, <2>1 DEF PiecesApart, Piece, Cache!Region
      <4>2. Cache!Region(block[u].addr, block[u].len) \subseteq Piece(a)
        BY <2>1, <2>2 DEF Piece, Cache!Region
      <4> QED
        BY <4>1, <4>2
    <3> QED
      BY <3>2, <3>3
  <2> QED
    BY <2>3, <1>1, <1>2 DEF PiecesLabelled, CacheTypes
<1> QED
  BY <1>1, <1>2, <1>3, <1>4 DEF CacheInv, PiecesApart, Piece, UsersKnown, CellsKnown,
     HoldersDiffer,
    PiecesHeld, UserHas, CellHas

(* A user's piece comes back to the element i, and the piece that the      *)
(* element had goes back to the base allocator: what Keep and Evict share. *)
LEMMA CacheExchange ==
  ASSUME CacheInv, NEW u \in Users, open, block[u] # None, NEW i \in Cache!Slots,
         elements' = [elements EXCEPT ![i] = [ptr |-> block[u].addr - 1, size |-> memory[block[u].addr - 1]]],
         base' = [a \in DOMAIN base \ {elements[i].ptr} |-> base[a]],
         block' = [block EXCEPT ![u] = None],
         UNCHANGED <<open, memory, misfreed>>
  PROVE  CacheInv'
<1> USE CacheConstants, NoneDiffers
<1>1. CacheTypes /\ PiecesApart /\ PiecesLabelled /\ UsersKnown /\ CellsKnown /\ HoldersDiffer
      /\ PiecesHeld
  BY DEF CacheInv
<1>2. PICK a \in DOMAIN base : block[u].addr = a + 1 /\ block[u].len < base[a]
  BY <1>1 DEF UsersKnown
<1>3. /\ a \in Int /\ a \in Cache!Addresses /\ base[a] \in Nat \ {0} /\ block[u].addr - 1 = a
      /\ memory[a] = base[a] - 1 /\ memory[a] \in CacheSizes
  <2>1. a \in Int /\ a \in Cache!Addresses /\ base[a] \in Nat \ {0} /\ memory[a] = base[a] - 1
    BY <1>1, <1>2 DEF CacheTypes, Cache!Addresses, PiecesLabelled
  <2>2. memory[a] \in CacheSizes \cup {Cache!Junk}
    BY <2>1, <1>1 DEF CacheTypes
  <2> QED
    BY <2>1, <2>2, <1>2 DEF Cache!Junk
<1>4. block'[u] = None /\ \A v \in Users : v # u => block'[v] = block[v]
  BY <1>1 DEF CacheTypes
<1>5. /\ elements'[i] = [ptr |-> a, size |-> memory[a]]
      /\ \A j \in Cache!Slots : j # i => elements'[j] = elements[j]
  BY <1>1, <1>3 DEF CacheTypes
<1> DEFINE old == elements[i].ptr
<1>6. a # old
  <2>1. elements[i].ptr \in Int \cup {None}
    BY <1>1 DEF CacheTypes, Cache!Addresses
  <2> QED
    BY <2>1, <1>1, <1>2, <1>3 DEF HoldersDiffer
<1>7. /\ DOMAIN base' = DOMAIN base \ {old}
      /\ \A b \in DOMAIN base \ {old} : base'[b] = base[b]
  OBVIOUS
<1> HIDE DEF old
<1>8. CacheTypes'
  <2>1. block' \in [Users -> [addr : Int, len : CacheSizes] \cup {None}]
    BY <1>1 DEF CacheTypes
  <2>2. elements' \in [Cache!Slots -> [ptr : Cache!Addresses \cup {None}, size : CacheSizes \cup {0}]]
    BY <1>1, <1>3 DEF CacheTypes
  <2>3. DOMAIN base' \subseteq Cache!Addresses /\ base' \in [DOMAIN base' -> Nat \ {0}]
    BY <1>1, <1>7 DEF CacheTypes
  <2> QED
    BY <2>1, <2>2, <2>3, <1>1 DEF CacheTypes
<1>9. PiecesApart'
  <2>1. \A b \in DOMAIN base' : b \in DOMAIN base /\ Piece(b)' = Piece(b)
    BY <1>7 DEF Piece
  <2> HIDE DEF Piece
  <2> QED
    BY <2>1, <1>1 DEF PiecesApart
<1>10. PiecesLabelled'
  BY <1>1, <1>7 DEF PiecesLabelled
<1>11. \A v \in Users : v # u /\ block[v] # None => block[v].addr # old + 1 \/ old = None
  BY <1>1 DEF HoldersDiffer, old
<1>12. UsersKnown'
  <2> SUFFICES ASSUME NEW v \in Users, block'[v] # None
               PROVE  \E b \in DOMAIN base' : block'[v].addr = b + 1 /\ block'[v].len < base'[b]
    BY DEF UsersKnown
  <2>1. v # u /\ block'[v] = block[v]
    BY <1>4
  <2>2. PICK b \in DOMAIN base : block[v].addr = b + 1 /\ block[v].len < base[b]
    BY <2>1, <1>1 DEF UsersKnown
  <2>3. b # old
    <3>1. b \in Int
      BY <1>1 DEF CacheTypes, Cache!Addresses
    <3> QED
      BY <3>1, <2>1, <2>2, <1>11
  <2> QED
    BY <2>1, <2>2, <2>3, <1>7
<1>13. CellsKnown'
  <2> SUFFICES ASSUME NEW j \in Cache!Slots, elements'[j].ptr # None
               PROVE  elements'[j].ptr \in DOMAIN base'
                        /\ elements'[j].size = base'[elements'[j].ptr] - 1
    BY DEF CellsKnown
  <2>1. CASE j = i
    BY <2>1, <1>2, <1>3, <1>5, <1>6, <1>7
  <2>2. CASE j # i
    <3>1. elements'[j] = elements[j] /\ elements[j].ptr \in DOMAIN base
          /\ elements[j].size = base[elements[j].ptr] - 1
      BY <2>2, <1>1, <1>5 DEF CellsKnown
    <3>2. elements[j].ptr # old
      BY <2>2, <3>1, <1>1 DEF HoldersDiffer, old
    <3> QED
      BY <3>1, <3>2, <1>7
  <2> QED
    BY <2>1, <2>2
<1>14. HoldersDiffer'
  <2>1. ASSUME NEW v \in Users, NEW w \in Users, v # w, block'[v] # None, block'[w] # None
        PROVE  block'[v].addr # block'[w].addr
    BY <2>1, <1>1, <1>4 DEF HoldersDiffer
  <2>2. ASSUME NEW j \in Cache!Slots, j # i
        PROVE  elements[j].ptr # a
    <3>1. a # None
      BY <1>3
    <3> QED
      BY <3>1, <2>2, <1>1, <1>2 DEF HoldersDiffer
  <2>3. ASSUME NEW j \in Cache!Slots, NEW k \in Cache!Slots, j # k, elements'[j].ptr # None
        PROVE  elements'[j].ptr # elements'[k].ptr
    BY <2>2, <2>3, <1>1, <1>5 DEF HoldersDiffer
  <2>4. ASSUME NEW v \in Users, NEW j \in Cache!Slots, block'[v] # None, elements'[j].ptr # None
        PROVE  block'[v].addr # elements'[j].ptr + 1
    BY <2>4, <1>1, <1>2, <1>4, <1>5 DEF HoldersDiffer
  <2> QED
    BY <2>1, <2>3, <2>4 DEF HoldersDiffer
<1>15. PiecesHeld'
  <2> SUFFICES ASSUME NEW b \in DOMAIN base, b # old
               PROVE  (\E v \in Users : UserHas(v, b)') \/ (\E j \in Cache!Slots : CellHas(j, b)')
    BY <1>7 DEF PiecesHeld
  <2>1. CASE \E v \in Users : UserHas(v, b)
    <3>1. PICK v \in Users : UserHas(v, b)
      BY <2>1
    <3>2. CASE v # u
      BY <3>1, <3>2, <1>4 DEF UserHas
    <3>3. CASE v = u
      <4>1. b \in Int
        BY <1>1 DEF CacheTypes, Cache!Addresses
      <4> QED
        BY <4>1, <3>1, <3>3, <1>2, <1>3, <1>5 DEF UserHas, CellHas
    <3> QED
      BY <3>2, <3>3
  <2>2. CASE \E j \in Cache!Slots : CellHas(j, b)
    BY <2>2, <1>5 DEF CellHas, old
  <2> QED
    BY <2>1, <2>2, <1>1 DEF PiecesHeld
<1> QED
  BY <1>8, <1>9, <1>10, <1>12, <1>13, <1>14, <1>15 DEF CacheInv

(* A user gives its memory back.                                           *)
LEMMA CacheDeallocate ==
  ASSUME CacheInv, NEW u \in Users, Cache!Deallocate(u)
  PROVE  CacheInv'
<1> USE CacheConstants, NoneDiffers
<1>1. open /\ block[u] # None /\ block' = [block EXCEPT ![u] = None] /\ UNCHANGED <<open, memory>>
  BY DEF Cache!Deallocate
<1>2. CacheTypes /\ CellsKnown
  BY <1>1 DEF CacheInv
<1>3. CASE Cache!Keep(u)
  <2> DEFINE i == Cache!Min(Cache!Empty)
  <2>1. i \in Cache!Slots /\ elements[i].ptr = None
    BY <1>3, CacheMin DEF Cache!Keep, Cache!Empty
  <2>2. elements' = [elements EXCEPT ![i] = [ptr |-> block[u].addr - 1, size |-> memory[block[u].addr - 1]]]
        /\ UNCHANGED <<base, misfreed>>
    BY <1>3 DEF Cache!Keep
  <2> HIDE DEF i
  <2>3. base' = [a \in DOMAIN base \ {elements[i].ptr} |-> base[a]]
    <3>1. None \notin DOMAIN base
      BY <1>2 DEF CacheTypes, Cache!Addresses
    <3>2. DOMAIN base \ {elements[i].ptr} = DOMAIN base
      BY <3>1, <2>1
    <3>3. base = [a \in DOMAIN base |-> base[a]]
      BY <1>2 DEF CacheTypes
    <3> QED
      BY <3>2, <3>3, <2>2
  <2> QED
    BY <2>1, <2>2, <2>3, <1>1, CacheExchange
<1>4. CASE Cache!Evict(u)
  <2> DEFINE i == Cache!Smallest
             Least == {k \in Cache!Slots : \A j \in Cache!Slots : elements[k].size <= elements[j].size}
  <2>1. Cache!Empty = {}
    BY <1>4 DEF Cache!Evict
  <2>2. Least # {}
    <3> DEFINE T == {elements[k].size : k \in Cache!Slots}
    <3>1. T \in SUBSET Nat /\ T # {}
      <4>1. 1 \in Cache!Slots
        BY DEF Cache!Slots
      <4>2. \A k \in Cache!Slots : elements[k].size \in Nat
        BY <1>2 DEF CacheTypes
      <4>3. T \in SUBSET Nat
        BY <4>2
      <4>4. elements[1].size \in T
        BY <4>1
      <4> QED
        BY <4>3, <4>4
    <3>2. PICK x \in T : \A y \in T : x <= y
      <4> HIDE DEF T
      <4> QED
        BY <3>1, LeastNatural
    <3>3. PICK k \in Cache!Slots : x = elements[k].size
      OBVIOUS
    <3> QED
      BY <3>2, <3>3
  <2>3. i \in Cache!Slots /\ elements[i].ptr # None
    <3>1. i \in Least
      BY <2>2, CacheMin DEF Cache!Smallest
    <3> QED
      BY <3>1, <2>1 DEF Cache!Empty
  <2>4. /\ elements' = [elements EXCEPT ![i] = [ptr |-> block[u].addr - 1, size |-> memory[block[u].addr - 1]]]
        /\ base' = [a \in DOMAIN base \ {elements[i].ptr} |-> base[a]]
        /\ misfreed' = (misfreed \/ Cache!Misfree(elements[i].ptr, elements[i].size + 1))
    BY <1>4 DEF Cache!Evict, Cache!WithoutPieces
  <2> HIDE DEF i
  <2>5. misfreed' = misfreed
    <3>1. elements[i].ptr \in DOMAIN base /\ base[elements[i].ptr] = elements[i].size + 1
      BY <2>3, <1>2 DEF CellsKnown, CacheTypes
    <3> QED
      BY <3>1, <2>4, <1>2 DEF Cache!Misfree, CacheTypes
  <2> QED
    BY <2>3, <2>4, <2>5, <1>1, CacheExchange
<1> QED
  BY <1>3, <1>4 DEF Cache!Deallocate

(* The arena goes, and all that it kept with it.                           *)
LEMMA CacheDestroy ==
  ASSUME CacheInv, Cache!Destroy
  PROVE  CacheInv'
<1> USE CacheConstants, NoneDiffers
<1> DEFINE kept == Cache!Slots \ Cache!Empty
<1>1. /\ open /\ ~open' /\ \A u \in Users : block[u] = None
      /\ misfreed' = (misfreed \/ \E i \in kept : Cache!Misfree(elements[i].ptr, elements[i].size + 1))
      /\ base' = [a \in DOMAIN base \ {elements[i].ptr : i \in kept} |-> base[a]]
      /\ UNCHANGED <<block, elements, memory>>
  BY DEF Cache!Destroy, Cache!WithoutPieces
<1>2. CacheTypes /\ CellsKnown /\ PiecesHeld
  BY <1>1 DEF CacheInv
<1>3. \A i \in kept : ~Cache!Misfree(elements[i].ptr, elements[i].size + 1)
  BY <1>2 DEF CellsKnown, CacheTypes, Cache!Misfree, Cache!Empty
<1>4. DOMAIN base' = {}
  <2> SUFFICES ASSUME NEW a \in DOMAIN base
               PROVE  \E i \in kept : elements[i].ptr = a
    BY <1>1
  <2>1. a # None
    BY <1>2 DEF CacheTypes, Cache!Addresses
  <2> QED
    BY <2>1, <1>1, <1>2 DEF PiecesHeld, UserHas, CellHas, Cache!Empty
<1>5. CacheTypes'
  <2>1. misfreed' = FALSE
    BY <1>1, <1>2, <1>3 DEF CacheTypes
  <2>2. base' \in [DOMAIN base' -> Nat \ {0}] /\ DOMAIN base' \subseteq Cache!Addresses
    BY <1>1, <1>4
  <2>3. open' \in BOOLEAN
    BY DEF Cache!Destroy
  <2> HIDE DEF kept
  <2> QED
    BY <2>1, <2>2, <2>3, <1>1, <1>2 DEF CacheTypes
<1> QED
  BY <1>1, <1>4, <1>5 DEF CacheInv, PiecesApart, PiecesLabelled

(* Each operation of the cache keeps its invariant.                        *)
LEMMA CacheStep ==
  ASSUME CacheInv, Cache!Next
  PROVE  CacheInv'
<1>1. ASSUME NEW u \in Users, Cache!Allocate(u) PROVE CacheInv'
  BY <1>1, CacheReuse, CacheFresh DEF Cache!Allocate
<1> QED
  BY <1>1, CacheWrite, CacheDeallocate, CacheDestroy DEF Cache!Next

(* What the invariant says of the run's properties.                        *)
LEMMA CacheTypeCorrect == CacheInv => Cache!TypeOK
BY DEF CacheInv, CacheTypes, Cache!TypeOK

(* The invariant of the cache: each piece of the base allocator has        *)
(* exactly one holder, and its label is its size.                          *)
LEMMA CacheAccounts == CacheInv => Cache!Accounted
<1> SUFFICES ASSUME CacheInv PROVE Cache!Accounted
  OBVIOUS
<1> USE CacheConstants, NoneDiffers
<1>1. ASSUME open, NEW a \in DOMAIN base
      PROVE  Cache!Cardinality(Cache!Holders(a)) = 1
  <2>1. CacheTypes /\ HoldersDiffer /\ PiecesHeld
    BY <1>1 DEF CacheInv
  <2>2. a \in Int
    BY <2>1 DEF CacheTypes, Cache!Addresses
  <2>3. \E x : Cache!Holders(a) = {x}
    <3>1. CASE \E u \in Users : UserHas(u, a)
      <4>1. PICK u \in Users : UserHas(u, a)
        BY <3>1
      <4>2. \A v \in Users : UserHas(v, a) => v = u
        BY <4>1, <2>1 DEF UserHas, HoldersDiffer
      <4>3. \A i \in Cache!Slots : elements[i].ptr # a
        BY <4>1, <2>1, <2>2 DEF UserHas, HoldersDiffer
      <4> QED
        BY <4>1, <4>2, <4>3 DEF Cache!Holders, UserHas
    <3>2. CASE ~\E u \in Users : UserHas(u, a)
      <4>1. PICK i \in Cache!Slots : elements[i].ptr = a
        BY <3>2, <2>1 DEF PiecesHeld, CellHas
      <4>2. \A j \in Cache!Slots : elements[j].ptr = a => j = i
        BY <4>1, <2>1, <2>2 DEF HoldersDiffer
      <4> QED
        BY <4>1, <4>2, <3>2 DEF Cache!Holders, UserHas
    <3> QED
      BY <3>1, <3>2
  <2> QED
    BY <2>3, FS_Singleton, CacheCardinality
<1>2. ASSUME open PROVE \A i \in Cache!Slots : elements[i].ptr # None =>
               elements[i].ptr \in DOMAIN base
  BY <1>2 DEF CacheInv, CellsKnown
<1>3. ~misfreed /\ (~open => DOMAIN base = {})
  BY DEF CacheInv, CacheTypes
<1>4. Cache!OneHolder
  <2>1. open => \A a \in DOMAIN base : Cache!Cardinality(Cache!Holders(a)) = 1
    BY <1>1
  <2>2. open => \A i \in Cache!Slots : elements[i].ptr # None => elements[i].ptr \in DOMAIN base
    BY <1>2
  <2> HIDE DEF Cache!Holders
  <2> QED
    BY <2>1, <2>2 DEF Cache!OneHolder
<1> QED
  BY <1>3, <1>4 DEF Cache!Accounted, Cache!AllReturned

(* The cache gives apart memory.                                           *)
LEMMA CacheGives ==
  ASSUME CacheInv, CacheInv', NEW u \in Users, Cache!Allocate(u)
  PROVE  \E n \in CacheSizes : \E a \in Int : Given(u, [addr |-> a, len |-> n])
<1> USE CacheConstants, NoneDiffers
<1>1. PICK n \in CacheSizes : Cache!Reuse(u, n) \/ Cache!Fresh(u, n)
  BY DEF Cache!Allocate
<1>2. open /\ block[u] = None /\ open'
  BY <1>1 DEF Cache!Allocate, Cache!Reuse, Cache!Fresh
<1>3. CacheTypes /\ CacheTypes' /\ PiecesApart' /\ UsersKnown' /\ HoldersDiffer'
  BY <1>2 DEF CacheInv
<1>4. PICK b \in Int : block' = [block EXCEPT ![u] = [addr |-> b, len |-> n]]
  <2>1. CASE Cache!Fresh(u, n)
    <3>1. PICK a \in Cache!Addresses : block' = [block EXCEPT ![u] = [addr |-> a + 1, len |-> n]]
      BY <2>1 DEF Cache!Fresh, Cache!UserPart
    <3>2. a + 1 \in Int
      BY DEF Cache!Addresses
    <3> QED
      BY <3>1, <3>2
  <2>2. CASE Cache!Reuse(u, n)
    <3> DEFINE i == Cache!Min(Cache!Hits(n))
    <3>1. i \in Cache!Slots /\ elements[i].ptr # None
      BY <2>2, CacheMin DEF Cache!Reuse, Cache!Hits
    <3>2. block' = [block EXCEPT ![u] = [addr |-> elements[i].ptr + 1, len |-> n]]
      BY <2>2 DEF Cache!Reuse, Cache!UserPart
    <3> HIDE DEF i
    <3>3. elements[i].ptr + 1 \in Int
      BY <3>1, <1>3 DEF CacheTypes, Cache!Addresses
    <3> QED
      BY <3>2, <3>3
  <2> QED
    BY <1>1, <2>1, <2>2
<1>5. block'[u] = [addr |-> b, len |-> n] /\ \A v \in Users : v # u => block'[v] = block[v]
  BY <1>3, <1>4 DEF CacheTypes
<1>6. ASSUME NEW v \in Users \ {u}, block[v] # None
      PROVE  (b .. b + n - 1) \cap (block[v].addr .. block[v].addr + block[v].len - 1) = {}
  <2>1. block'[u] # None /\ block'[v] = block[v] /\ block[v].len \in Nat
    BY <1>3, <1>5, <1>6 DEF CacheTypes
  <2>2. PICK c \in DOMAIN base' : b = c + 1 /\ n < base'[c]
    BY <1>3, <1>5, <2>1 DEF UsersKnown
  <2>3. PICK d \in DOMAIN base' : block[v].addr = d + 1 /\ block[v].len < base'[d]
    BY <1>3, <1>6, <2>1 DEF UsersKnown
  <2>4. c # d
    BY <1>3, <1>5, <1>6, <2>1, <2>2, <2>3 DEF HoldersDiffer
  <2>5. Piece(c)' \cap Piece(d)' = {}
    BY <1>3, <2>4 DEF PiecesApart
  <2>6. c \in Int /\ d \in Int /\ base'[c] \in Nat /\ base'[d] \in Nat
    BY <1>3 DEF CacheTypes, Cache!Addresses
  <2>7. (b .. b + n - 1) \subseteq Piece(c)'
        /\ (block[v].addr .. block[v].addr + block[v].len - 1) \subseteq Piece(d)'
    BY <2>1, <2>2, <2>3, <2>6 DEF Piece, Cache!Region
  <2> QED
    BY <2>5, <2>7
<1> QED
  BY <1>2, <1>4, <1>6 DEF Given

(* What the cache does to the users' memory.                               *)
LEMMA CacheImplements ==
  ASSUME CacheInv, CacheInv', Cache!Next
  PROVE  \/ \E u \in Users : \/ \E n \in CacheSizes : \E a \in Int : Given(u, [addr |-> a, len |-> n])
                             \/ Taken(u)
         \/ UNCHANGED block
<1>1. ASSUME NEW u \in Users, Cache!Deallocate(u) PROVE Taken(u)
  BY <1>1 DEF Cache!Deallocate, Taken
<1>2. ASSUME NEW u \in Users, Cache!Write(u) PROVE UNCHANGED block
  BY <1>2 DEF Cache!Write
<1>3. ASSUME Cache!Destroy PROVE UNCHANGED block
  BY <1>3 DEF Cache!Destroy
<1> QED
  BY <1>1, <1>2, <1>3, CacheGives DEF Cache!Next
(* Rounding up to a multiple of c gives no less, and less than c more.     *)
LEMMA RoundUp ==
  ASSUME NEW c \in Nat \ {0}, NEW n \in Nat
  PROVE  /\ ((n + c - 1) \div c) * c \in Nat
         /\ ((n + c - 1) \div c) * c >= n
         /\ ((n + c - 1) \div c) * c < n + c
<1> DEFINE a == n + c - 1
           q == a \div c
           r == a % c
<1>1. a \in Nat
  OBVIOUS
<1>2. r \in 0 .. c - 1 /\ q \in Nat /\ a = c * q + r
  <2> HIDE DEF a
  <2> QED
    BY <1>1, ModDef
<1> HIDE DEF q, r
<1>3. q * c \in Nat /\ q * c = c * q
  BY <1>2
<1>4. q * c >= n /\ q * c < n + c
  BY <1>2, <1>3
<1> QED
  BY <1>3, <1>4 DEF q

(* Sums over finite sets: what MapThenSumSet of the library computes.      *)
Chosen(s) == CHOOSE x \in s : TRUE

IsSum(g, f, D) ==
  /\ g \in [D -> Nat]
  /\ \A s \in D : g[s] = IF s = {} THEN 0 ELSE f[Chosen(s)] + g[s \ {Chosen(s)}]

SumTable(f, S) ==
  CHOOSE g : g = [s \in SUBSET S |->
                    IF s = {} THEN 0 ELSE f[CHOOSE x \in s : TRUE] + g[s \ {CHOOSE x \in s : TRUE}]]

Sum(f, S) == SumTable(f, S)[S]

UpTo(S, k) == {s \in SUBSET S : Cardinality(s) <= k}

(* A set that is not empty has one element less without one of them.       *)
LEMMA OneLess ==
  ASSUME NEW S, IsFiniteSet(S), NEW s \in SUBSET S, NEW x \in s
  PROVE  /\ IsFiniteSet(s) /\ IsFiniteSet(s \ {x})
         /\ Cardinality(s) \in Nat /\ Cardinality(s \ {x}) \in Nat
         /\ Cardinality(s \ {x}) = Cardinality(s) - 1
<1>1. IsFiniteSet(s)
  BY FS_Subset
<1> QED
  BY <1>1, FS_RemoveElement, FS_CardinalityType

(* What CHOOSE picks of a set that is not empty.                           *)
LEMMA ChosenIn ==
  ASSUME NEW s, s # {}
  PROVE  Chosen(s) \in s
BY DEF Chosen

(* There is a function that gives the sum over each subset of a finite     *)
(* set: by induction over the number of elements, on the least one for     *)
(* which there is none.                                                    *)
LEMMA SumExists ==
  ASSUME NEW S, IsFiniteSet(S), NEW f \in [S -> Nat]
  PROVE  \E g : IsSum(g, f, SUBSET S)
<1> DEFINE Bad == {k \in Nat : ~\E g : IsSum(g, f, UpTo(S, k))}
<1>1. Bad = {}
  <2> SUFFICES ASSUME Bad # {} PROVE FALSE
    OBVIOUS
  <2>1. PICK k \in Bad : \A j \in Bad : k <= j
    <3>1. Bad \in SUBSET Nat
      OBVIOUS
    <3> HIDE DEF Bad
    <3> QED
      BY <3>1, LeastNatural
  <2>2. CASE k = 0
    <3> DEFINE g == [s \in UpTo(S, 0) |-> 0]
    <3>1. ASSUME NEW s \in UpTo(S, 0) PROVE s = {}
      <4>1. s \in SUBSET S /\ Cardinality(s) <= 0 /\ IsFiniteSet(s)
        BY FS_Subset DEF UpTo
      <4> QED
        BY <4>1, FS_EmptySet, FS_CardinalityType
    <3>2. IsSum(g, f, UpTo(S, 0))
      BY <3>1 DEF IsSum
    <3> QED
      BY <2>2, <3>2
  <2>3. CASE k > 0
    <3>1. k - 1 \in Nat /\ k - 1 \notin Bad
      BY <2>1, <2>3
    <3>2. PICK g : IsSum(g, f, UpTo(S, k - 1))
      BY <3>1
    <3> DEFINE h == [s \in UpTo(S, k) |-> IF s = {} THEN 0 ELSE f[Chosen(s)] + g[s \ {Chosen(s)}]]
    <3>3. ASSUME NEW s \in UpTo(S, k), s # {}
          PROVE  Chosen(s) \in S /\ s \ {Chosen(s)} \in UpTo(S, k - 1)
                   /\ s \ {Chosen(s)} \in UpTo(S, k)
      <4>1. s \in SUBSET S /\ Chosen(s) \in s /\ Cardinality(s) <= k
        BY <3>3, ChosenIn DEF UpTo
      <4>2. Cardinality(s \ {Chosen(s)}) = Cardinality(s) - 1 /\ Cardinality(s) \in Nat
        BY <4>1, OneLess
      <4> QED
        BY <4>1, <4>2, <2>1 DEF UpTo
    <3>4. ASSUME NEW s \in UpTo(S, k - 1) PROVE s \in UpTo(S, k) /\ h[s] = g[s]
      <4>1. s \in UpTo(S, k)
        <5>1. IsFiniteSet(s) /\ s \in SUBSET S /\ Cardinality(s) <= k - 1
          BY FS_Subset DEF UpTo
        <5> QED
          BY <5>1, FS_CardinalityType, <2>1 DEF UpTo
      <4> QED
        BY <4>1, <3>2 DEF IsSum
    <3>5. h \in [UpTo(S, k) -> Nat]
      <4> SUFFICES ASSUME NEW s \in UpTo(S, k), s # {}
          PROVE f[Chosen(s)] + g[s \ {Chosen(s)}] \in Nat
        OBVIOUS
      <4>1. f[Chosen(s)] \in Nat /\ g[s \ {Chosen(s)}] \in Nat
        BY <3>2, <3>3 DEF IsSum
      <4> QED
        BY <4>1
    <3>6. ASSUME NEW s \in UpTo(S, k) PROVE h[s] = IF s = {} THEN 0
                 ELSE f[Chosen(s)] + h[s \ {Chosen(s)}]
      <4>1. h[s] = IF s = {} THEN 0 ELSE f[Chosen(s)] + g[s \ {Chosen(s)}]
        OBVIOUS
      <4>2. s # {} => h[s \ {Chosen(s)}] = g[s \ {Chosen(s)}]
        <5> HIDE DEF h
        <5> QED
          BY <3>3, <3>4
      <4> HIDE DEF h
      <4> QED
        BY <4>1, <4>2
    <3>7. IsSum(h, f, UpTo(S, k))
      <4> HIDE DEF h
      <4> QED
        BY <3>5, <3>6 DEF IsSum
    <3> QED
      BY <3>7, <2>1
  <2> QED
    BY <2>1, <2>2, <2>3
<1>2. Cardinality(S) \in Nat
  BY FS_CardinalityType
<1>3. UpTo(S, Cardinality(S)) = SUBSET S
  BY FS_Subset, FS_CardinalityType DEF UpTo
<1>4. \A k \in Nat : \E g : IsSum(g, f, UpTo(S, k))
  BY <1>1
<1>5. \E g : IsSum(g, f, UpTo(S, Cardinality(S)))
  BY <1>2, <1>4
<1> QED
  BY <1>3, <1>5

(* The function by which the library defines a sum is one.                 *)
LEMMA SumIs ==
  ASSUME NEW S, IsFiniteSet(S), NEW f \in [S -> Nat]
  PROVE  IsSum(SumTable(f, S), f, SUBSET S)
<1> DEFINE Step(g) == [s \in SUBSET S |-> IF s = {} THEN 0 ELSE f[Chosen(s)] + g[s \ {Chosen(s)}]]
<1>1. PICK g : IsSum(g, f, SUBSET S)
  BY SumExists
<1>2. g = Step(g)
  BY <1>1 DEF IsSum
<1>3. SumTable(f, S) = CHOOSE e : e = Step(e)
  BY DEF SumTable, Chosen
<1>4. SumTable(f, S) = Step(SumTable(f, S))
  <2> HIDE DEF Step
  <2> QED
    BY <1>2, <1>3
<1> DEFINE h == SumTable(f, S)
<1> HIDE DEF h
<1>5. h = Step(h)
  BY <1>4 DEF h
<1>6. DOMAIN h = SUBSET S /\ \A s \in SUBSET S : h[s] = IF s = {} THEN 0
      ELSE f[Chosen(s)] + h[s \ {Chosen(s)}]
  BY <1>5
<1>7. \A s \in SUBSET S : h[s] = g[s]
  <2> DEFINE Bad == {k \in Nat : \E s \in SUBSET S : Cardinality(s) = k /\ h[s] # g[s]}
  <2>1. Bad = {}
    <3> SUFFICES ASSUME Bad # {} PROVE FALSE
      OBVIOUS
    <3>1. PICK k \in Bad : \A j \in Bad : k <= j
      <4>1. Bad \in SUBSET Nat
        OBVIOUS
      <4> HIDE DEF Bad
      <4> QED
        BY <4>1, LeastNatural
    <3>2. PICK s \in SUBSET S : Cardinality(s) = k /\ h[s] # g[s]
      BY <3>1
    <3>3. s # {}
      BY <3>2, <1>1, <1>6 DEF IsSum
    <3>4. Chosen(s) \in s
      BY <3>3, ChosenIn
    <3>5. Cardinality(s \ {Chosen(s)}) \in Nat /\ Cardinality(s \ {Chosen(s)}) < k
      <4>1. Cardinality(s \ {Chosen(s)}) \in Nat /\ Cardinality(s \ {Chosen(s)}) = k - 1
            /\ k \in Nat
        BY <3>2, <3>4, OneLess
      <4> QED
        BY <4>1
    <3>6. h[s \ {Chosen(s)}] = g[s \ {Chosen(s)}]
      BY <3>1, <3>5
    <3> QED
      BY <3>2, <3>3, <3>6, <1>1, <1>6 DEF IsSum
  <2> SUFFICES ASSUME NEW s \in SUBSET S PROVE h[s] = g[s]
    OBVIOUS
  <2>2. Cardinality(s) \in Nat
    BY FS_Subset, FS_CardinalityType
  <2> QED
    BY <2>1, <2>2
<1>8. h \in [SUBSET S -> Nat]
  BY <1>1, <1>5, <1>6, <1>7 DEF IsSum
<1> QED
  BY <1>6, <1>8 DEF IsSum, h

(* Sums agree where their terms do.                                        *)
LEMMA SumsAgree ==
  ASSUME NEW S, IsFiniteSet(S), NEW T, NEW f, NEW e, NEW g, NEW h,
         IsSum(g, f, SUBSET S), IsSum(h, e, SUBSET T),
         NEW r, r \subseteq S, r \subseteq T, \A x \in r : f[x] = e[x]
  PROVE  g[r] = h[r]
<1> DEFINE Bad == {k \in Nat : \E s \in SUBSET r : Cardinality(s) = k /\ h[s] # g[s]}
<1>1. Bad = {}
  <2> SUFFICES ASSUME Bad # {} PROVE FALSE
    OBVIOUS
  <2>1. PICK k \in Bad : \A j \in Bad : k <= j
    <3>1. Bad \in SUBSET Nat
      OBVIOUS
    <3> HIDE DEF Bad
    <3> QED
      BY <3>1, LeastNatural
  <2>2. PICK s \in SUBSET r : Cardinality(s) = k /\ h[s] # g[s]
    BY <2>1
  <2>3. s # {}
    BY <2>2 DEF IsSum
  <2>4. Chosen(s) \in s
    BY <2>3, ChosenIn
  <2>5. Cardinality(s \ {Chosen(s)}) \in Nat /\ Cardinality(s \ {Chosen(s)}) < k
    <3>1. s \in SUBSET S
      OBVIOUS
    <3>2. Cardinality(s \ {Chosen(s)}) \in Nat /\ Cardinality(s \ {Chosen(s)}) = k - 1
          /\ k \in Nat
      BY <3>1, <2>2, <2>4, OneLess
    <3> QED
      BY <3>2
  <2>6. h[s \ {Chosen(s)}] = g[s \ {Chosen(s)}]
    BY <2>1, <2>5
  <2> QED
    BY <2>2, <2>3, <2>4, <2>6 DEF IsSum
<1>2. Cardinality(r) \in Nat
  BY FS_Subset, FS_CardinalityType
<1> QED
  BY <1>1, <1>2

(* A sum is any term and the sum of the others.                            *)
LEMMA SumAny ==
  ASSUME NEW S, IsFiniteSet(S), NEW f, f \in [S -> Nat], NEW g, IsSum(g, f, SUBSET S),
         NEW r, r \subseteq S, NEW y, y \in r, NEW rest, rest = r \ {y}
  PROVE  g[r] = f[y] + g[rest]
<1> DEFINE Bad == {k \in Nat : \E s \in SUBSET S : \E x \in s : Cardinality(s) = k /\ g[s] # f[x] + g[s \ {x}]}
<1>1. Bad = {}
  <2> SUFFICES ASSUME Bad # {} PROVE FALSE
    OBVIOUS
  <2>1. PICK k \in Bad : \A j \in Bad : k <= j
    <3>1. Bad \in SUBSET Nat
      OBVIOUS
    <3> HIDE DEF Bad
    <3> QED
      BY <3>1, LeastNatural
  <2>2. PICK s \in SUBSET S : \E x \in s : Cardinality(s) = k /\ g[s] # f[x] + g[s \ {x}]
    BY <2>1
  <2>3. PICK x \in s : Cardinality(s) = k /\ g[s] # f[x] + g[s \ {x}]
    BY <2>2
  <2> DEFINE c == Chosen(s)
  <2>4. c \in s /\ g[s] = f[c] + g[s \ {c}]
    BY ChosenIn DEF IsSum
  <2> HIDE DEF c
  <2>5. c # x
    BY <2>3, <2>4
  <2> DEFINE less == s \ {c}  other == s \ {x}
  <2>6. /\ Cardinality(less) \in Nat /\ Cardinality(less) < k
        /\ Cardinality(other) \in Nat /\ Cardinality(other) < k
        /\ less \in SUBSET S /\ other \in SUBSET S
        /\ x \in less /\ c \in other /\ k \in Nat
    <3>1. Cardinality(less) \in Nat /\ Cardinality(less) = k - 1 /\ k \in Nat
      BY <2>3, <2>4, OneLess
    <3>2. Cardinality(other) \in Nat /\ Cardinality(other) = k - 1 /\ k \in Nat
      BY <2>3, <2>4, OneLess
    <3> QED
      BY <3>1, <3>2, <2>4, <2>5
  <2>7. g[less] = f[x] + g[less \ {x}]
    <3> HIDE DEF less, other
    <3>1. Cardinality(less) \notin Bad
      <4> HIDE DEF Bad
      <4> QED
        BY <2>1, <2>6
    <3> QED
      BY <3>1, <2>6
  <2>8. g[other] = f[c] + g[other \ {c}]
    <3> HIDE DEF less, other
    <3>1. Cardinality(other) \notin Bad
      <4> HIDE DEF Bad
      <4> QED
        BY <2>1, <2>6
    <3> QED
      BY <3>1, <2>6
  <2>9. less \ {x} = other \ {c} /\ less \ {x} \in SUBSET S
    OBVIOUS
  <2>10. f[x] \in Nat /\ f[c] \in Nat /\ g[less \ {x}] \in Nat
    BY <2>4, <2>9 DEF IsSum
  <2>11. g[s] = f[c] + g[less] /\ g[s] # f[x] + g[other]
    BY <2>3, <2>4
  <2>12. g[other] = f[c] + g[less \ {x}]
    BY <2>8, <2>9
  <2> HIDE DEF less, other
  <2>13. g[s] = f[c] + (f[x] + g[less \ {x}]) /\ g[s] # f[x] + (f[c] + g[less \ {x}])
    BY <2>7, <2>11, <2>12
  <2> QED
    BY <2>10, <2>13
<1>2. Cardinality(r) \in Nat
  BY FS_Subset, FS_CardinalityType
<1>3. \A s : s \subseteq S /\ Cardinality(s) \in Nat => \A x \in s : g[s] = f[x] + g[s \ {x}]
  BY <1>1
<1>4. g[r] = f[y] + g[r \ {y}]
  BY <1>2, <1>3
<1> QED
  BY <1>4

(* A sum is a number, and one more term is added to it.                    *)
LEMMA SumAdd ==
  ASSUME NEW S, IsFiniteSet(S), NEW u, u \notin S, NEW f \in [S \cup {u} -> Nat],
         NEW e \in [S -> Nat],
         \A x \in S : f[x] = e[x]
  PROVE  /\ Sum(e, S) \in Nat
         /\ Sum(f, S \cup {u}) = f[u] + Sum(e, S)
<1>1. IsFiniteSet(S \cup {u})
  BY FS_AddElement
<1> DEFINE g == SumTable(f, S \cup {u})  h == SumTable(e, S)
<1>2. IsSum(g, f, SUBSET (S \cup {u})) /\ IsSum(h, e, SUBSET S)
  BY <1>1, SumIs
<1> HIDE DEF g, h
<1> DEFINE all == S \cup {u}
<1>3. g[S \cup {u}] = f[u] + g[(S \cup {u}) \ {u}]
  <2>1. all \subseteq all /\ u \in all /\ f \in [all -> Nat] /\ IsFiniteSet(all)
        /\ IsSum(g, f, SUBSET all)
    BY <1>1, <1>2
  <2> HIDE DEF all
  <2>2. g[all] = f[u] + g[all \ {u}]
    BY <2>1, SumAny
  <2> QED
    BY <2>2 DEF all
<1>4. (S \cup {u}) \ {u} = S
  OBVIOUS
<1>5. g[S] = h[S]
  <2>1. S \subseteq all /\ S \subseteq S /\ IsFiniteSet(all) /\ IsSum(g, f, SUBSET all)
    BY <1>1, <1>2
  <2> HIDE DEF all
  <2> QED
    BY SMTT(30), <2>1, <1>2, SumsAgree
<1> QED
  BY <1>2, <1>3, <1>4, <1>5 DEF Sum, IsSum, g, h

(* A sum of numbers is zero only if all of them are.                       *)
LEMMA SumZero ==
  ASSUME NEW S, IsFiniteSet(S), NEW f \in [S -> Nat], Sum(f, S) = 0, NEW x \in S
  PROVE  f[x] = 0
<1> DEFINE g == SumTable(f, S)
<1>1. IsSum(g, f, SUBSET S)
  BY SumIs
<1> HIDE DEF g
<1>2. g[S] = f[x] + g[S \ {x}] /\ g[S \ {x}] \in Nat
  <2>1. S \subseteq S /\ S \ {x} \in SUBSET S
    OBVIOUS
  <2>2. g[S] = f[x] + g[S \ {x}]
    BY <1>1, <2>1, SumAny
  <2> QED
    BY <1>1, <2>1, <2>2 DEF IsSum
<1>3. f[x] \in Nat
  OBVIOUS
<1> QED
  BY <1>2, <1>3 DEF Sum, g

(* The sum over nothing, and that any sum is a number.                     *)
LEMMA SumType ==
  ASSUME NEW S, IsFiniteSet(S), NEW f \in [S -> Nat]
  PROVE  Sum(f, S) \in Nat /\ (S = {} => Sum(f, S) = 0)
<1>1. IsSum(SumTable(f, S), f, SUBSET S)
  BY SumIs
<1> QED
  BY <1>1 DEF Sum, IsSum

(***************************************************************************)
(* The arenas: memory of the buffer is below ptr, apart, and what users    *)
(* hold of all memory sums up to the difference of full_used and           *)
(* full_returned, where they are counted, but for what a refused request   *)
(* has added.                                                              *)
(* The sum over a set is taken from its definition, since the library      *)
(* states no theorems of folds.                                            *)
(***************************************************************************)
Up(n) == Arenas!align_up(n)
InUse == {u \in Users : block[u] # None}
Weights == [u \in InUse |-> Up(block[u].len)]

ArenaTypes ==
  /\ counted \in BOOLEAN
  /\ block \in [Users -> [addr : Nat, len : ArenaSizes] \cup {None}]
  /\ ptr \in 0 .. N
  /\ heap \subseteq [addr : Nat, len : ArenaSizes]
  /\ full_used \in Nat /\ full_returned \in Nat /\ lost \in Nat

(* A user has memory of the buffer. An empty block has none.               *)
InBuffer(u) == block[u] # None /\ block[u].len > 0 /\ block[u].addr < N
Top(u) == block[u].addr + Up(block[u].len)

Stacked ==
  /\ \A u \in Users : InBuffer(u) => Top(u) <= ptr
  /\ \A u \in Users : \A v \in Users : u # v /\ InBuffer(u) /\ InBuffer(v) =>
       Top(u) <= block[v].addr \/ Top(v) <= block[u].addr

HeapKnown ==
  /\ \A h \in heap : h.addr >= N
       /\ (h.addr = N \/ \E u \in Users : block[u] # None /\ block[u] = h)
  /\ \A u \in Users :
       block[u] # None /\ (block[u].addr > N \/ (block[u].addr = N /\ block[u].len > 0)) =>
         block[u] \in heap
  /\ \A u \in Users : \A v \in Users : u # v /\ block[u] # None /\ block[v] # None
       /\ block[u].addr > N =>
       block[u].addr # block[v].addr

Counted ==
  /\ IsFiniteSet(InUse)
  /\ counted => full_used - full_returned = lost + Sum(Weights, InUse)

ArenaInv == ArenaTypes /\ Stacked /\ HeapKnown /\ Counted

(* What is assumed of the alignment, the buffer and the requested sizes.   *)
LEMMA ArenaConstants ==
  Alignment \in Nat \ {0} /\ N \in Nat /\ HeapEnd \in Nat /\ ArenaSizes \subseteq Nat
BY AllocatorsAssumption DEF Arenas!ArenaAssumption

(* Rounding up gives no less.                                              *)
LEMMA UpType ==
  ASSUME NEW n \in Nat
  PROVE  Up(n) \in Nat /\ Up(n) >= n
BY ArenaConstants, RoundUp DEF Up, Arenas!align_up

(* Rounding up gives nothing for nothing.                                  *)
LEMMA UpZero ==
  Up(0) = 0
<1> DEFINE a == Alignment - 1
           q == a \div Alignment
           r == a % Alignment
<1>1. a \in Nat
  BY ArenaConstants
<1>2. r \in 0 .. Alignment - 1 /\ q \in Nat /\ a = Alignment * q + r
  <2> HIDE DEF a
  <2> QED
    BY <1>1, ArenaConstants, ModDef
<1>3. Up(0) = q * Alignment
  <2>1. 0 + Alignment - 1 = a
    BY ArenaConstants
  <2> QED
    BY <2>1 DEF Up, Arenas!align_up
<1> HIDE DEF q, r
<1>4. Alignment * q < Alignment /\ -Alignment < Alignment * q
  BY <1>2, ArenaConstants
<1>5. q = 0
  BY <1>2, <1>4, ArenaConstants, NoMultiple
<1> QED
  BY <1>3, <1>5, ArenaConstants

(* An arena that nobody has used fulfils its invariant.                    *)
LEMMA ArenaStart ==
  ASSUME Arenas!Init
  PROVE  ArenaInv
<1> USE ArenaConstants, NoneDiffers DEF Arenas!Init
<1>1. ArenaTypes
  BY DEF ArenaTypes
<1>2. Stacked /\ HeapKnown
  BY DEF Stacked, HeapKnown, InBuffer
<1>3. Counted
  <2>1. InUse = {} /\ IsFiniteSet(InUse) /\ Weights \in [InUse -> Nat]
    BY FS_EmptySet DEF InUse, Weights
  <2>2. Sum(Weights, InUse) = 0
    BY <2>1, SumType
  <2> QED
    BY <2>1, <2>2 DEF Counted
<1> QED
  BY <1>1, <1>2, <1>3 DEF ArenaInv

(* The weights of all users are numbers.                                   *)
LEMMA WeightsType ==
  ASSUME ArenaTypes
  PROVE  Weights \in [InUse -> Nat]
<1>1. \A u \in InUse : block[u].len \in Nat
  BY ArenaConstants DEF ArenaTypes, InUse
<1>2. \A u \in InUse : Up(block[u].len) \in Nat
  BY <1>1, UpType
<1> QED
  BY <1>2 DEF Weights

(* The sum when u gets a block ...                                         *)
LEMMA SumGiven ==
  ASSUME ArenaTypes, ArenaTypes', IsFiniteSet(InUse), NEW u \in Users, NEW n \in Nat,
         block[u] = None, block'[u] # None, block'[u].len = n, \A v \in Users : v # u =>
           block'[v] = block[v]
  PROVE  IsFiniteSet(InUse') /\ Sum(Weights', InUse') = Sum(Weights, InUse) + Up(n)
<1>1. InUse' = InUse \cup {u} /\ u \notin InUse
  BY DEF InUse
<1>2. IsFiniteSet(InUse')
  BY <1>1, FS_AddElement
<1>3. Weights \in [InUse -> Nat] /\ Weights' \in [InUse \cup {u} -> Nat]
  <2>1. Weights' \in [InUse' -> Nat]
    <3>1. \A v \in InUse' : block'[v].len \in Nat
      BY ArenaConstants DEF ArenaTypes, InUse
    <3>2. \A v \in InUse' : Up(block'[v].len) \in Nat
      BY <3>1, UpType
    <3>3. Weights' = [v \in InUse' |-> Up(block'[v].len)]
      BY DEF Weights, Up, Arenas!align_up
    <3> QED
      BY <3>2, <3>3
  <2> QED
    BY <2>1, <1>1, WeightsType
<1>4. Weights'[u] = Up(n) /\ \A v \in InUse : Weights'[v] = Weights[v]
  <2>1. Weights' = [v \in InUse' |-> Up(block'[v].len)]
    BY DEF Weights, Up, Arenas!align_up
  <2>2. \A v \in InUse : v \in InUse' /\ block'[v] = block[v]
    BY <1>1 DEF InUse
  <2> QED
    BY <2>1, <2>2, <1>1 DEF Weights
<1>5. Sum(Weights, InUse) \in Nat
      /\ Sum(Weights', InUse \cup {u}) = Weights'[u] + Sum(Weights, InUse)
  <2> DEFINE e == Weights'
  <2>1. IsFiniteSet(InUse) /\ u \notin InUse /\ e \in [InUse \cup {u} -> Nat]
        /\ Weights \in [InUse -> Nat]
        /\ \A x \in InUse : e[x] = Weights[x]
    BY <1>1, <1>3, <1>4
  <2> HIDE DEF e
  <2>2. Sum(Weights, InUse) \in Nat /\ Sum(e, InUse \cup {u}) = e[u] + Sum(Weights, InUse)
    BY <2>1, SumAdd
  <2> QED
    BY <2>2 DEF e
<1>6. Up(n) \in Nat
  BY UpType
<1> QED
  BY <1>1, <1>2, <1>4, <1>5, <1>6

(* ... and when u gives it back.                                           *)
LEMMA SumTaken ==
  ASSUME ArenaTypes, ArenaTypes', IsFiniteSet(InUse), NEW u \in Users,
         block[u] # None, block'[u] = None, \A v \in Users : v # u => block'[v] = block[v]
  PROVE  /\ IsFiniteSet(InUse')
         /\ Sum(Weights', InUse') \in Nat
         /\ Sum(Weights, InUse) = Sum(Weights', InUse') + Up(block[u].len)
<1>1. InUse = InUse' \cup {u} /\ u \notin InUse'
  BY DEF InUse
<1>2. IsFiniteSet(InUse')
  BY <1>1, FS_Subset
<1>3. Weights' = [v \in InUse' |-> Up(block'[v].len)]
  BY DEF Weights, Up, Arenas!align_up
<1>4. Weights \in [InUse' \cup {u} -> Nat] /\ Weights' \in [InUse' -> Nat]
  <2>1. \A v \in InUse' : v \in InUse /\ block'[v] = block[v]
    BY <1>1 DEF InUse
  <2>2. \A v \in InUse : Up(block[v].len) \in Nat
    BY WeightsType DEF Weights
  <2>3. \A v \in InUse' : Up(block'[v].len) \in Nat
    BY <2>1, <2>2
  <2> QED
    BY <2>3, <1>1, <1>3, WeightsType
<1>5. Weights[u] = Up(block[u].len) /\ \A v \in InUse' : Weights'[v] = Weights[v]
  <2>1. \A v \in InUse' : v \in InUse /\ block'[v] = block[v]
    BY <1>1 DEF InUse
  <2> QED
    BY <2>1, <1>1, <1>3 DEF Weights
<1>6. Sum(Weights', InUse') \in Nat
      /\ Sum(Weights, InUse' \cup {u}) = Weights[u] + Sum(Weights', InUse')
  <2> DEFINE S == InUse'  e == Weights'
  <2>1. IsFiniteSet(S) /\ u \notin S /\ Weights \in [S \cup {u} -> Nat] /\ e \in [S -> Nat]
        /\ \A x \in S : Weights[x] = e[x]
    BY <1>1, <1>2, <1>4, <1>5
  <2> HIDE DEF S, e
  <2>2. Sum(e, S) \in Nat /\ Sum(Weights, S \cup {u}) = Weights[u] + Sum(e, S)
    BY <2>1, SumAdd
  <2> QED
    BY <2>2 DEF S, e
<1>7. Up(block[u].len) \in Nat
  BY <1>1, WeightsType DEF Weights
<1> QED
  BY <1>1, <1>2, <1>5, <1>6, <1>7

(* A block from the buffer.                                                *)
LEMMA ArenaCarve ==
  ASSUME ArenaInv, NEW u \in Users, NEW n \in ArenaSizes, block[u] = None,
         Arenas!Carve(u, n), Arenas!Used(n), UNCHANGED <<counted, full_returned>>
  PROVE  ArenaInv' /\ Given(u, [addr |-> ptr, len |-> n])
<1> USE ArenaConstants, NoneDiffers
<1>1. /\ N - ptr >= Up(n)
      /\ block' = [block EXCEPT ![u] = [addr |-> ptr, len |-> n]]
      /\ ptr' = ptr + Up(n)
      /\ UNCHANGED <<heap, lost>>
      /\ full_used' = full_used + Arenas!Count(n)
  BY DEF Arenas!Carve, Arenas!Used, Arenas!HasRoom, Up
<1>2. ArenaTypes /\ Stacked /\ HeapKnown /\ Counted
  BY DEF ArenaInv
<1>3. n \in Nat /\ ptr \in Nat /\ Up(n) \in Nat /\ Up(n) >= n
  BY <1>2, UpType DEF ArenaTypes
<1>4. /\ block'[u] = [addr |-> ptr, len |-> n] /\ block'[u] # None
      /\ \A v \in Users : v # u => block'[v] = block[v]
  BY <1>1, <1>2, <1>3 DEF ArenaTypes
<1>5. Arenas!Count(n) = IF counted THEN Up(n) ELSE 0
  BY DEF Arenas!Count, Up
<1>6. ArenaTypes'
  <2>1. block' \in [Users -> [addr : Nat, len : ArenaSizes] \cup {None}]
    BY <1>1, <1>2, <1>3 DEF ArenaTypes
  <2>2. ptr' \in 0 .. N /\ full_used' \in Nat
    BY <1>1, <1>2, <1>3, <1>5 DEF ArenaTypes
  <2> QED
    BY <2>1, <2>2, <1>1, <1>2 DEF ArenaTypes
<1>7. Counted'
  <2>1. IsFiniteSet(InUse') /\ Sum(Weights', InUse') = Sum(Weights, InUse) + Up(n)
    BY <1>2, <1>3, <1>4, <1>6, SumGiven DEF Counted
  <2>2. Sum(Weights, InUse) \in Nat
    BY <1>2, WeightsType, SumType DEF Counted
  <2> QED
    BY <2>1, <2>2, <1>1, <1>2, <1>3, <1>5 DEF Counted, ArenaTypes
<1>8. \A v \in Users : v # u => Top(v)' = Top(v) /\ (InBuffer(v)' <=> InBuffer(v))
  BY <1>4 DEF Top, InBuffer, Up, Arenas!align_up
<1>9. Top(u)' = ptr + Up(n) /\ block'[u].addr = ptr
  BY <1>4 DEF Top, Up, Arenas!align_up
<1>10. \A v \in Users : InBuffer(v) => Top(v) \in Nat /\ Top(v) <= ptr /\ block[v].addr \in Nat
  <2> SUFFICES ASSUME NEW v \in Users, InBuffer(v)
      PROVE Top(v) \in Nat /\ Top(v) <= ptr /\ block[v].addr \in Nat
    OBVIOUS
  <2>1. block[v].addr \in Nat /\ block[v].len \in Nat
    BY <1>2 DEF InBuffer, ArenaTypes
  <2> QED
    BY <2>1, <1>2, UpType DEF Top, Stacked
<1>11. Stacked'
  <2>1. ASSUME NEW v \in Users, InBuffer(v)' PROVE Top(v)' <= ptr'
    BY <2>1, <1>1, <1>3, <1>8, <1>9, <1>10
  <2>2. ASSUME NEW v \in Users, NEW w \in Users, v # w, InBuffer(v)', InBuffer(w)'
        PROVE  Top(v)' <= block'[w].addr \/ Top(w)' <= block'[v].addr
    <3>1. CASE v # u /\ w # u
      BY <2>2, <3>1, <1>2, <1>4, <1>8 DEF Stacked
    <3>2. CASE v = u
      BY <2>2, <3>2, <1>8, <1>9, <1>10
    <3>3. CASE w = u
      BY <2>2, <3>3, <1>8, <1>9, <1>10
    <3> QED
      BY <3>1, <3>2, <3>3
  <2> QED
    BY <2>1, <2>2 DEF Stacked
<1>12. HeapKnown'
  <2>1. ptr <= N /\ (ptr = N => n = 0)
    BY <1>1, <1>2, <1>3 DEF ArenaTypes
  <2>2. ASSUME NEW h \in heap'
        PROVE  h.addr >= N /\ (h.addr = N \/ \E v \in Users : block'[v] # None /\ block'[v] = h)
    BY <2>2, <1>1, <1>2, <1>4 DEF HeapKnown
  <2>3. ASSUME NEW v \in Users, block'[v] # None, block'[v].addr > N
                 \/ (block'[v].addr = N /\ block'[v].len > 0)
        PROVE  block'[v] \in heap'
    BY <2>1, <2>3, <1>1, <1>2, <1>3, <1>4 DEF HeapKnown
  <2>4. ASSUME NEW v \in Users, NEW w \in Users, v # w, block'[v] # None, block'[w] # None,
               block'[v].addr > N
        PROVE  block'[v].addr # block'[w].addr
    <3>1. v # u
      BY <2>1, <2>4, <1>3, <1>4
    <3> QED
      BY <2>1, <2>4, <3>1, <1>2, <1>3, <1>4 DEF HeapKnown
  <2> QED
    BY <2>2, <2>3, <2>4 DEF HeapKnown
<1>13. ASSUME NEW v \in Users \ {u}, block[v] # None
       PROVE  (ptr .. ptr + n - 1) \cap (block[v].addr .. block[v].addr + block[v].len - 1) = {}
  <2>1. block[v].addr \in Nat /\ block[v].len \in Nat
    BY <1>2, <1>13 DEF ArenaTypes
  <2>2. CASE block[v].len = 0
    BY <2>1, <2>2
  <2>3. CASE block[v].addr >= N
    BY <2>1, <2>3, <1>1, <1>3
  <2>4. CASE block[v].len > 0 /\ block[v].addr < N
    <3>1. Top(v) <= ptr /\ Up(block[v].len) >= block[v].len /\ Up(block[v].len) \in Nat
      BY <2>1, <2>4, <1>10, <1>13, UpType DEF InBuffer
    <3> QED
      BY <2>1, <3>1, <1>3 DEF Top
  <2> QED
    BY <2>1, <2>2, <2>3, <2>4
<1> QED
  BY <1>1, <1>6, <1>7, <1>11, <1>12, <1>13 DEF ArenaInv, Given

(* A block from operator new.                                              *)
LEMMA ArenaFromHeap ==
  ASSUME ArenaInv, NEW u \in Users, NEW n \in ArenaSizes, block[u] = None,
         Arenas!FromHeap(u, n), Arenas!Used(n), UNCHANGED <<counted, full_returned>>
  PROVE  ArenaInv' /\ \E p \in Int : Given(u, [addr |-> p, len |-> n])
<1> USE ArenaConstants, NoneDiffers
<1>1. PICK p \in N .. HeapEnd - n :
         /\ Arenas!Obtainable(p, n)
         /\ block' = [block EXCEPT ![u] = [addr |-> p, len |-> n]]
         /\ heap' = heap \cup {[addr |-> p, len |-> n]}
  BY DEF Arenas!FromHeap
<1>2. UNCHANGED <<ptr, lost>> /\ full_used' = full_used + Arenas!Count(n)
  BY DEF Arenas!FromHeap, Arenas!Used
<1>3. ArenaTypes /\ Stacked /\ HeapKnown /\ Counted
  BY DEF ArenaInv
<1>4. n \in Nat /\ p \in Nat /\ p >= N /\ Up(n) \in Nat
  BY <1>3, UpType DEF ArenaTypes
<1>5. /\ block'[u] = [addr |-> p, len |-> n] /\ block'[u] # None
      /\ \A v \in Users : v # u => block'[v] = block[v]
  BY <1>1, <1>3, <1>4 DEF ArenaTypes
<1>6. Arenas!Count(n) = IF counted THEN Up(n) ELSE 0
  BY DEF Arenas!Count, Up
<1>7. ArenaTypes'
  <2>1. block' \in [Users -> [addr : Nat, len : ArenaSizes] \cup {None}]
    BY <1>1, <1>3, <1>4 DEF ArenaTypes
  <2>2. heap' \subseteq [addr : Nat, len : ArenaSizes]
    BY <1>1, <1>3, <1>4 DEF ArenaTypes
  <2>3. full_used' \in Nat
    BY <1>2, <1>3, <1>4, <1>6 DEF ArenaTypes
  <2> QED
    BY <2>1, <2>2, <2>3, <1>2, <1>3 DEF ArenaTypes
<1>8. Counted'
  <2>1. IsFiniteSet(InUse') /\ Sum(Weights', InUse') = Sum(Weights, InUse) + Up(n)
    BY <1>3, <1>4, <1>5, <1>7, SumGiven DEF Counted
  <2>2. Sum(Weights, InUse) \in Nat
    BY <1>3, WeightsType, SumType DEF Counted
  <2> QED
    BY <2>1, <2>2, <1>2, <1>3, <1>4, <1>6 DEF Counted, ArenaTypes
<1>9. ~InBuffer(u)' /\ \A v \in Users : v # u => Top(v)' = Top(v)
      /\ (InBuffer(v)' <=> InBuffer(v))
  BY <1>4, <1>5 DEF Top, InBuffer, Up, Arenas!align_up
<1>10. Stacked'
  <2>1. ASSUME NEW v \in Users, InBuffer(v)' PROVE Top(v)' <= ptr'
    BY <2>1, <1>2, <1>3, <1>9 DEF Stacked
  <2>2. ASSUME NEW v \in Users, NEW w \in Users, v # w, InBuffer(v)', InBuffer(w)'
        PROVE  Top(v)' <= block'[w].addr \/ Top(w)' <= block'[v].addr
    BY <2>2, <1>3, <1>5, <1>9 DEF Stacked
  <2> QED
    BY <2>1, <2>2 DEF Stacked
<1>11. \A h \in heap : p # h.addr /\ Arenas!Bytes(p, n) \cap Arenas!Bytes(h.addr, h.len) = {}
  BY <1>1 DEF Arenas!Obtainable
<1>12. HeapKnown'
  <2>1. ASSUME NEW h \in heap'
        PROVE  h.addr >= N /\ (h.addr = N \/ \E v \in Users : block'[v] # None /\ block'[v] = h)
    <3>1. CASE h = [addr |-> p, len |-> n]
      BY <3>1, <1>4, <1>5
    <3>2. CASE h \in heap
      BY <3>2, <1>3, <1>5 DEF HeapKnown
    <3> QED
      BY <3>1, <3>2, <1>1
  <2>2. ASSUME NEW v \in Users, block'[v] # None, block'[v].addr > N
                 \/ (block'[v].addr = N /\ block'[v].len > 0)
        PROVE  block'[v] \in heap'
    BY <2>2, <1>1, <1>3, <1>5 DEF HeapKnown
  <2>3. ASSUME NEW v \in Users \ {u}, block[v] # None, p > N \/ block[v].addr > N
        PROVE  block[v].addr # p
    <3> SUFFICES ASSUME block[v].addr = p PROVE FALSE
      OBVIOUS
    <3>1. block[v] \in heap
      BY <2>3, <1>3 DEF HeapKnown
    <3> QED
      BY <3>1, <1>11
  <2>4. ASSUME NEW v \in Users, NEW w \in Users, v # w, block'[v] # None, block'[w] # None,
               block'[v].addr > N
        PROVE  block'[v].addr # block'[w].addr
    <3>1. CASE v = u
      BY <3>1, <2>3, <2>4, <1>5
    <3>2. CASE w = u
      BY <3>2, <2>3, <2>4, <1>5
    <3>3. CASE v # u /\ w # u
      BY <3>3, <2>4, <1>3, <1>5 DEF HeapKnown
    <3> QED
      BY <3>1, <3>2, <3>3
  <2> QED
    BY <2>1, <2>2, <2>4 DEF HeapKnown
<1>13. ASSUME NEW v \in Users \ {u}, block[v] # None
       PROVE  (p .. p + n - 1) \cap (block[v].addr .. block[v].addr + block[v].len - 1) = {}
  <2>1. block[v].addr \in Nat /\ block[v].len \in Nat
    BY <1>3, <1>13 DEF ArenaTypes
  <2>2. CASE block[v].len = 0
    BY <2>1, <2>2
  <2>3. CASE block[v].len > 0 /\ block[v].addr >= N
    <3>1. block[v] \in heap
      BY <2>1, <2>3, <1>3, <1>13 DEF HeapKnown
    <3> QED
      BY <3>1, <1>11 DEF Arenas!Bytes
  <2>4. CASE block[v].len > 0 /\ block[v].addr < N
    <3>1. Top(v) <= ptr /\ Up(block[v].len) >= block[v].len /\ Up(block[v].len) \in Nat
          /\ ptr \in 0 .. N
      BY <2>1, <2>4, <1>3, <1>13, UpType DEF InBuffer, Stacked, ArenaTypes
    <3> QED
      BY <2>1, <3>1, <1>4 DEF Top
  <2> QED
    BY <2>1, <2>2, <2>3, <2>4
<1>14. Given(u, [addr |-> p, len |-> n])
  BY <1>1, <1>13 DEF Given
<1> QED
  BY <1>4, <1>7, <1>8, <1>10, <1>12, <1>14 DEF ArenaInv

(* operator new throws.                                                    *)
LEMMA ArenaRefused ==
  ASSUME ArenaInv, NEW u \in Users, NEW n \in ArenaSizes,
         Arenas!Refused(u, n), Arenas!Used(n), UNCHANGED <<counted, full_returned>>
  PROVE  ArenaInv' /\ UNCHANGED block
<1> USE ArenaConstants
<1>1. /\ lost' = lost + Arenas!Count(n) /\ full_used' = full_used + Arenas!Count(n)
      /\ UNCHANGED <<block, ptr, heap>>
  BY DEF Arenas!Refused, Arenas!Used
<1>2. ArenaTypes /\ Stacked /\ HeapKnown /\ Counted
  BY DEF ArenaInv
<1>3. Arenas!Count(n) \in Nat
  BY UpType DEF Arenas!Count, Up
<1>4. ArenaTypes'
  <2>1. lost' \in Nat /\ full_used' \in Nat
    BY <1>1, <1>2, <1>3 DEF ArenaTypes
  <2> QED
    BY <2>1, <1>1, <1>2 DEF ArenaTypes
<1>5. InUse' = InUse /\ Weights' = Weights
  BY <1>1 DEF InUse, Weights, Up, Arenas!align_up
<1>6. Counted'
  <2>1. Sum(Weights, InUse) \in Nat
    BY <1>2, WeightsType, SumType DEF Counted
  <2>2. Sum(Weights', InUse') = Sum(Weights, InUse) /\ IsFiniteSet(InUse')
    BY <1>2, <1>5 DEF Counted
  <2> QED
    BY <2>1, <2>2, <1>1, <1>2, <1>3 DEF Counted, ArenaTypes
<1>7. Stacked' /\ HeapKnown'
  BY <1>1, <1>2 DEF Stacked, HeapKnown, InBuffer, Top, Up, Arenas!align_up
<1> QED
  BY <1>1, <1>4, <1>6, <1>7 DEF ArenaInv

(* A block goes back.                                                      *)
LEMMA ArenaDeallocate ==
  ASSUME ArenaInv, NEW u \in Users, Arenas!Deallocate(u)
  PROVE  ArenaInv' /\ Taken(u)
<1> USE ArenaConstants, NoneDiffers
<1> DEFINE b == block[u]
<1>1. /\ block[u] # None /\ block' = [block EXCEPT ![u] = None]
      /\ full_returned' = full_returned + Arenas!Count(b.len)
      /\ UNCHANGED <<counted, full_used, lost>>
      /\ Arenas!Release(b) \/ Arenas!Delete(b)
  BY DEF Arenas!Deallocate
<1>2. ArenaTypes /\ Stacked /\ HeapKnown /\ Counted
  BY DEF ArenaInv
<1>3. b \in [addr : Nat, len : ArenaSizes] /\ b.addr \in Nat /\ b.len \in Nat
      /\ Up(b.len) \in Nat /\ Up(b.len) >= b.len
  <2>1. b \in [addr : Nat, len : ArenaSizes]
    BY <1>1, <1>2 DEF ArenaTypes
  <2>2. b.addr \in Nat /\ b.len \in Nat
    BY <2>1
  <2> HIDE DEF b
  <2> QED
    BY <2>1, <2>2, UpType
<1>4. block'[u] = None /\ \A v \in Users : v # u => block'[v] = block[v]
  BY <1>1, <1>2 DEF ArenaTypes
<1>5. Arenas!Count(b.len) = (IF counted THEN Up(b.len) ELSE 0) /\ Arenas!Count(b.len) \in Nat
  BY <1>3 DEF Arenas!Count, Up
<1>6. \/ /\ b.addr <= N
         /\ ptr' = IF b.addr + Up(b.len) = ptr THEN b.addr ELSE ptr
         /\ heap' = heap
      \/ /\ b.addr > N
         /\ ptr' = ptr /\ heap' = heap \ {b}
  BY <1>1, <1>3 DEF Arenas!Release, Arenas!Delete, Arenas!pointer_in_buffer, Up
<1> HIDE DEF b
<1>7. ptr' \in 0 .. N /\ ptr \in 0 .. N /\ ptr' <= ptr
  BY <1>2, <1>3, <1>6 DEF ArenaTypes
<1>8. ArenaTypes'
  <2>1. block' \in [Users -> [addr : Nat, len : ArenaSizes] \cup {None}]
    BY <1>1, <1>2 DEF ArenaTypes
  <2>2. heap' \subseteq [addr : Nat, len : ArenaSizes] /\ full_returned' \in Nat
    BY <1>1, <1>2, <1>5, <1>6 DEF ArenaTypes
  <2> QED
    BY <2>1, <2>2, <1>1, <1>2, <1>7 DEF ArenaTypes
<1>9. Counted'
  <2>1. /\ IsFiniteSet(InUse') /\ Sum(Weights', InUse') \in Nat
        /\ Sum(Weights, InUse) = Sum(Weights', InUse') + Up(b.len)
    BY <1>1, <1>2, <1>4, <1>8, SumTaken DEF Counted, b
  <2> QED
    BY <2>1, <1>1, <1>2, <1>3, <1>5 DEF Counted, ArenaTypes
<1>10. ~InBuffer(u)' /\ \A v \in Users : v # u => Top(v)' = Top(v)
       /\ (InBuffer(v)' <=> InBuffer(v))
  BY <1>4 DEF Top, InBuffer, Up, Arenas!align_up
<1>11. \A v \in Users : InBuffer(v) => Top(v) \in Nat /\ Top(v) <= ptr
       /\ block[v].addr \in Nat /\ block[v].addr < Top(v)
  <2> SUFFICES ASSUME NEW v \in Users, InBuffer(v)
               PROVE  Top(v) \in Nat /\ Top(v) <= ptr /\ block[v].addr \in Nat
                        /\ block[v].addr < Top(v)
    OBVIOUS
  <2>1. block[v].addr \in Nat /\ block[v].len \in Nat /\ block[v].len > 0
    BY <1>2 DEF InBuffer, ArenaTypes
  <2>2. Up(block[v].len) \in Nat /\ Up(block[v].len) >= block[v].len
    BY <2>1, UpType
  <2> QED
    BY <2>1, <2>2, <1>2 DEF Top, Stacked
<1>12. Stacked'
  <2>1. ASSUME NEW v \in Users, InBuffer(v)' PROVE Top(v)' <= ptr'
    <3>1. v # u /\ InBuffer(v) /\ Top(v)' = Top(v)
      BY <2>1, <1>10
    <3>2. CASE ptr' = ptr
      BY <3>1, <3>2, <1>11
    <3>3. CASE ptr' # ptr
      <4>1. b.addr + Up(b.len) = ptr /\ ptr' = b.addr /\ b.addr < N /\ b.len > 0
        BY <3>3, <1>3, <1>6, <1>7, UpZero
      <4>2. InBuffer(u) /\ Top(u) = ptr
        BY <4>1, <1>1 DEF InBuffer, Top, b
      <4>3. Top(u) <= block[v].addr \/ Top(v) <= block[u].addr
        BY <3>1, <4>2, <1>2 DEF Stacked
      <4> QED
        BY <3>1, <4>1, <4>2, <4>3, <1>3, <1>7, <1>11 DEF b
    <3> QED
      BY <3>2, <3>3
  <2>2. ASSUME NEW v \in Users, NEW w \in Users, v # w, InBuffer(v)', InBuffer(w)'
        PROVE  Top(v)' <= block'[w].addr \/ Top(w)' <= block'[v].addr
    BY <2>2, <1>2, <1>4, <1>10 DEF Stacked
  <2> QED
    BY <2>1, <2>2 DEF Stacked
<1>13. HeapKnown'
  <2>1. ASSUME NEW h \in heap'
        PROVE  h.addr >= N /\ (h.addr = N \/ \E v \in Users : block'[v] # None /\ block'[v] = h)
    <3>1. h \in heap /\ h.addr >= N
          /\ (h.addr = N \/ \E v \in Users : block[v] # None /\ block[v] = h)
      BY <2>1, <1>2, <1>6 DEF HeapKnown
    <3>2. CASE h.addr = N
      BY <3>1, <3>2, <1>3
    <3>3. CASE h.addr # N
      <4>1. PICK v \in Users : block[v] # None /\ block[v] = h
        BY <3>1, <3>3
      <4>2. h.addr \in Nat
        BY <3>1, <1>2 DEF ArenaTypes
      <4>3. v # u
        BY <2>1, <3>1, <3>3, <4>1, <4>2, <1>3, <1>6 DEF b
      <4> QED
        BY <3>1, <4>1, <4>3, <1>4
    <3> QED
      BY <3>2, <3>3
  <2>2. ASSUME NEW v \in Users, block'[v] # None, block'[v].addr > N
                 \/ (block'[v].addr = N /\ block'[v].len > 0)
        PROVE  block'[v] \in heap'
    <3>1. v # u /\ block'[v] = block[v] /\ block[v] \in heap
      BY <2>2, <1>2, <1>4 DEF HeapKnown
    <3>2. b.addr > N => block[v] # b
      BY <2>2, <3>1, <1>1, <1>2 DEF HeapKnown, b
    <3> QED
      BY <3>1, <3>2, <1>3, <1>6
  <2>3. ASSUME NEW v \in Users, NEW w \in Users, v # w, block'[v] # None, block'[w] # None,
               block'[v].addr > N
        PROVE  block'[v].addr # block'[w].addr
    BY <2>3, <1>2, <1>4 DEF HeapKnown
  <2> QED
    BY <2>1, <2>2, <2>3 DEF HeapKnown
<1> QED
  BY <1>1, <1>8, <1>9, <1>12, <1>13 DEF ArenaInv, Taken

(* All memory of the buffer at once.                                       *)
LEMMA ArenaReset ==
  ASSUME ArenaInv, Arenas!Reset
  PROVE  ArenaInv' /\ UNCHANGED block
<1> USE ArenaConstants, NoneDiffers
<1>1. Arenas!MayReset /\ ptr' = 0 /\ full_used' = 0 /\ full_returned' = 0
      /\ UNCHANGED <<counted, block, heap, lost>>
  BY DEF Arenas!Reset
<1>2. ArenaTypes /\ Stacked /\ HeapKnown /\ Counted
  BY DEF ArenaInv
<1>3. InUse' = InUse /\ Weights' = Weights
  BY <1>1 DEF InUse, Weights, Up, Arenas!align_up
<1>4. counted => lost = 0 /\ Sum(Weights, InUse) = 0
  <2>1. Sum(Weights, InUse) \in Nat
    BY <1>2, WeightsType, SumType DEF Counted
  <2> QED
    BY <2>1, <1>1, <1>2 DEF Counted, ArenaTypes, Arenas!MayReset
<1>5. \A u \in Users : ~InBuffer(u)
  <2> SUFFICES ASSUME NEW u \in Users, InBuffer(u) PROVE FALSE
    OBVIOUS
  <2>1. u \in InUse /\ block[u].len \in Nat /\ block[u].len > 0 /\ block[u].addr \in Nat
        /\ block[u].addr < N
    BY <1>2 DEF InBuffer, InUse, ArenaTypes
  <2>2. counted
    BY <2>1, <1>1, <1>2 DEF Arenas!MayReset, Arenas!pointer_in_buffer, ArenaTypes, InUse
  <2>3. Weights[u] = 0
    BY <2>1, <2>2, <1>2, <1>4, WeightsType, SumZero DEF Counted
  <2>4. Weights[u] >= block[u].len /\ Weights[u] \in Nat
    BY <2>1, UpType DEF Weights
  <2> QED
    BY <2>1, <2>3, <2>4
<1>6. ArenaTypes'
  BY <1>1, <1>2 DEF ArenaTypes
<1>7. Stacked'
  BY <1>1, <1>5 DEF Stacked, InBuffer
<1>8. HeapKnown'
  BY <1>1, <1>2 DEF HeapKnown
<1>9. Counted'
  <2>1. IsFiniteSet(InUse') /\ Sum(Weights', InUse') = Sum(Weights, InUse)
    BY <1>2, <1>3 DEF Counted
  <2> QED
    BY <2>1, <1>1, <1>4 DEF Counted
<1> QED
  BY <1>1, <1>6, <1>7, <1>8, <1>9 DEF ArenaInv

(* A step of an arena, and what it does to the users' memory.              *)
LEMMA ArenaStep ==
  ASSUME ArenaInv, Arenas!Next
  PROVE  /\ ArenaInv'
         /\ \/ \E u \in Users : \/ \E n \in ArenaSizes : \E a \in Int : Given(u, [addr |-> a, len |-> n])
                                \/ Taken(u)
            \/ UNCHANGED block
<1> DEFINE Goal == /\ ArenaInv'
                   /\ \/ \E u \in Users : \/ \E n \in ArenaSizes : \E a \in Int : Given(u, [addr |-> a, len |-> n])
                                          \/ Taken(u)
                      \/ UNCHANGED block
<1>1. ASSUME NEW u \in Users, Arenas!Allocate(u)
      PROVE  Goal
  <2>1. PICK n \in ArenaSizes : (Arenas!Carve(u, n) \/ Arenas!FromHeap(u, n) \/ Arenas!Refused(u, n)) /\ Arenas!Used(n)
    BY <1>1 DEF Arenas!Allocate
  <2>2. block[u] = None /\ UNCHANGED <<counted, full_returned>>
    BY <1>1 DEF Arenas!Allocate
  <2>3. CASE Arenas!Carve(u, n)
    <3>1. ArenaInv' /\ Given(u, [addr |-> ptr, len |-> n])
      BY <2>1, <2>2, <2>3, ArenaCarve
    <3>2. ptr \in Int
      BY DEF ArenaInv, ArenaTypes
    <3> QED
      BY <3>1, <3>2
  <2>4. CASE Arenas!FromHeap(u, n)
    BY <2>1, <2>2, <2>4, ArenaFromHeap
  <2>5. CASE Arenas!Refused(u, n)
    BY <2>1, <2>2, <2>5, ArenaRefused
  <2> QED
    BY <2>1, <2>3, <2>4, <2>5
<1>2. ASSUME NEW u \in Users, Arenas!Deallocate(u)
      PROVE  Goal
  BY <1>2, ArenaDeallocate
<1>3. ASSUME Arenas!Reset
      PROVE  Goal
  BY <1>3, ArenaReset
<1> QED
  BY <1>1, <1>2, <1>3 DEF Arenas!Next

(* What the invariant says of the run's properties.                        *)
LEMMA ArenaTypeCorrect == ArenaInv => Arenas!TypeOK
BY ArenaConstants DEF ArenaInv, ArenaTypes, Arenas!TypeOK, Arenas!Request

(* The invariant of the arena: operator new has given what users hold, and *)
(* the counts tell when nobody holds memory of the buffer.                 *)
LEMMA ArenaAccounts == ArenaInv => Arenas!HeapMatches /\ Arenas!CountsAgree
<1> SUFFICES ASSUME ArenaInv PROVE Arenas!HeapMatches /\ Arenas!CountsAgree
  OBVIOUS
<1>1. Arenas!Held = InUse
  BY DEF Arenas!Held, InUse
<1>2. Arenas!HeapMatches
  <2>1. ASSUME NEW u \in InUse PROVE Arenas!pointer_in_buffer(block[u].addr) \/ block[u] \in heap
    <3>1. block[u].addr \in Nat
      BY DEF ArenaInv, ArenaTypes, InUse
    <3> QED
      BY <3>1, ArenaConstants DEF ArenaInv, HeapKnown, InUse, Arenas!pointer_in_buffer
  <2>2. ASSUME NEW h \in heap PROVE (\E u \in InUse : block[u] = h) \/ h.addr = N
    BY DEF ArenaInv, HeapKnown, InUse
  <2> QED
    BY <2>1, <2>2, <1>1 DEF Arenas!HeapMatches
<1>3. Arenas!CountsAgree
  <2>1. Arenas!MapThenSumSet(LAMBDA u : Arenas!align_up(block[u].len), InUse) = Sum(Weights, InUse)
    <3> HIDE DEF Arenas!align_up, InUse
    <3> QED
      BY DEF Arenas!MapThenSumSet, Arenas!MapThenFoldSet, Sum, SumTable, Weights, Up
  <2> QED
    BY <2>1, <1>1 DEF ArenaInv, Counted, Arenas!CountsAgree
<1> QED
  BY <1>2, <1>3

(***************************************************************************)
(* page_allocator: memory of users is in pages, and in the current page it *)
(* is below page_offset, until an allocation has thrown half way, which    *)
(* leaves no more than the types.                                          *)
(***************************************************************************)
Space == 2^W

PageTypes ==
  /\ block \in [Users -> [page : Nat, offset : Nat, len : PageSizes] \cup {None}]
  /\ pages \in Seq(Nat)
  /\ page \in 0 .. Len(pages)
  /\ page_size \in Nat /\ 2 * page_size < Space
  /\ page_offset \in 0 .. page_size
  /\ ended = FALSE /\ failed \in BOOLEAN

(* Until an allocation throws, the current page is the last one, users     *)
(* have memory of pages, and that of the current page is below the offset. *)
PagesUsed ==
  /\ page = Len(pages)
  /\ page_size = IF page = 0 THEN 0 ELSE pages[page]
  /\ \A p \in DOMAIN pages : pages[p] < Space
  /\ \A u \in Users : block[u] # None =>
       /\ block[u].page \in DOMAIN pages
       /\ block[u].offset + block[u].len <= pages[block[u].page]
       /\ block[u].page = page => block[u].offset + block[u].len <= page_offset

PagesInv == PageTypes /\ (~failed => PagesUsed)

(* What is assumed of the word and the pages.                              *)
LEMMA PagesConstants ==
  /\ Space \in Nat \ {0}
  /\ WordBytes \in Nat \ {0} /\ MinPage \in Nat /\ MinPage >= 2 * WordBytes
  /\ PageSizes \subseteq Nat /\ Alignments \subseteq Nat \ {0}
BY AllocatorsAssumption DEF Paged!PageAssumption, Space

(* What is assumed of the requests: the end of none wraps.                 *)
LEMMA RequestsBounded ==
  ASSUME Paged!RequestsFit
  PROVE  \A n \in PageSizes : 3 * n < Space /\ \A a \in Alignments : 2 * (n + a) <= Space
BY DEF Paged!RequestsFit, Space

(* No pages yet.                                                           *)
LEMMA PagesStart ==
  ASSUME Paged!Init
  PROVE  PagesInv
<1> USE PagesConstants DEF Paged!Init
<1>1. PageTypes
  <2>1. pages \in Seq(Nat) /\ Len(pages) = 0
    OBVIOUS
  <2> HIDE DEF Space
  <2>2. 2 * page_size < Space /\ page_size \in Nat /\ page_offset \in 0 .. page_size
        /\ page \in 0 .. Len(pages)
    BY <2>1
  <2> QED
    BY <2>1, <2>2 DEF PageTypes
<1>2. PagesUsed
  BY DEF PagesUsed
<1> QED
  BY <1>1, <1>2 DEF PagesInv

(* What does not reach the end of the address space does not wrap.         *)
LEMMA NoWrap ==
  ASSUME NEW n \in Nat, n < Space
  PROVE  Paged!Wrap(n) = n
<1>1. n \in 0 .. Space - 1 /\ n = Space * 0 + n
  BY PagesConstants
<1>2. n % Space = n
  <2> HIDE DEF Space
  <2> QED
    BY <1>1, PagesConstants, ModUnique
<1> QED
  BY <1>2 DEF Paged!Wrap, Space

(* The aligned offset, and the end of a request that starts there.         *)
LEMMA AlignedOffset ==
  ASSUME Paged!RequestsFit, PageTypes, NEW n \in PageSizes, NEW a \in Alignments
  PROVE  /\ Paged!Aligned(a) \in Nat /\ Paged!Aligned(a) >= page_offset
         /\ Paged!Aligned(a) + n \in Nat
         /\ Paged!Wrap(Paged!Aligned(a) + n) = Paged!Aligned(a) + n
<1> USE PagesConstants, RequestsBounded
<1>1. page_offset \in Nat /\ a \in Nat \ {0} /\ n \in Nat /\ page_offset <= page_size
      /\ page_size \in Nat
  BY DEF PageTypes
<1>2. /\ Paged!Aligned(a) \in Nat /\ Paged!Aligned(a) >= page_offset
      /\ Paged!Aligned(a) < page_offset + a
  BY <1>1, RoundUp DEF Paged!Aligned
<1>3. 2 * (n + a) <= Space /\ 2 * page_size < Space
  BY DEF PageTypes
<1>4. Paged!Aligned(a) + n \in Nat /\ Paged!Aligned(a) + n < Space
  <2> HIDE DEF Space
  <2> QED
    BY <1>1, <1>2, <1>3
<1> QED
  BY <1>2, <1>4, NoWrap

(* A new page has room for the request it was made for.                    *)
LEMMA PageHasRoom ==
  ASSUME Paged!RequestsFit, PageTypes, NEW n \in PageSizes
  PROVE  Paged!PageBytes(n) \in Nat /\ n < Paged!PageBytes(n) /\ Paged!Wrap(n) = n
<1> USE PagesConstants, RequestsBounded
<1>1. n \in Nat /\ page_size \in Nat /\ 3 * n < Space
  BY DEF PageTypes
<1>2. Paged!Wrap(n) = n /\ Paged!Wrap(n * 2) = n * 2 /\ Paged!Wrap(n * 3) = n * 3
  <2>1. n < Space /\ n * 2 < Space /\ n * 3 < Space /\ n * 2 \in Nat /\ n * 3 \in Nat
    <3> HIDE DEF Space
    <3> QED
      BY <1>1
  <2> QED
    BY <2>1, <1>1, NoWrap
<1> DEFINE half == (page_size * 3) \div 2
           grown == Paged!Wrap(half)
           size == Paged!NewSize(n)
<1>3. grown \in Nat
  <2>1. half \in Nat
    BY <1>1, ModDef
  <2> HIDE DEF half
  <2>2. half % Space \in Nat
    <3> HIDE DEF Space
    <3> QED
      BY <2>1, ModDef
  <2> QED
    BY <2>2 DEF Paged!Wrap, Space
<1>4. size = Paged!Larger(IF grown < n * 2 THEN n * 3 ELSE grown, MinPage)
  BY <1>2 DEF Paged!NewSize
<1> HIDE DEF size, grown
<1>5. size \in Nat /\ size >= 2 * n /\ size >= MinPage
  <2> HIDE DEF Space
  <2> QED
    BY <1>1, <1>3, <1>4 DEF Paged!Larger
<1> DEFINE q == size \div WordBytes
           r == size % WordBytes
<1>6. r \in 0 .. WordBytes - 1 /\ q \in Nat /\ size = WordBytes * q + r
  BY <1>5, ModDef
<1>7. Paged!PageBytes(n) = q * WordBytes
  BY DEF Paged!PageBytes, size
<1> HIDE DEF q, r
<1>8. q * WordBytes \in Nat /\ q * WordBytes = WordBytes * q
  BY <1>6
<1>9. q * WordBytes > size - WordBytes
  BY <1>5, <1>6, <1>8
<1>10. n < q * WordBytes
  <2>1. CASE n >= WordBytes
    BY <2>1, <1>1, <1>5, <1>8, <1>9
  <2>2. CASE n < WordBytes
    BY <2>2, <1>1, <1>5, <1>8, <1>9
  <2> QED
    BY <2>1, <2>2, <1>1
<1> QED
  BY <1>2, <1>7, <1>8, <1>10

(* What a step does to the users' memory: regions of different pages are   *)
(* apart, and so are regions of one page that are apart in it.             *)
PageGiven(u, b) ==
  /\ block[u] = None /\ block' = [block EXCEPT ![u] = b]
  /\ \A v \in Users \ {u} : block[v] # None /\ block[v].page = b.page =>
       block[v].offset + block[v].len <= b.offset
  /\ b.page \in Nat /\ b.offset \in Nat /\ b.len \in PageSizes /\ b.offset + b.len <= Space
  /\ \A v \in Users \ {u} : block[v] # None =>
       /\ block[v].page \in Nat /\ block[v].offset \in Nat /\ block[v].len \in PageSizes
       /\ block[v].offset + block[v].len <= Space

(* Memory of the current page.                                             *)
LEMMA PagesFromPage ==
  ASSUME Paged!RequestsFit, PagesInv,
         NEW u \in Users, NEW n \in PageSizes, NEW a \in Alignments, block[u] = None,
         Paged!FromPage(u, n, a)
  PROVE  /\ PagesInv'
         /\ ~failed' => PageGiven(u, [page |-> page, offset |-> Paged!Aligned(a), len |-> n])
<1> USE PagesConstants, RequestsBounded, NoneDiffers
<1>1. PageTypes /\ (~failed => PagesUsed)
  BY DEF PagesInv
<1> DEFINE at == Paged!Aligned(a)
<1>2. at \in Nat /\ at >= page_offset /\ at + n \in Nat /\ Paged!Wrap(at + n) = at + n
      /\ n \in Nat
  BY <1>1, AlignedOffset
<1>3. at + n < page_size /\ UNCHANGED <<pages, page, page_size, failed>>
  BY <1>2 DEF Paged!FromPage, Paged!Fits
<1>4. /\ block' = [block EXCEPT ![u] = [page |-> page, offset |-> at, len |-> n]]
      /\ page_offset' = at + n
      /\ UNCHANGED ended
  BY <1>2, <1>3 DEF Paged!FromPage, Paged!Carve
<1> HIDE DEF at, Space
<1>5. page \in Nat /\ page_size \in Nat /\ page_offset \in Nat /\ 2 * page_size < Space
      /\ Len(pages) \in Nat
  BY <1>1 DEF PageTypes
<1>6. /\ block'[u] = [page |-> page, offset |-> at, len |-> n] /\ block'[u] # None
      /\ \A v \in Users : v # u => block'[v] = block[v]
  BY <1>1, <1>2, <1>4, <1>5 DEF PageTypes
<1>7. PageTypes'
  <2>1. block' \in [Users -> [page : Nat, offset : Nat, len : PageSizes] \cup {None}]
    BY <1>1, <1>2, <1>4, <1>5 DEF PageTypes
  <2>2. page_offset' \in 0 .. page_size'
    BY <1>2, <1>3, <1>4, <1>5
  <2>3. Space' = Space
    BY DEF Space
  <2> QED
    BY <2>1, <2>2, <2>3, <1>1, <1>3, <1>4 DEF PageTypes
<1>8. ASSUME ~failed' PROVE PagesUsed'
  <2>1. PagesUsed /\ page # 0 /\ page \in DOMAIN pages /\ pages[page] = page_size
    BY <1>1, <1>2, <1>3, <1>5, <1>8 DEF PagesUsed, PageTypes
  <2>2. ASSUME NEW v \in Users, block'[v] # None
        PROVE  /\ block'[v].page \in DOMAIN pages
               /\ block'[v].offset + block'[v].len <= pages[block'[v].page]
               /\ block'[v].page = page => block'[v].offset + block'[v].len <= page_offset'
    <3>1. CASE v = u
      BY SMTT(30), <3>1, <2>1, <1>2, <1>3, <1>4, <1>5, <1>6
    <3>2. CASE v # u
      <4>1. block'[v] = block[v] /\ block[v] # None /\ block[v].offset \in Nat
            /\ block[v].len \in Nat
        BY <3>2, <2>2, <1>1, <1>6 DEF PageTypes
      <4>2. block[v].page = page => block[v].offset + block[v].len <= page_offset
        BY <4>1, <2>1 DEF PagesUsed
      <4>3. page_offset <= page_offset'
        BY <1>2, <1>4, <1>5
      <4>4. block[v].page = page => block[v].offset + block[v].len <= page_offset'
        BY <4>1, <4>2, <4>3, <1>2, <1>4, <1>5
      <4>5. block[v].page \in DOMAIN pages
            /\ block[v].offset + block[v].len <= pages[block[v].page]
        BY <4>1, <2>1 DEF PagesUsed
      <4> QED
        BY <4>1, <4>4, <4>5
    <3> QED
      BY <3>1, <3>2
  <2>3. \A p \in DOMAIN pages : pages[p] < Space'
    BY <2>1 DEF PagesUsed, Space
  <2> QED
    BY <2>1, <2>2, <2>3, <1>3 DEF PagesUsed
<1>9. ASSUME ~failed' PROVE PageGiven(u, [page |-> page, offset |-> at, len |-> n])
  <2>1. PagesUsed
    BY <1>1, <1>3, <1>9
  <2>2. ASSUME NEW v \in Users \ {u}, block[v] # None
        PROVE  /\ block[v].page \in Nat /\ block[v].offset \in Nat /\ block[v].len \in PageSizes
               /\ block[v].offset + block[v].len <= Space
               /\ block[v].page = page => block[v].offset + block[v].len <= at
    <3>1. block[v].page \in Nat /\ block[v].offset \in Nat /\ block[v].len \in PageSizes
      BY <2>2, <1>1 DEF PageTypes
    <3>2. block[v].page \in DOMAIN pages /\ block[v].offset + block[v].len <= pages[block[v].page]
          /\ pages[block[v].page] < Space /\ pages[block[v].page] \in Nat
      BY SMTT(30), <2>1, <2>2, <1>1 DEF PagesUsed, PageTypes
    <3>3. block[v].page = page => block[v].offset + block[v].len <= page_offset
      BY <2>1, <2>2 DEF PagesUsed
    <3>4. block[v].len \in Nat
      BY <3>1
    <3>5. block[v].offset + block[v].len <= Space
      BY <3>1, <3>2, <3>4
    <3>6. block[v].page = page => block[v].offset + block[v].len <= at
      BY <3>1, <3>3, <3>4, <1>2, <1>5
    <3> QED
      BY <3>1, <3>5, <3>6
  <2>3. at + n <= Space
    BY <1>2, <1>3, <1>5
  <2> QED
    BY <2>2, <2>3, <1>2, <1>4, <1>5 DEF PageGiven
<1> QED
  BY <1>7, <1>8, <1>9 DEF PagesInv, at

(* Memory of a page that is made for it.                                   *)
LEMMA PagesFromNewPage ==
  ASSUME Paged!RequestsFit, PagesInv,
         NEW u \in Users, NEW n \in PageSizes, NEW a \in Alignments, block[u] = None,
         Paged!FromNewPage(u, n, a)
  PROVE  /\ PagesInv'
         /\ ~failed' => PageGiven(u, [page |-> Len(pages) + 1, offset |-> 0, len |-> n])
<1> USE PagesConstants, RequestsBounded, NoneDiffers
<1>1. PageTypes /\ (~failed => PagesUsed)
  BY DEF PagesInv
<1> DEFINE bytes == Paged!PageBytes(n)
<1>2. bytes \in Nat /\ n < bytes /\ Paged!Wrap(n) = n /\ n \in Nat
  BY <1>1, PageHasRoom
<1>3. Paged!Wrap(0 + n) = n
  <2>1. 0 + n = n
    BY <1>2
  <2> QED
    BY <2>1, <1>2
<1>4. /\ pages' = Append(pages, bytes) /\ page' = Len(pages) + 1 /\ page_size' = bytes
      /\ block' = [block EXCEPT ![u] = [page |-> Len(pages) + 1, offset |-> 0, len |-> n]]
      /\ page_offset' = n
      /\ UNCHANGED <<ended, failed>>
      /\ 2 * bytes < Space
  BY <1>2, <1>3 DEF Paged!FromNewPage, Paged!Carve, Paged!Obtainable, Space
<1> HIDE DEF bytes, Space
<1>5. page \in Nat /\ page_size \in Nat /\ page_offset \in Nat /\ Len(pages) \in Nat
      /\ pages \in Seq(Nat)
  BY <1>1 DEF PageTypes
<1>6. /\ block'[u] = [page |-> Len(pages) + 1, offset |-> 0, len |-> n] /\ block'[u] # None
      /\ \A v \in Users : v # u => block'[v] = block[v]
  BY <1>1, <1>2, <1>4, <1>5 DEF PageTypes
<1>7. /\ pages' \in Seq(Nat) /\ Len(pages') = Len(pages) + 1 /\ pages'[Len(pages) + 1] = bytes
      /\ DOMAIN pages = 1 .. Len(pages) /\ DOMAIN pages' = 1 .. Len(pages) + 1
      /\ \A p \in DOMAIN pages : pages'[p] = pages[p]
  BY <1>2, <1>4, <1>5
<1>8. PageTypes'
  <2>1. block' \in [Users -> [page : Nat, offset : Nat, len : PageSizes] \cup {None}]
    BY <1>1, <1>2, <1>4, <1>5 DEF PageTypes
  <2>2. page_offset' \in 0 .. page_size' /\ page' \in 0 .. Len(pages') /\ page_size' \in Nat
        /\ 2 * page_size' < Space
    BY <1>2, <1>4, <1>5, <1>7
  <2>3. Space' = Space
    BY DEF Space
  <2> QED
    BY <2>1, <2>2, <2>3, <1>1, <1>4, <1>7 DEF PageTypes
<1>9. ASSUME ~failed' PROVE PagesUsed'
  <2>1. PagesUsed
    BY <1>1, <1>4, <1>9
  <2>2. ASSUME NEW v \in Users, block'[v] # None
        PROVE  /\ block'[v].page \in DOMAIN pages'
               /\ block'[v].offset + block'[v].len <= pages'[block'[v].page]
               /\ block'[v].page = page' => block'[v].offset + block'[v].len <= page_offset'
    <3>1. CASE v = u
      BY <3>1, <1>2, <1>4, <1>5, <1>6, <1>7
    <3>2. CASE v # u
      <4>1. block'[v] = block[v] /\ block[v] # None /\ block[v].page \in DOMAIN pages
            /\ block[v].offset + block[v].len <= pages[block[v].page]
        BY <3>2, <2>1, <2>2, <1>6 DEF PagesUsed
      <4> QED
        BY <4>1, <1>4, <1>5, <1>7
    <3> QED
      BY <3>1, <3>2
  <2>3. \A p \in DOMAIN pages' : pages'[p] < Space
    <3>1. bytes < Space
      BY <1>2, <1>4
    <3>2. ASSUME NEW p \in DOMAIN pages', p # Len(pages) + 1 PROVE pages'[p] < Space
      <4>1. p \in DOMAIN pages
        BY <3>2, <1>5, <1>7
      <4> QED
        BY <4>1, <2>1, <1>7 DEF PagesUsed
    <3> QED
      BY <3>1, <3>2, <1>7
  <2>4. Space' = Space
    BY DEF Space
  <2>5. page' = Len(pages') /\ page' # 0 /\ pages'[page'] = page_size'
    BY <1>4, <1>5, <1>7
  <2> QED
    BY <2>2, <2>3, <2>4, <2>5 DEF PagesUsed
<1>10. ASSUME ~failed' PROVE PageGiven(u, [page |-> Len(pages) + 1, offset |-> 0, len |-> n])
  <2>1. PagesUsed
    BY <1>1, <1>4, <1>10
  <2>2. ASSUME NEW v \in Users \ {u}, block[v] # None
        PROVE  /\ block[v].page \in Nat /\ block[v].offset \in Nat /\ block[v].len \in PageSizes
               /\ block[v].offset + block[v].len <= Space
               /\ block[v].page # Len(pages) + 1
    <3>1. block[v].page \in Nat /\ block[v].offset \in Nat /\ block[v].len \in PageSizes
      BY <2>2, <1>1 DEF PageTypes
    <3>2. block[v].page \in DOMAIN pages /\ block[v].offset + block[v].len <= pages[block[v].page]
          /\ pages[block[v].page] < Space /\ pages[block[v].page] \in Nat
      BY SMTT(30), <2>1, <2>2, <1>1 DEF PagesUsed, PageTypes
    <3>3. block[v].len \in Nat
      BY <3>1
    <3>4. block[v].offset + block[v].len <= Space
      BY <3>1, <3>2, <3>3
    <3>5. block[v].page # Len(pages) + 1
      BY <3>1, <3>2, <1>5, <1>7
    <3> QED
      BY <3>1, <3>4, <3>5
  <2>3. 0 + n <= Space
    BY <1>2, <1>4
  <2> QED
    BY <2>2, <2>3, <1>2, <1>4, <1>5 DEF PageGiven
<1> QED
  BY <1>8, <1>9, <1>10 DEF PagesInv

(* A step of the page allocator, and what it does to the memory of users.  *)
LEMMA PagesStep ==
  ASSUME Paged!RequestsFit, PagesInv, Paged!Next
  PROVE  /\ PagesInv'
         /\ ~failed' => \E u \in Users :
              \/ \E b \in [page : Nat, offset : Nat, len : PageSizes] : PageGiven(u, b)
              \/ Taken(u)
<1> USE PagesConstants, RequestsBounded, NoneDiffers
<1>1. PageTypes /\ (~failed => PagesUsed)
  BY DEF PagesInv
<1> DEFINE Goal == /\ PagesInv'
                   /\ ~failed' => \E u \in Users :
                                    \/ \E b \in [page : Nat, offset : Nat, len : PageSizes] : PageGiven(u, b)
                                    \/ Taken(u)
<1>2. ASSUME NEW u \in Users, NEW n \in PageSizes, NEW a \in Alignments, Paged!Allocate(u, n, a)
      PROVE  Goal
  <2>1. block[u] = None
    BY <1>2 DEF Paged!Allocate
  <2>2. CASE Paged!FromPage(u, n, a)
    <3>1. /\ PagesInv'
          /\ ~failed' => PageGiven(u, [page |-> page, offset |-> Paged!Aligned(a), len |-> n])
      BY <2>1, <2>2, PagesFromPage
    <3>2. [page |-> page, offset |-> Paged!Aligned(a), len |-> n] \in [page : Nat, offset : Nat, len : PageSizes]
      <4>1. page \in Nat
        BY <1>1 DEF PageTypes
      <4> QED
        BY <4>1, <1>1, AlignedOffset
    <3> QED
      BY <3>1, <3>2
  <2>3. CASE Paged!FromNewPage(u, n, a)
    <3>1. /\ PagesInv'
          /\ ~failed' => PageGiven(u, [page |-> Len(pages) + 1, offset |-> 0, len |-> n])
      BY <2>1, <2>3, PagesFromNewPage
    <3>2. [page |-> Len(pages) + 1, offset |-> 0, len |-> n] \in [page : Nat, offset : Nat, len : PageSizes]
      BY <1>1 DEF PageTypes
    <3> QED
      BY <3>1, <3>2
  <2>4. CASE Paged!OldPagesFail(n, a) \/ Paged!MakePageFail(n, a)
    <3>1. /\ failed' = TRUE /\ page_offset' = 0 /\ page' \in {0, page}
          /\ UNCHANGED <<block, pages, page_size, ended>>
      BY <2>4 DEF Paged!OldPagesFail, Paged!MakePageFail
    <3>2. PageTypes'
      <4>1. page_offset' \in 0 .. page_size' /\ page' \in 0 .. Len(pages')
        BY <3>1, <1>1 DEF PageTypes
      <4> QED
        BY <4>1, <3>1, <1>1 DEF PageTypes, Space
    <3> QED
      BY <3>1, <3>2 DEF PagesInv
  <2> QED
    BY <1>2, <2>2, <2>3, <2>4 DEF Paged!Allocate
<1>3. ASSUME NEW u \in Users, Paged!Deallocate(u)
      PROVE  Goal
  <2>1. /\ block[u] # None /\ block' = [block EXCEPT ![u] = None]
        /\ UNCHANGED <<pages, page, page_size, page_offset, ended, failed>>
    BY <1>3 DEF Paged!Deallocate, Paged!context
  <2>2. block'[u] = None /\ \A v \in Users : v # u => block'[v] = block[v]
    BY <2>1, <1>1 DEF PageTypes
  <2>3. PageTypes'
    <3>1. block' \in [Users -> [page : Nat, offset : Nat, len : PageSizes] \cup {None}]
      BY <2>1, <1>1 DEF PageTypes
    <3> QED
      BY <3>1, <2>1, <1>1 DEF PageTypes, Space
  <2>4. ASSUME ~failed' PROVE PagesUsed'
    BY <2>1, <2>2, <2>4, <1>1 DEF PagesUsed, Space
  <2> QED
    BY <2>1, <2>3, <2>4 DEF PagesInv, Taken
<1> QED
  BY <1>2, <1>3 DEF Paged!Next

(* What the invariant says of the run's properties.                        *)
LEMMA PagesTypeCorrect == PagesInv => Paged!TypeOK
<1> SUFFICES ASSUME PagesInv PROVE Paged!TypeOK
  OBVIOUS
<1>1. page_size \in 0 .. 2^W - 1
  <2>1. page_size \in 0 .. Space - 1
    <3>1. page_size \in Nat /\ 2 * page_size < Space /\ Space \in Nat
      BY PagesConstants DEF PagesInv, PageTypes
    <3> HIDE DEF Space
    <3> QED
      BY <3>1
  <2> QED
    BY <2>1 DEF Space
<1> QED
  BY <1>1 DEF PagesInv, PageTypes, Paged!TypeOK

(* The invariant of the pages: memory of users is in its page, and no      *)
(* require() fails.                                                        *)
LEMMA PagesAccount == PagesInv => Paged!InPages /\ Paged!RequiresHold
BY DEF PagesInv, PageTypes, PagesUsed, Paged!InPages, Paged!RequiresHold, Paged!InPage, Paged!Held

(***************************************************************************)
(* The pool of blocks of the queue.  A block is on the free list, in the   *)
(* initial pool, does not exist, or is out, and freeListRefs counts the    *)
(* threads that have a reference to it, and the list.  BlockFine says what *)
(* the count and the mark mean for the threads' relations to one block, so *)
(* that a step is about one block and one thread.  A thread that is to pop *)
(* or to push has the right successor in mind: a link changes only while   *)
(* its block is out, and nobody has a reference to it.                     *)
(***************************************************************************)

(* What a thread has to do with a block: it owns it, is about to put it on *)
(* the list, to push it there, has popped it, or holds a reference to it.  *)
Kinds == {"own", "linking", "pushing", "popped", "referring", "none"}
Keeping == {"own", "linking", "pushing", "popped"}

(* The threads' relations k to a block of which the count tells.           *)
Referring(k) == {u \in Users : k[u] = "referring"}
KeptAs(k, kinds) == \E u \in Users : k[u] \in kinds

(* References that no thread holds: the list's, and a popper's own.        *)
Tokens(k, place) ==
  IF place = "list" THEN 1
  ELSE IF KeptAs(k, {"popped"}) THEN 2
  ELSE IF KeptAs(k, {"pushing"}) THEN 1 ELSE 0

(* A block is on the list, in the initial pool still, does not exist, or   *)
(* is out: then somebody keeps it, or it is marked, and somebody who has a *)
(* reference will put it back.                                             *)
BlockFine(k, place, ref, once) ==
  /\ k \in [Users -> Kinds]
  /\ place \in {"list", "untouched", "absent", "out"}
  /\ ref \in [n : Nat, should : BOOLEAN]
  /\ IsFiniteSet(Referring(k))
  /\ ref.n = Cardinality(Referring(k)) + Tokens(k, place)
  /\ \A u \in Users : \A v \in Users : k[u] \in Keeping /\ k[v] \in Keeping => u = v
  /\ place # "out" => ref.should = FALSE /\ \A u \in Users : k[u] \notin Keeping
  /\ place \in {"untouched", "absent"} => ref.n = 0
  /\ \A u \in Users : k[u] \in Keeping => (ref.should <=> k[u] = "linking")
  /\ \A u \in Users : k[u] = "linking" => ref.n = 0
  /\ place = "out" /\ ~KeptAs(k, Keeping) => ref.should = TRUE /\ ref.n > 0
  /\ once => place # "list" /\ ref.n = 0 /\ ref.should = FALSE
       /\ \A u \in Users : k[u] \in {"own", "none"}

(* One thread more or less that holds a reference.                         *)
LEMMA ReferringMore ==
  ASSUME NEW k, k \in [Users -> Kinds], IsFiniteSet(Referring(k)), NEW u \in Users,
         k[u] # "referring",
         NEW l, l = [k EXCEPT ![u] = "referring"]
  PROVE  /\ IsFiniteSet(Referring(l)) /\ Cardinality(Referring(k)) \in Nat
         /\ Cardinality(Referring(l)) = Cardinality(Referring(k)) + 1
<1>1. Referring(l) = Referring(k) \cup {u} /\ u \notin Referring(k)
  BY DEF Referring
<1>2. Cardinality(Referring(k)) \in Nat
  BY FS_CardinalityType
<1>3. IsFiniteSet(Referring(k) \cup {u})
      /\ Cardinality(Referring(k) \cup {u}) = Cardinality(Referring(k)) + 1
  BY <1>1, <1>2, FS_AddElement
<1> QED
  BY <1>1, <1>2, <1>3

(* One reference less.                                                     *)
LEMMA ReferringLess ==
  ASSUME NEW k, k \in [Users -> Kinds], IsFiniteSet(Referring(k)), NEW u \in Users,
         k[u] = "referring",
         NEW x \in Kinds, x # "referring", NEW l, l = [k EXCEPT ![u] = x]
  PROVE  /\ IsFiniteSet(Referring(l)) /\ Cardinality(Referring(k)) \in Nat
         /\ Cardinality(Referring(l)) \in Nat
         /\ Cardinality(Referring(l)) = Cardinality(Referring(k)) - 1
<1>1. Referring(l) = Referring(k) \ {u} /\ u \in Referring(k)
  BY DEF Referring
<1>2. IsFiniteSet(Referring(l))
  BY <1>1, FS_RemoveElement
<1> QED
  BY <1>1, <1>2, FS_RemoveElement, FS_CardinalityType

(* No reference more or less.                                              *)
LEMMA ReferringSame ==
  ASSUME NEW k, k \in [Users -> Kinds], IsFiniteSet(Referring(k)), NEW u \in Users,
         k[u] # "referring",
         NEW x \in Kinds, x # "referring", NEW l, l = [k EXCEPT ![u] = x]
  PROVE  Referring(l) = Referring(k) /\ Cardinality(Referring(k)) \in Nat
<1>1. Referring(l) = Referring(k)
  BY DEF Referring
<1> QED
  BY <1>1, FS_CardinalityType

(* A thread with a reference is one of those that are counted.             *)
LEMMA ReferringCounts ==
  ASSUME NEW k, k \in [Users -> Kinds], IsFiniteSet(Referring(k)), NEW u \in Users,
         k[u] = "referring"
  PROVE  Cardinality(Referring(k)) \in Nat /\ Cardinality(Referring(k)) >= 1
<1>1. u \in Referring(k)
  BY DEF Referring
<1>2. Cardinality(Referring(k)) \in Nat
      /\ Cardinality(Referring(k) \ {u}) = Cardinality(Referring(k)) - 1
      /\ Cardinality(Referring(k) \ {u}) \in Nat
  BY <1>1, FS_RemoveElement, FS_CardinalityType
<1> QED
  BY <1>2

(* One thread's relation becomes another.                                  *)
Becomes(l, k, u, x) == l = [k EXCEPT ![u] = x]

(* One thread's relation becomes x, and the others stay.                   *)
LEMMA BecomesMeans ==
  ASSUME NEW k, k \in [Users -> Kinds], NEW u \in Users, NEW x \in Kinds, NEW l,
         Becomes(l, k, u, x)
  PROVE  l \in [Users -> Kinds] /\ l[u] = x /\ \A v \in Users : v # u => l[v] = k[v]
BY DEF Becomes

(* The references stay when a thread that has none goes on without one.    *)
LEMMA FineSame ==
  ASSUME NEW k, NEW place, NEW ref, NEW once, BlockFine(k, place, ref, once),
         NEW u \in Users, k[u] # "referring",
         NEW x \in Kinds, x # "referring", NEW l, Becomes(l, k, u, x)
  PROVE  /\ Referring(l) = Referring(k) /\ Cardinality(Referring(k)) \in Nat
         /\ IsFiniteSet(Referring(l))
<1>1. k \in [Users -> Kinds] /\ IsFiniteSet(Referring(k)) /\ l = [k EXCEPT ![u] = x]
  BY DEF BlockFine, Becomes
<1>2. Referring(l) = Referring(k) /\ Cardinality(Referring(k)) \in Nat
  BY <1>1, ReferringSame
<1> QED
  BY <1>1, <1>2

(* The steps of one block: a thread takes a reference ...                  *)
LEMMA FineRefer ==
  ASSUME NEW k, NEW place, NEW ref, NEW once \in BOOLEAN, BlockFine(k, place, ref, once),
         NEW u \in Users, k[u] = "none", ref.n # 0,
         NEW l, Becomes(l, k, u, "referring"),
         NEW new \in [n : Nat, should : BOOLEAN], new.n = ref.n + 1, new.should = ref.should
  PROVE  BlockFine(l, place, new, once)
<1>1. k \in [Users -> Kinds] /\ ref \in [n : Nat, should : BOOLEAN] /\ ref.n \in Nat
  BY DEF BlockFine
<1>2. l \in [Users -> Kinds] /\ l[u] = "referring" /\ \A v \in Users : v # u => l[v] = k[v]
  BY <1>1, BecomesMeans DEF Kinds
<1>3. /\ IsFiniteSet(Referring(l)) /\ Cardinality(Referring(k)) \in Nat
      /\ Cardinality(Referring(l)) = Cardinality(Referring(k)) + 1
  BY <1>1, ReferringMore DEF BlockFine, Becomes
<1>4. \A v \in Users : l[v] \in Keeping \/ k[v] \in Keeping => k[v] = l[v]
  BY <1>2 DEF Keeping
<1>5. /\ KeptAs(l, Keeping) <=> KeptAs(k, Keeping)
      /\ KeptAs(l, {"popped"}) <=> KeptAs(k, {"popped"})
      /\ KeptAs(l, {"pushing"}) <=> KeptAs(k, {"pushing"})
  BY <1>4 DEF KeptAs, Keeping
<1>6. Tokens(l, place) = Tokens(k, place) /\ Tokens(k, place) \in Nat
  BY <1>5 DEF Tokens
<1>7. new.n = Cardinality(Referring(l)) + Tokens(l, place)
  BY <1>1, <1>3, <1>6 DEF BlockFine
<1>8. ~once
  BY <1>1 DEF BlockFine
<1>9. \A v \in Users : k[v] # "linking" /\ l[v] # "linking"
  BY <1>1, <1>2 DEF BlockFine
<1>10. place \notin {"untouched", "absent"}
  BY DEF BlockFine
<1> QED
  BY <1>2, <1>3, <1>4, <1>5, <1>7, <1>8, <1>9, <1>10 DEF BlockFine

(* ... a thread with a reference takes the block off the list ...          *)
LEMMA FinePop ==
  ASSUME NEW k, NEW place, NEW ref, NEW once \in BOOLEAN, BlockFine(k, place, ref, once),
         NEW u \in Users, k[u] = "referring", place = "list",
         NEW l, Becomes(l, k, u, "popped")
  PROVE  BlockFine(l, "out", ref, once)
<1>1. k \in [Users -> Kinds] /\ ref \in [n : Nat, should : BOOLEAN] /\ ref.n \in Nat
  BY DEF BlockFine
<1>2. l \in [Users -> Kinds] /\ l[u] = "popped" /\ \A v \in Users : v # u => l[v] = k[v]
  BY <1>1, BecomesMeans DEF Kinds
<1>3. /\ IsFiniteSet(Referring(l)) /\ Cardinality(Referring(k)) \in Nat
      /\ Cardinality(Referring(l)) \in Nat
      /\ Cardinality(Referring(l)) = Cardinality(Referring(k)) - 1
  BY <1>1, ReferringLess DEF BlockFine, Becomes, Kinds
<1>4. /\ \A v \in Users : v # u => l[v] \notin Keeping
      /\ KeptAs(l, {"popped"}) /\ KeptAs(l, Keeping) /\ ~KeptAs(k, {"popped"})
           /\ ~KeptAs(k, {"pushing"})
  BY <1>2 DEF BlockFine, KeptAs, Keeping
<1>5. Tokens(l, "out") = 2 /\ Tokens(k, place) = 1
  BY <1>4 DEF Tokens
<1>6. ref.n = Cardinality(Referring(l)) + Tokens(l, "out")
  BY <1>1, <1>3, <1>5 DEF BlockFine
<1>7. ~once /\ ref.should = FALSE
  BY DEF BlockFine
<1> QED
  BY <1>1, <1>2, <1>3, <1>4, <1>6, <1>7 DEF BlockFine, Keeping

(* ... and has it for itself ...                                           *)
LEMMA FinePopped ==
  ASSUME NEW k, NEW place, NEW ref, NEW once \in BOOLEAN, BlockFine(k, place, ref, once),
         NEW u \in Users, k[u] = "popped",
         NEW l, Becomes(l, k, u, "own"),
         NEW new \in [n : Nat, should : BOOLEAN], new.n = ref.n - 2, new.should = ref.should
  PROVE  BlockFine(l, place, new, once)
<1>1. k \in [Users -> Kinds] /\ ref \in [n : Nat, should : BOOLEAN] /\ ref.n \in Nat
  BY DEF BlockFine
<1>2. l \in [Users -> Kinds] /\ l[u] = "own" /\ \A v \in Users : v # u => l[v] = k[v]
  BY <1>1, BecomesMeans DEF Kinds
<1>3. Referring(l) = Referring(k) /\ Cardinality(Referring(k)) \in Nat
      /\ IsFiniteSet(Referring(l))
  BY FineSame DEF Kinds
<1>4. place = "out" /\ ref.should = FALSE
  BY DEF BlockFine, Keeping
<1>5. /\ \A v \in Users : v # u => k[v] \notin Keeping /\ l[v] \notin Keeping
      /\ KeptAs(l, Keeping) /\ KeptAs(k, {"popped"}) /\ ~KeptAs(l, {"popped"})
           /\ ~KeptAs(l, {"pushing"})
  BY <1>2 DEF BlockFine, KeptAs, Keeping
<1>6. Tokens(l, place) = 0 /\ Tokens(k, place) = 2
  BY <1>4, <1>5 DEF Tokens
<1>7. new.n = Cardinality(Referring(l)) + Tokens(l, place)
  BY <1>1, <1>3, <1>6 DEF BlockFine
<1>8. ~once
  BY DEF BlockFine
<1> QED
  BY <1>1, <1>2, <1>3, <1>4, <1>5, <1>7, <1>8 DEF BlockFine, Keeping

(* ... a reference goes, but not the last one of a marked block ...        *)
LEMMA FineUnref ==
  ASSUME NEW k, NEW place, NEW ref, NEW once \in BOOLEAN, BlockFine(k, place, ref, once),
         NEW u \in Users, k[u] = "referring", ~(ref.n = 1 /\ ref.should),
         NEW l, Becomes(l, k, u, "none"),
         NEW new \in [n : Nat, should : BOOLEAN], new.n = ref.n - 1, new.should = ref.should
  PROVE  BlockFine(l, place, new, once)
<1>1. k \in [Users -> Kinds] /\ ref \in [n : Nat, should : BOOLEAN] /\ ref.n \in Nat
  BY DEF BlockFine
<1>2. l \in [Users -> Kinds] /\ l[u] = "none" /\ \A v \in Users : v # u => l[v] = k[v]
  BY <1>1, BecomesMeans DEF Kinds
<1>3. /\ IsFiniteSet(Referring(l)) /\ Cardinality(Referring(k)) \in Nat
      /\ Cardinality(Referring(l)) \in Nat
      /\ Cardinality(Referring(l)) = Cardinality(Referring(k)) - 1
  BY <1>1, ReferringLess DEF BlockFine, Becomes, Kinds
<1>4. \A v \in Users : l[v] \in Keeping \/ k[v] \in Keeping => k[v] = l[v]
  BY <1>2 DEF Keeping
<1>5. /\ KeptAs(l, Keeping) <=> KeptAs(k, Keeping)
      /\ KeptAs(l, {"popped"}) <=> KeptAs(k, {"popped"})
      /\ KeptAs(l, {"pushing"}) <=> KeptAs(k, {"pushing"})
  BY <1>4 DEF KeptAs, Keeping
<1>6. Tokens(l, place) = Tokens(k, place) /\ Tokens(k, place) \in Nat
  BY <1>5 DEF Tokens
<1>7. new.n = Cardinality(Referring(l)) + Tokens(l, place) /\ ref.n > 0
  BY <1>1, <1>3, <1>6 DEF BlockFine
<1>8. ~once
  BY DEF BlockFine
<1>9. \A v \in Users : k[v] # "linking" /\ l[v] # "linking"
  <2>1. ref.n # 0
    BY <1>1, <1>7
  <2>2. \A v \in Users : k[v] # "linking"
    BY <2>1 DEF BlockFine
  <2> QED
    BY <2>2, <1>2
<1>10. place \notin {"untouched", "absent"}
  BY <1>7 DEF BlockFine
<1>11. ref.should = TRUE => new.n > 0
  BY <1>1, <1>7
<1> QED
  BY <1>2, <1>3, <1>4, <1>5, <1>7, <1>8, <1>9, <1>10, <1>11 DEF BlockFine

(* ... the last one of a marked block makes its thread the one to add it ...*)
LEMMA FineClaim ==
  ASSUME NEW k, NEW place, NEW ref, NEW once \in BOOLEAN, BlockFine(k, place, ref, once),
         NEW u \in Users, k[u] = "referring", ref.n = 1, ref.should,
         NEW l, Becomes(l, k, u, "linking"),
         NEW new \in [n : Nat, should : BOOLEAN], new.n = 0, new.should = TRUE
  PROVE  BlockFine(l, place, new, once)
<1>1. k \in [Users -> Kinds] /\ ref \in [n : Nat, should : BOOLEAN] /\ ref.n \in Nat
  BY DEF BlockFine
<1>2. l \in [Users -> Kinds] /\ l[u] = "linking" /\ \A v \in Users : v # u => l[v] = k[v]
  BY <1>1, BecomesMeans DEF Kinds
<1>3. /\ IsFiniteSet(Referring(l)) /\ Cardinality(Referring(k)) \in Nat
      /\ Cardinality(Referring(l)) \in Nat
      /\ Cardinality(Referring(l)) = Cardinality(Referring(k)) - 1
  BY <1>1, ReferringLess DEF BlockFine, Becomes, Kinds
<1>4. place = "out" /\ \A v \in Users : k[v] \notin Keeping
  BY DEF BlockFine
<1>5. /\ \A v \in Users : v # u => l[v] \notin Keeping
      /\ KeptAs(l, Keeping) /\ ~KeptAs(l, {"popped"}) /\ ~KeptAs(l, {"pushing"})
      /\ ~KeptAs(k, {"popped"}) /\ ~KeptAs(k, {"pushing"})
  BY <1>2, <1>4 DEF KeptAs, Keeping
<1>6. Tokens(l, place) = 0 /\ Tokens(k, place) = 0
  BY <1>4, <1>5 DEF Tokens
<1>7. new.n = Cardinality(Referring(l)) + Tokens(l, place)
  BY <1>1, <1>3, <1>6 DEF BlockFine
<1>8. ~once
  BY DEF BlockFine
<1> QED
  BY <1>1, <1>2, <1>3, <1>4, <1>5, <1>7, <1>8 DEF BlockFine, Keeping

(* ... an owner adds its block ...                                         *)
LEMMA FineMark ==
  ASSUME NEW k, NEW place, NEW ref, NEW once \in BOOLEAN, BlockFine(k, place, ref, once),
         NEW u \in Users, k[u] = "own", ref.n = 0, ~once,
         NEW l, Becomes(l, k, u, "linking"),
         NEW new \in [n : Nat, should : BOOLEAN], new.n = 0, new.should = TRUE
  PROVE  BlockFine(l, place, new, once)
<1>1. k \in [Users -> Kinds] /\ ref \in [n : Nat, should : BOOLEAN] /\ ref.n \in Nat
  BY DEF BlockFine
<1>2. l \in [Users -> Kinds] /\ l[u] = "linking" /\ \A v \in Users : v # u => l[v] = k[v]
  BY <1>1, BecomesMeans DEF Kinds
<1>3. Referring(l) = Referring(k) /\ Cardinality(Referring(k)) \in Nat
      /\ IsFiniteSet(Referring(l))
  BY FineSame DEF Kinds
<1>4. place = "out"
  BY DEF BlockFine, Keeping
<1>5. /\ \A v \in Users : v # u => k[v] \notin Keeping /\ l[v] \notin Keeping
      /\ KeptAs(l, Keeping) /\ ~KeptAs(k, {"popped"})
      /\ ~KeptAs(l, {"popped"}) /\ ~KeptAs(l, {"pushing"}) /\ ~KeptAs(k, {"pushing"})
  BY <1>2 DEF BlockFine, KeptAs, Keeping
<1>6. /\ Tokens(l, place) = 0
      /\ Tokens(k, place) = 0
  BY <1>4, <1>5 DEF Tokens
<1>7. new.n = Cardinality(Referring(l)) + Tokens(l, place)
  BY <1>1, <1>3, <1>6 DEF BlockFine
<1>8. ~once
  BY DEF BlockFine
<1> QED
  BY <1>1, <1>2, <1>3, <1>4, <1>5, <1>7, <1>8 DEF BlockFine, Keeping

(* ... or leaves it to those who have references ...                       *)
LEMMA FineLeave ==
  ASSUME NEW k, NEW place, NEW ref, NEW once \in BOOLEAN, BlockFine(k, place, ref, once),
         NEW u \in Users, k[u] = "own", ref.n > 0, ~once,
         NEW l, Becomes(l, k, u, "none"),
         NEW new \in [n : Nat, should : BOOLEAN], new.n = ref.n, new.should = TRUE
  PROVE  BlockFine(l, place, new, once)
<1>1. k \in [Users -> Kinds] /\ ref \in [n : Nat, should : BOOLEAN] /\ ref.n \in Nat
  BY DEF BlockFine
<1>2. l \in [Users -> Kinds] /\ l[u] = "none" /\ \A v \in Users : v # u => l[v] = k[v]
  BY <1>1, BecomesMeans DEF Kinds
<1>3. Referring(l) = Referring(k) /\ Cardinality(Referring(k)) \in Nat
      /\ IsFiniteSet(Referring(l))
  BY FineSame DEF Kinds
<1>4. place = "out"
  BY DEF BlockFine, Keeping
<1>5. /\ \A v \in Users : v # u => k[v] \notin Keeping /\ l[v] \notin Keeping
      /\ ~KeptAs(l, Keeping) /\ ~KeptAs(k, {"popped"})
      /\ ~KeptAs(l, {"popped"}) /\ ~KeptAs(l, {"pushing"}) /\ ~KeptAs(k, {"pushing"})
  BY <1>2 DEF BlockFine, KeptAs, Keeping
<1>6. /\ Tokens(l, place) = 0
      /\ Tokens(k, place) = 0
  BY <1>4, <1>5 DEF Tokens
<1>7. new.n = Cardinality(Referring(l)) + Tokens(l, place)
  BY <1>1, <1>3, <1>6 DEF BlockFine
<1>8. ~once
  BY DEF BlockFine
<1> QED
  BY <1>1, <1>2, <1>3, <1>4, <1>5, <1>7, <1>8 DEF BlockFine, Keeping

(* ... the list gets its reference ...                                     *)
LEMMA FineLink ==
  ASSUME NEW k, NEW place, NEW ref, NEW once \in BOOLEAN, BlockFine(k, place, ref, once),
         NEW u \in Users, k[u] = "linking",
         NEW l, Becomes(l, k, u, "pushing"),
         NEW new \in [n : Nat, should : BOOLEAN], new.n = 1, new.should = FALSE
  PROVE  BlockFine(l, place, new, once)
<1>1. k \in [Users -> Kinds] /\ ref \in [n : Nat, should : BOOLEAN] /\ ref.n \in Nat
  BY DEF BlockFine
<1>2. l \in [Users -> Kinds] /\ l[u] = "pushing" /\ \A v \in Users : v # u => l[v] = k[v]
  BY <1>1, BecomesMeans DEF Kinds
<1>3. Referring(l) = Referring(k) /\ Cardinality(Referring(k)) \in Nat
      /\ IsFiniteSet(Referring(l))
  BY FineSame DEF Kinds
<1>4. place = "out"
  BY DEF BlockFine, Keeping
<1>5. /\ \A v \in Users : v # u => k[v] \notin Keeping /\ l[v] \notin Keeping
      /\ KeptAs(l, Keeping) /\ ~KeptAs(k, {"popped"})
      /\ ~KeptAs(l, {"popped"}) /\ KeptAs(l, {"pushing"}) /\ ~KeptAs(k, {"pushing"})
  BY <1>2 DEF BlockFine, KeptAs, Keeping
<1>6. /\ Tokens(l, place) = 1
      /\ Tokens(k, place) = 0
  BY <1>4, <1>5 DEF Tokens
<1>7. new.n = Cardinality(Referring(l)) + Tokens(l, place)
  BY <1>1, <1>3, <1>6 DEF BlockFine
<1>8. ~once
  BY DEF BlockFine
<1> QED
  BY <1>1, <1>2, <1>3, <1>4, <1>5, <1>7, <1>8 DEF BlockFine, Keeping

(* ... or loses it again, when the head was another ...                    *)
LEMMA FineRetry ==
  ASSUME NEW k, NEW place, NEW ref, NEW once \in BOOLEAN, BlockFine(k, place, ref, once),
         NEW u \in Users, k[u] = "pushing", ref.n = 1,
         NEW l, Becomes(l, k, u, "linking"),
         NEW new \in [n : Nat, should : BOOLEAN], new.n = 0, new.should = TRUE
  PROVE  BlockFine(l, place, new, once)
<1>1. k \in [Users -> Kinds] /\ ref \in [n : Nat, should : BOOLEAN] /\ ref.n \in Nat
  BY DEF BlockFine
<1>2. l \in [Users -> Kinds] /\ l[u] = "linking" /\ \A v \in Users : v # u => l[v] = k[v]
  BY <1>1, BecomesMeans DEF Kinds
<1>3. Referring(l) = Referring(k) /\ Cardinality(Referring(k)) \in Nat
      /\ IsFiniteSet(Referring(l))
  BY FineSame DEF Kinds
<1>4. place = "out"
  BY DEF BlockFine, Keeping
<1>5. /\ \A v \in Users : v # u => k[v] \notin Keeping /\ l[v] \notin Keeping
      /\ KeptAs(l, Keeping) /\ ~KeptAs(k, {"popped"})
      /\ ~KeptAs(l, {"popped"}) /\ ~KeptAs(l, {"pushing"}) /\ KeptAs(k, {"pushing"})
  BY <1>2 DEF BlockFine, KeptAs, Keeping
<1>6. /\ Tokens(l, place) = 0
      /\ Tokens(k, place) = 1
  BY <1>4, <1>5 DEF Tokens
<1>7. new.n = Cardinality(Referring(l)) + Tokens(l, place)
  BY <1>1, <1>3, <1>6 DEF BlockFine
<1>8. ~once
  BY DEF BlockFine
<1> QED
  BY <1>1, <1>2, <1>3, <1>4, <1>5, <1>7, <1>8 DEF BlockFine, Keeping

(* ... and leaves it to those who have references ...                      *)
LEMMA FineRetryLeave ==
  ASSUME NEW k, NEW place, NEW ref, NEW once \in BOOLEAN, BlockFine(k, place, ref, once),
         NEW u \in Users, k[u] = "pushing", ref.n > 1,
         NEW l, Becomes(l, k, u, "none"),
         NEW new \in [n : Nat, should : BOOLEAN], new.n = ref.n - 1, new.should = TRUE
  PROVE  BlockFine(l, place, new, once)
<1>1. k \in [Users -> Kinds] /\ ref \in [n : Nat, should : BOOLEAN] /\ ref.n \in Nat
  BY DEF BlockFine
<1>2. l \in [Users -> Kinds] /\ l[u] = "none" /\ \A v \in Users : v # u => l[v] = k[v]
  BY <1>1, BecomesMeans DEF Kinds
<1>3. Referring(l) = Referring(k) /\ Cardinality(Referring(k)) \in Nat
      /\ IsFiniteSet(Referring(l))
  BY FineSame DEF Kinds
<1>4. place = "out"
  BY DEF BlockFine, Keeping
<1>5. /\ \A v \in Users : v # u => k[v] \notin Keeping /\ l[v] \notin Keeping
      /\ ~KeptAs(l, Keeping) /\ ~KeptAs(k, {"popped"})
      /\ ~KeptAs(l, {"popped"}) /\ ~KeptAs(l, {"pushing"}) /\ KeptAs(k, {"pushing"})
  BY <1>2 DEF BlockFine, KeptAs, Keeping
<1>6. /\ Tokens(l, place) = 0
      /\ Tokens(k, place) = 1
  BY <1>4, <1>5 DEF Tokens
<1>7. new.n = Cardinality(Referring(l)) + Tokens(l, place)
  BY <1>1, <1>3, <1>6 DEF BlockFine
<1>8. ~once
  BY DEF BlockFine
<1> QED
  BY <1>1, <1>2, <1>3, <1>4, <1>5, <1>7, <1>8 DEF BlockFine, Keeping

(* ... the block is on the list ...                                        *)
LEMMA FinePush ==
  ASSUME NEW k, NEW place, NEW ref, NEW once \in BOOLEAN, BlockFine(k, place, ref, once),
         NEW u \in Users, k[u] = "pushing",
         NEW l, Becomes(l, k, u, "none")
  PROVE  BlockFine(l, "list", ref, once)
<1>1. k \in [Users -> Kinds] /\ ref \in [n : Nat, should : BOOLEAN] /\ ref.n \in Nat
  BY DEF BlockFine
<1>2. l \in [Users -> Kinds] /\ l[u] = "none" /\ \A v \in Users : v # u => l[v] = k[v]
  BY <1>1, BecomesMeans DEF Kinds
<1>3. Referring(l) = Referring(k) /\ Cardinality(Referring(k)) \in Nat
      /\ IsFiniteSet(Referring(l))
  BY FineSame DEF Kinds
<1>4. place = "out" /\ ref.should = FALSE
  BY DEF BlockFine, Keeping
<1>5. /\ \A v \in Users : k[v] \in Keeping => v = u
      /\ \A v \in Users : l[v] \notin Keeping
      /\ KeptAs(k, {"pushing"}) /\ ~KeptAs(k, {"popped"})
  BY <1>2 DEF BlockFine, KeptAs, Keeping
<1>6. Tokens(l, "list") = 1 /\ Tokens(k, place) = 1
  BY <1>4, <1>5 DEF Tokens
<1>7. ref.n = Cardinality(Referring(l)) + Tokens(l, "list")
  BY <1>1, <1>3, <1>6 DEF BlockFine
<1>8. ~once
  BY DEF BlockFine
<1> QED
  BY <1>1, <1>2, <1>3, <1>4, <1>5, <1>7, <1>8 DEF BlockFine, Keeping

(* ... a block comes from the initial pool or from malloc() ...            *)
LEMMA FineTake ==
  ASSUME NEW k, NEW place, NEW ref, NEW once \in BOOLEAN, BlockFine(k, place, ref, once),
         NEW u \in Users, k[u] = "none", place \in {"untouched", "absent"},
         NEW l, Becomes(l, k, u, "own")
  PROVE  BlockFine(l, "out", ref, once)
<1>1. k \in [Users -> Kinds] /\ ref \in [n : Nat, should : BOOLEAN] /\ ref.n \in Nat
  BY DEF BlockFine
<1>2. l \in [Users -> Kinds] /\ l[u] = "own" /\ \A v \in Users : v # u => l[v] = k[v]
  BY <1>1, BecomesMeans DEF Kinds
<1>3. Referring(l) = Referring(k) /\ Cardinality(Referring(k)) \in Nat
      /\ IsFiniteSet(Referring(l))
  BY FineSame DEF Kinds
<1>4. /\ ref.should = FALSE /\ ref.n = 0
      /\ \A v \in Users : k[v] \notin Keeping
  BY DEF BlockFine
<1>5. /\ \A v \in Users : v # u => l[v] \notin Keeping
      /\ KeptAs(l, Keeping) /\ ~KeptAs(l, {"popped"}) /\ ~KeptAs(l, {"pushing"})
      /\ ~KeptAs(k, {"popped"}) /\ ~KeptAs(k, {"pushing"})
  BY <1>2, <1>4 DEF KeptAs, Keeping
<1>6. Tokens(l, "out") = 0 /\ Tokens(k, place) = 0
  BY <1>5 DEF Tokens
<1>7. ref.n = Cardinality(Referring(l)) + Tokens(l, "out")
  BY <1>1, <1>3, <1>6 DEF BlockFine
<1> QED
  BY <1>1, <1>2, <1>3, <1>4, <1>5, <1>7 DEF BlockFine, Keeping

(* ... and is destroyed.                                                   *)
LEMMA FineDelete ==
  ASSUME NEW k, NEW place, NEW ref, NEW once \in BOOLEAN, BlockFine(k, place, ref, once),
         NEW u \in Users, k[u] = "own", once,
         NEW l, Becomes(l, k, u, "none")
  PROVE  BlockFine(l, "absent", ref, once)
<1>1. k \in [Users -> Kinds] /\ ref \in [n : Nat, should : BOOLEAN] /\ ref.n \in Nat
  BY DEF BlockFine
<1>2. l \in [Users -> Kinds] /\ l[u] = "none" /\ \A v \in Users : v # u => l[v] = k[v]
  BY <1>1, BecomesMeans DEF Kinds
<1>3. Referring(l) = Referring(k) /\ Cardinality(Referring(k)) \in Nat
      /\ IsFiniteSet(Referring(l))
  BY FineSame DEF Kinds
<1>4. place = "out" /\ ref.should = FALSE /\ ref.n = 0
  BY DEF BlockFine, Keeping
<1>5. /\ \A v \in Users : l[v] \notin Keeping
      /\ ~KeptAs(l, {"popped"}) /\ ~KeptAs(l, {"pushing"})
      /\ ~KeptAs(k, {"popped"}) /\ ~KeptAs(k, {"pushing"})
  BY <1>2 DEF BlockFine, KeptAs, Keeping
<1>6. Tokens(l, "absent") = 0 /\ Tokens(k, place) = 0
  BY <1>4, <1>5 DEF Tokens
<1>7. ref.n = Cardinality(Referring(l)) + Tokens(l, "absent")
  BY <1>1, <1>3, <1>4, <1>6 DEF BlockFine
<1> QED
  BY <1>1, <1>2, <1>3, <1>4, <1>5, <1>7 DEF BlockFine, Keeping

(* The free list: what one can reach from a head.                          *)
MayFollow(S, head, next) ==
  head \in S \cup {None} /\ \A c \in S : next[c] \in S \cup {None}

Reach(head, next) ==
  {b \in Pool!BlockIds : \A S \in SUBSET Pool!BlockIds : MayFollow(S, head, next) => b \in S}

(* The list ends: blocks on it have ranks that go down.                    *)
Ranked(head, next) ==
  \E rank \in [Pool!BlockIds -> Nat] :
    \A b \in Reach(head, next) : next[b] # None => rank[next[b]] < rank[b]

Links == [Pool!BlockIds -> Pool!BlockIds \cup {None}]
Heads == Pool!BlockIds \cup {None}

(* What is assumed of the blocks.                                          *)
LEMMA PoolConstants ==
  /\ initialBlockPoolSize \in Nat /\ MaxBlocks \in Nat /\ initialBlockPoolSize <= MaxBlocks
  /\ Pool!BlockIds = 1 .. MaxBlocks
  /\ None \notin Pool!BlockIds
BY AllocatorsAssumption DEF Pool!PoolAssumption, Pool!BlockIds

(* The list has its head, goes on with each block, and is the least such   *)
(* set.                                                                    *)
LEMMA ReachFollows ==
  ASSUME NEW head \in Heads, NEW next \in Links
  PROVE  Reach(head, next) \in SUBSET Pool!BlockIds /\ MayFollow(Reach(head, next), head, next)
<1>1. head # None => head \in Reach(head, next)
  BY DEF Reach, MayFollow, Heads
<1>2. ASSUME NEW c \in Reach(head, next), next[c] # None PROVE next[c] \in Reach(head, next)
  <2>1. next[c] \in Pool!BlockIds
    BY <1>2 DEF Reach, Links
  <2>2. ASSUME NEW S \in SUBSET Pool!BlockIds, MayFollow(S, head, next) PROVE next[c] \in S
    <3>1. c \in S
      BY <2>2 DEF Reach
    <3> QED
      BY <3>1, <2>2, <1>2 DEF MayFollow
  <2> QED
    BY <2>1, <2>2 DEF Reach
<1> QED
  BY <1>1, <1>2 DEF MayFollow, Reach

(* The list is the least set that has its head and goes on.                *)
LEMMA ReachLeast ==
  ASSUME NEW head, NEW next, NEW S \in SUBSET Pool!BlockIds, MayFollow(S, head, next)
  PROVE  Reach(head, next) \subseteq S
BY DEF Reach

(* An empty list.                                                          *)
LEMMA ReachNone ==
  ASSUME NEW next \in Links
  PROVE  Reach(None, next) = {} /\ Ranked(None, next)
<1>1. Reach(None, next) = {}
  <2>1. {} \in SUBSET Pool!BlockIds
    OBVIOUS
  <2>2. MayFollow({}, None, next)
    BY DEF MayFollow
  <2>3. Reach(None, next) \subseteq {}
    BY <2>1, <2>2, ReachLeast
  <2> QED
    BY <2>3
<1>2. [b \in Pool!BlockIds |-> 0] \in [Pool!BlockIds -> Nat]
  OBVIOUS
<1> QED
  BY <1>1, <1>2 DEF Ranked

(* A new link of a block that is not on the list changes nothing.          *)
LEMMA ReachLink ==
  ASSUME NEW head \in Heads, NEW next \in Links, NEW b \in Pool!BlockIds,
         b \notin Reach(head, next),
         NEW s \in Heads, NEW new, Becomes(new, next, b, s), Ranked(head, next)
  PROVE  new \in Links /\ Reach(head, new) = Reach(head, next) /\ Ranked(head, new)
<1>1. new \in Links /\ \A c \in Pool!BlockIds : c # b => new[c] = next[c]
  BY DEF Links, Heads, Becomes
<1> DEFINE R == Reach(head, next)  Q == Reach(head, new)
<1>2. R \in SUBSET Pool!BlockIds /\ MayFollow(R, head, next) /\ b \notin R
  BY ReachFollows
<1>3. Q \in SUBSET Pool!BlockIds /\ MayFollow(Q, head, new)
  BY <1>1, ReachFollows
<1> HIDE DEF R, Q
<1>4. MayFollow(R, head, new)
  BY <1>1, <1>2 DEF MayFollow
<1>5. Q \subseteq R
  BY <1>2, <1>4, ReachLeast DEF Q
<1>6. MayFollow(Q, head, next)
  BY <1>1, <1>2, <1>3, <1>5 DEF MayFollow
<1>7. R \subseteq Q
  BY <1>3, <1>6, ReachLeast DEF R
<1>8. Q = R
  BY <1>5, <1>7
<1>9. Ranked(head, new)
  <2>1. PICK rank \in [Pool!BlockIds -> Nat] : \A c \in R : next[c] # None =>
          rank[next[c]] < rank[c]
    BY DEF Ranked, R
  <2>2. \A c \in Q : new[c] # None => rank[new[c]] < rank[c]
    BY <2>1, <1>1, <1>2, <1>8
  <2> QED
    BY <2>1, <2>2 DEF Ranked, Q
<1> QED
  BY <1>1, <1>8, <1>9 DEF R, Q

(* A block comes on the list.                                              *)
LEMMA ReachPush ==
  ASSUME NEW head \in Heads, NEW next \in Links, NEW b \in Pool!BlockIds,
         b \notin Reach(head, next),
         next[b] = head, Ranked(head, next)
  PROVE  Reach(b, next) = Reach(head, next) \cup {b} /\ Ranked(b, next)
<1> DEFINE R == Reach(head, next)  Q == Reach(b, next)
<1>1. R \in SUBSET Pool!BlockIds /\ MayFollow(R, head, next) /\ b \notin R
  BY ReachFollows
<1>2. Q \in SUBSET Pool!BlockIds /\ MayFollow(Q, b, next)
  BY ReachFollows DEF Heads
<1> HIDE DEF R, Q
<1>3. b \in Q
  BY <1>2, PoolConstants DEF MayFollow
<1>4. MayFollow(Q, head, next)
  BY <1>2, <1>3 DEF MayFollow
<1>5. R \subseteq Q
  BY <1>2, <1>4, ReachLeast DEF R
<1>6. MayFollow(R \cup {b}, b, next)
  BY <1>1 DEF MayFollow
<1>7. Q \subseteq R \cup {b}
  BY <1>1, <1>6, ReachLeast DEF Q
<1>8. Q = R \cup {b}
  BY <1>3, <1>5, <1>7
<1>9. Ranked(b, next)
  <2>1. PICK rank \in [Pool!BlockIds -> Nat] : \A c \in R : next[c] # None =>
          rank[next[c]] < rank[c]
    BY DEF Ranked, R
  <2> DEFINE top == IF head = None THEN 0 ELSE rank[head] + 1
             more == [rank EXCEPT ![b] = top]
  <2>2. top \in Nat
    BY <2>1 DEF Heads
  <2>3. more \in [Pool!BlockIds -> Nat] /\ more[b] = top /\ \A c \in Pool!BlockIds : c # b =>
          more[c] = rank[c]
    BY <2>1, <2>2
  <2>4. ASSUME NEW c \in Q, next[c] # None PROVE more[next[c]] < more[c]
    <3>1. CASE c = b
      <4>1. head \in R /\ head # None
        BY <3>1, <2>4, <1>1 DEF MayFollow
      <4>2. more[head] = rank[head] /\ rank[head] \in Nat
        BY <4>1, <2>1, <2>3, <1>1
      <4>3. more[c] = rank[head] + 1
        BY <4>1, <3>1, <2>3
      <4> HIDE DEF more
      <4> QED
        BY <4>2, <4>3, <3>1
    <3>2. CASE c # b
      <4>1. c \in R /\ next[c] \in R
        BY <3>2, <2>4, <1>1, <1>8 DEF MayFollow
      <4>2. more[c] = rank[c] /\ more[next[c]] = rank[next[c]]
        BY <4>1, <2>3, <1>1
      <4> HIDE DEF more
      <4> QED
        BY <4>1, <4>2, <2>1, <2>4
    <3> QED
      BY <3>1, <3>2
  <2> HIDE DEF more
  <2> QED
    BY <2>3, <2>4 DEF Ranked, Q
<1> QED
  BY <1>8, <1>9 DEF R, Q

(* The head comes off the list.                                            *)
LEMMA ReachPop ==
  ASSUME NEW head \in Pool!BlockIds, NEW next \in Links, Ranked(head, next)
  PROVE  /\ next[head] \in Heads
         /\ Reach(next[head], next) = Reach(head, next) \ {head}
         /\ Ranked(next[head], next)
         /\ head \in Reach(head, next)
<1> DEFINE R == Reach(head, next)  Q == Reach(next[head], next)
<1>1. R \in SUBSET Pool!BlockIds /\ MayFollow(R, head, next)
  BY ReachFollows DEF Heads
<1>2. next[head] \in Heads
  BY DEF Links, Heads
<1>3. Q \in SUBSET Pool!BlockIds /\ MayFollow(Q, next[head], next)
  BY <1>2, ReachFollows
<1> HIDE DEF R, Q
<1>4. head \in R
  BY <1>1, PoolConstants DEF MayFollow
<1>5. PICK rank \in [Pool!BlockIds -> Nat] : \A c \in R : next[c] # None =>
        rank[next[c]] < rank[c]
  BY DEF Ranked, R
<1>6. MayFollow(R, next[head], next)
  BY <1>1, <1>4 DEF MayFollow
<1>7. Q \subseteq R
  BY <1>1, <1>6, ReachLeast DEF Q
<1>8. R \subseteq Q \cup {head}
  <2>1. MayFollow(Q \cup {head}, head, next)
    BY <1>3 DEF MayFollow
  <2> QED
    BY <2>1, <1>3, ReachLeast DEF R
<1>9. head \notin Q
  <2> DEFINE Low == {c \in R : rank[c] < rank[head]}
  <2>1. Low \in SUBSET Pool!BlockIds
    BY <1>1
  <2>2. next[head] \in Low \cup {None}
    BY <1>1, <1>4, <1>5 DEF MayFollow
  <2>3. ASSUME NEW c \in Low, next[c] # None PROVE next[c] \in Low
    <3>1. c \in R /\ next[c] \in R /\ rank[c] < rank[head] /\ rank[next[c]] < rank[c]
      BY <2>3, <1>1, <1>5 DEF MayFollow
    <3>2. rank[c] \in Nat /\ rank[head] \in Nat /\ rank[next[c]] \in Nat
      BY <3>1, <1>1, <1>5
    <3> QED
      BY <3>1, <3>2
  <2>4. head \notin Low
    <3>1. rank[head] \in Nat
      BY <1>5
    <3> QED
      BY <3>1
  <2> HIDE DEF Low
  <2>5. MayFollow(Low, next[head], next)
    BY <2>2, <2>3 DEF MayFollow
  <2>6. Q \subseteq Low
    BY <2>1, <2>5, ReachLeast DEF Q
  <2> QED
    BY <2>4, <2>6
<1>10. Q = R \ {head}
  BY <1>7, <1>8, <1>9
<1>11. Ranked(next[head], next)
  BY <1>5, <1>7 DEF Ranked, Q
<1> QED
  BY <1>2, <1>4, <1>10, <1>11 DEF R, Q

(* The model's list is what one can reach.                                 *)
LEMMA OnListIs ==
  /\ Pool!OnList = Reach(freeListHead, freeListNext)
  /\ Pool!OnList' = Reach(freeListHead', freeListNext')
BY DEF Pool!OnList, Reach, MayFollow


(* Where a thread can be in its call.                                      *)
NodePoints == {"refs", "next", "popped"}
AddPoints == {"add", "link", "push", "retry"}
PoolPoints ==
  [at : {"rest", "pool", "head", "create"}]
  \cup [at : NodePoints, node : Pool!BlockIds]
  \cup [at : {"pop"}, node : Pool!BlockIds, next : Heads]
  \cup [at : {"unref"}, node : Pool!BlockIds, head : Heads]
  \cup [at : AddPoints, node : Pool!BlockIds, seen : Heads, resume : {FALSE}]
  \cup [at : AddPoints, node : Pool!BlockIds, seen : Heads, resume : {TRUE}, head : Heads]

(* What a thread that has held, and is at p, has to do with b.             *)
PartAt(at) ==
  IF at \in {"add", "link"} THEN "linking"
  ELSE IF at \in {"push", "retry"} THEN "pushing"
  ELSE IF at = "popped" THEN "popped"
  ELSE IF at \in {"next", "pop", "unref"} THEN "referring" ELSE "none"

KindOf(held, p, b) ==
  IF held # None THEN IF held.addr = b THEN "own" ELSE "none"
  ELSE IF PartAt(p.at) # "none" /\ p.node = b THEN PartAt(p.at) ELSE "none"

Roles(b) == [u \in Users |-> KindOf(block[u], pc[u], b)]

Place(b) ==
  IF b \in Pool!OnList THEN "list"
  ELSE IF Pool!dynamicallyAllocated(b) THEN IF b \in allocated THEN "out" ELSE "absent"
  ELSE IF b > initialBlockPoolIndex THEN "untouched" ELSE "out"

Once(b) == ~recycles /\ Pool!dynamicallyAllocated(b)

PoolTypes ==
  /\ block \in [Users -> [addr : Pool!BlockIds, len : {1}] \cup {None}]
  /\ pc \in [Users -> PoolPoints]
  /\ recycles \in BOOLEAN /\ alive \in BOOLEAN
  /\ initialBlockPoolIndex \in Nat
  /\ freeListHead \in Heads /\ freeListNext \in Links
  /\ freeListRefs \in [Pool!BlockIds -> [n : Nat, should : BOOLEAN]]
  /\ \A b \in allocated : b \in Pool!BlockIds /\ Pool!dynamicallyAllocated(b)

(* A thread about to pop, or to push, has the right successor in mind.     *)
PoolThreads ==
  \A u \in Users :
    /\ pc[u] # Pool!Resting => block[u] = None
    /\ pc[u].at = "pop" => pc[u].next = freeListNext[pc[u].node]
    /\ pc[u].at = "push" => pc[u].seen = freeListNext[pc[u].node]

(* The list ends, and has blocks that exist.                               *)
PoolList ==
  /\ Ranked(freeListHead, freeListNext)
  /\ \A b \in Pool!OnList :
       IF Pool!dynamicallyAllocated(b) THEN b \in allocated ELSE b <= initialBlockPoolIndex

PoolBlocks == \A b \in Pool!BlockIds : BlockFine(Roles(b), Place(b), freeListRefs[b], Once(b))

PoolAtEnd ==
  allocated = {} /\ \A u \in Users : pc[u] = Pool!Resting /\ block[u] = None

PoolInv ==
  /\ PoolTypes
  /\ alive => PoolThreads /\ PoolList /\ PoolBlocks
  /\ ~alive => PoolAtEnd

(* What a thread remembers at each point.                                  *)
LEMMA PointTypes ==
  ASSUME NEW p \in PoolPoints
  PROVE  /\ p.at \in {"rest", "pool", "head", "create", "pop", "unref"} \cup NodePoints \cup AddPoints
         /\ p.at = "rest" <=> p = Pool!Resting
         /\ p.at \notin {"rest", "pool", "head", "create"} => p.node \in Pool!BlockIds
         /\ p.at = "pop" => p.next \in Heads
         /\ p.at = "unref" => p.head \in Heads
         /\ p.at \in AddPoints => p.seen \in Heads /\ p.resume \in BOOLEAN
         /\ p.at \in AddPoints /\ p.resume => p.head \in Heads
<1>1. CASE p \in [at : {"rest", "pool", "head", "create"}]
  BY <1>1 DEF NodePoints, Pool!Resting, AddPoints
<1>2. CASE p \in [at : NodePoints, node : Pool!BlockIds]
  BY <1>2 DEF NodePoints, Pool!Resting, AddPoints
<1>3. CASE p \in [at : {"pop"}, node : Pool!BlockIds, next : Heads]
  BY <1>3 DEF NodePoints, Pool!Resting, AddPoints
<1>4. CASE p \in [at : {"unref"}, node : Pool!BlockIds, head : Heads]
  BY <1>4 DEF NodePoints, Pool!Resting, AddPoints
<1>5. CASE p \in [at : AddPoints, node : Pool!BlockIds, seen : Heads, resume : {FALSE}]
  <2>1. p.at \in AddPoints /\ p.node \in Pool!BlockIds /\ p.seen \in Heads /\ p.resume = FALSE
    BY <1>5
  <2>2. p.at \notin {"rest", "pool", "head", "create", "pop", "unref"}
    BY <2>1 DEF AddPoints
  <2>3. p.resume \in BOOLEAN /\ ~p.resume
    BY <2>1
  <2>4. p.at = "rest" <=> p = Pool!Resting
    BY <2>2 DEF Pool!Resting
  <2> QED
    BY <2>1, <2>2, <2>3, <2>4
<1>6. CASE p \in [at : AddPoints, node : Pool!BlockIds, seen : Heads, resume : {TRUE}, head : Heads]
  <2>1. p.at \in AddPoints /\ p.node \in Pool!BlockIds /\ p.seen \in Heads /\ p.resume = TRUE
        /\ p.head \in Heads
    BY <1>6
  <2>2. p.at \notin {"rest", "pool", "head", "create", "pop", "unref"}
    BY <2>1 DEF AddPoints
  <2>3. p.resume \in BOOLEAN /\ p.resume
    BY <2>1
  <2>4. p.at = "rest" <=> p = Pool!Resting
    BY <2>2 DEF Pool!Resting
  <2> QED
    BY <2>1, <2>2, <2>3, <2>4
<1> QED
  BY <1>1, <1>2, <1>3, <1>4, <1>5, <1>6 DEF PoolPoints

(* Relations of one thread that goes on.                                   *)
LEMMA KindIs ==
  ASSUME NEW held, NEW p, NEW b
  PROVE  /\ KindOf(held, p, b) \in Kinds
         /\ KindOf(None, p, b) # "own"
         /\ KindOf(None, p, b) \in {"none", PartAt(p.at)}
         /\ p.node = b => KindOf(None, p, b) = PartAt(p.at)
         /\ p.node # b => KindOf(None, p, b) = "none"
         /\ PartAt(p.at) = "none" => KindOf(None, p, b) = "none"
BY DEF KindOf, PartAt, Kinds

(* The relation of each thread to a block.                                 *)
LEMMA RolesAre ==
  ASSUME NEW b
  PROVE  Roles(b) \in [Users -> Kinds]
           /\ \A u \in Users : Roles(b)[u] = KindOf(block[u], pc[u], b)
BY KindIs DEF Roles

(* A step of u leaves the other threads alone.                             *)
OthersKeep(u) == \A v \in Users : v # u => block'[v] = block[v] /\ pc'[v] = pc[v]

(* A step of u changes u's relation only.                                  *)
LEMMA RolesBecome ==
  ASSUME NEW u \in Users, NEW b, OthersKeep(u)
  PROVE  Becomes(Roles(b)', Roles(b), u, KindOf(block'[u], pc'[u], b))
<1>1. Roles(b)' = [v \in Users |-> KindOf(block'[v], pc'[v], b)]
  BY DEF Roles
<1>2. Roles(b) = [v \in Users |-> KindOf(block[v], pc[v], b)]
  BY DEF Roles
<1>3. [Roles(b) EXCEPT ![u] = KindOf(block'[u], pc'[u], b)] = [v \in Users |-> KindOf(block'[v], pc'[v], b)]
  BY <1>2 DEF OthersKeep
<1> QED
  BY <1>1, <1>3 DEF Becomes

(* What u does not change about a block.                                   *)
SameTo(u, c) ==
  /\ KindOf(block'[u], pc'[u], c) = KindOf(block[u], pc[u], c)
  /\ Place(c)' = Place(c)
  /\ freeListRefs'[c] = freeListRefs[c]

(* A block that has nothing to do with the step.                           *)
LEMMA BlockStays ==
  ASSUME NEW u \in Users, NEW c, OthersKeep(u), SameTo(u, c), UNCHANGED recycles,
         BlockFine(Roles(c), Place(c), freeListRefs[c], Once(c))
  PROVE  BlockFine(Roles(c)', Place(c)', freeListRefs'[c], Once(c)')
<1> DEFINE new == KindOf(block'[u], pc'[u], c)
<1>1. new = Roles(c)[u]
  BY RolesAre DEF SameTo
<1>2. Roles(c)' = [Roles(c) EXCEPT ![u] = new]
  BY RolesBecome DEF Becomes
<1>3. Roles(c) \in [Users -> Kinds]
  BY RolesAre
<1> HIDE DEF new
<1>4. Roles(c)' = Roles(c)
  BY <1>1, <1>2, <1>3
<1>5. Once(c)' = Once(c)
  BY DEF Once, Pool!dynamicallyAllocated
<1> QED
  BY <1>4, <1>5 DEF SameTo

(* A step is about one block, or about none.                               *)
LEMMA BlocksMove ==
  ASSUME PoolBlocks, NEW u \in Users, NEW b, OthersKeep(u), UNCHANGED recycles,
         \A c \in Pool!BlockIds : c # b => SameTo(u, c),
         BlockFine(Roles(b)', Place(b)', freeListRefs'[b], Once(b)')
  PROVE  PoolBlocks'
<1>1. ASSUME NEW c \in Pool!BlockIds
      PROVE BlockFine(Roles(c)', Place(c)', freeListRefs'[c], Once(c)')
  <2>1. CASE c = b
    BY <2>1
  <2>2. CASE c # b
    BY <2>2, BlockStays DEF PoolBlocks
  <2> QED
    BY <2>1, <2>2
<1> QED
  BY <1>1 DEF PoolBlocks, Pool!BlockIds

(* A step that has nothing to do with any block.                           *)
LEMMA BlocksStay ==
  ASSUME PoolBlocks, NEW u \in Users, OthersKeep(u), UNCHANGED recycles,
         \A c \in Pool!BlockIds : SameTo(u, c)
  PROVE  PoolBlocks'
<1>1. ASSUME NEW c \in Pool!BlockIds
      PROVE BlockFine(Roles(c)', Place(c)', freeListRefs'[c], Once(c)')
  BY BlockStays DEF PoolBlocks
<1> QED
  BY <1>1 DEF PoolBlocks, Pool!BlockIds

(* The list and the places, while nobody changes them.                     *)
LEMMA ListStays ==
  ASSUME UNCHANGED <<freeListHead, freeListNext>>
  PROVE  Pool!OnList' = Pool!OnList
           /\ Ranked(freeListHead, freeListNext)' = Ranked(freeListHead, freeListNext)
BY DEF Pool!OnList, Ranked, Reach, Pool!BlockIds, MayFollow

(* While head, links and memory stay, every block is where it was.         *)
LEMMA PlacesStay ==
  ASSUME UNCHANGED <<freeListHead, freeListNext, allocated, initialBlockPoolIndex>>
  PROVE  (PoolList => PoolList') /\ \A c : Place(c)' = Place(c)
BY ListStays DEF PoolList, Place, Pool!dynamicallyAllocated

(* What the threads have in mind stays right, while the links stay.        *)
LEMMA ThreadsKeep ==
  ASSUME PoolThreads, NEW u \in Users, OthersKeep(u), UNCHANGED freeListNext,
         pc'[u] # Pool!Resting => block'[u] = None,
         pc'[u].at = "pop" => pc'[u].next = freeListNext[pc'[u].node],
         pc'[u].at = "push" => pc'[u].seen = freeListNext[pc'[u].node]
  PROVE  PoolThreads'
<1>1. ASSUME NEW v \in Users
      PROVE  /\ pc'[v] # Pool!Resting => block'[v] = None
             /\ pc'[v].at = "pop" => pc'[v].next = freeListNext'[pc'[v].node]
             /\ pc'[v].at = "push" => pc'[v].seen = freeListNext'[pc'[v].node]
  <2>1. CASE v = u
    BY <2>1
  <2>2. CASE v # u
    BY <2>2 DEF OthersKeep, PoolThreads
  <2> QED
    BY <2>1, <2>2
<1> QED
  BY <1>1 DEF PoolThreads, Pool!Resting

(* u goes to p, with what it held, and is told of there.                   *)
LEMMA Goes ==
  ASSUME PoolTypes, NEW u \in Users, NEW p \in PoolPoints, Pool!Go(u, p), UNCHANGED block
  PROVE  /\ OthersKeep(u) /\ pc'[u] = p /\ pc' \in [Users -> PoolPoints] /\ block'[u] = block[u]
BY DEF PoolTypes, Pool!Go, OthersKeep

(* u gets a block.                                                         *)
LEMMA Hands ==
  ASSUME PoolTypes, NEW u \in Users, NEW b \in Pool!BlockIds, Pool!Hand(u, b), block[u] = None
  PROVE  /\ OthersKeep(u) /\ pc'[u] = Pool!Resting /\ pc' \in [Users -> PoolPoints]
         /\ block'[u] = [addr |-> b, len |-> 1] /\ block'[u] # None
         /\ block' = [block EXCEPT ![u] = [addr |-> b, len |-> 1]]
         /\ block' \in [Users -> [addr : Pool!BlockIds, len : {1}] \cup {None}]
         /\ KindOf(block'[u], pc'[u], b) = "own"
         /\ \A c : c # b => KindOf(block'[u], pc'[u], c) = "none"
<1>1. Pool!Resting \in PoolPoints
  BY DEF Pool!Resting, PoolPoints
<1>2. [addr |-> b, len |-> 1] \in [addr : Int, len : Int] /\ [addr |-> b, len |-> 1] # None
  <2>1. b \in Int
    BY DEF Pool!BlockIds
  <2> QED
    BY <2>1, NoneDiffers
<1>3. /\ block' = [block EXCEPT ![u] = [addr |-> b, len |-> 1]]
           /\ pc' = [pc EXCEPT ![u] = Pool!Resting]
  BY DEF Pool!Hand, Pool!Go
<1>4. /\ OthersKeep(u) /\ pc'[u] = Pool!Resting /\ pc' \in [Users -> PoolPoints]
      /\ block'[u] = [addr |-> b, len |-> 1]
      /\ block' \in [Users -> [addr : Pool!BlockIds, len : {1}] \cup {None}]
  BY <1>1, <1>3 DEF PoolTypes, OthersKeep
<1> QED
  BY <1>2, <1>3, <1>4 DEF KindOf

(* Two threads do not own one block, so what is given is apart from all.   *)
LEMMA OwnedApart ==
  ASSUME PoolTypes', PoolBlocks', NEW u \in Users, NEW b \in Pool!BlockIds,
         block[u] = None, block' = [block EXCEPT ![u] = [addr |-> b, len |-> 1]], PoolTypes
  PROVE  Given(u, [addr |-> b, len |-> 1])
<1>1. ASSUME NEW v \in Users \ {u}, block[v] # None
      PROVE  (b .. b + 1 - 1) \cap (block[v].addr .. block[v].addr + block[v].len - 1) = {}
  <2>1. block'[u] = [addr |-> b, len |-> 1] /\ block'[v] = block[v]
        /\ block[v] \in [addr : Pool!BlockIds, len : {1}]
    BY <1>1 DEF PoolTypes
  <2>2. block'[u] # None
    BY <2>1, NoneDiffers DEF Pool!BlockIds
  <2>3. BlockFine(Roles(b)', Place(b)', freeListRefs'[b], Once(b)')
    BY DEF PoolBlocks, Pool!BlockIds
  <2>4. Roles(b)'[u] = "own"
    BY <2>1, <2>2 DEF Roles, KindOf
  <2>5. block[v].addr = b => Roles(b)'[v] = "own"
    BY <1>1, <2>1 DEF Roles, KindOf
  <2>6. block[v].addr # b
    BY <2>3, <2>4, <2>5 DEF BlockFine, Keeping
  <2>7. block[v].addr \in Int /\ b \in Int /\ block[v].len = 1
    BY <2>1 DEF Pool!BlockIds
  <2> QED
    BY <2>6, <2>7
<1> QED
  BY <1>1 DEF Given

(* The points a thread goes to.                                            *)
Tried(head) == IF head = None THEN [at |-> "create"] ELSE [at |-> "refs", node |-> head]

(* Where a thread is after it has read the head.                           *)
LEMMA TriedPoint ==
  ASSUME NEW head \in Heads
  PROVE  /\ Tried(head) \in PoolPoints /\ Tried(head) # Pool!Resting
         /\ Tried(head).at \notin {"pop", "push"} /\ PartAt(Tried(head).at) = "none"
<1>1. CASE head = None
  BY <1>1 DEF Tried, PoolPoints, Pool!Resting, PartAt
<1>2. CASE head # None
  <2>1. Tried(head) = [at |-> "refs", node |-> head] /\ head \in Pool!BlockIds
    BY <1>2 DEF Tried, Heads
  <2> QED
    <3>1. Tried(head) \in [at : NodePoints, node : Pool!BlockIds] /\ Tried(head).at = "refs"
      BY <2>1 DEF NodePoints
    <3>2. Tried(head) \in PoolPoints
      BY <3>1 DEF PoolPoints
    <3> QED
      BY <3>1, <3>2 DEF Pool!Resting, PartAt
<1> QED
  BY <1>1, <1>2

Renewed(q, p, a, s) == q = [p EXCEPT !.at = a, !.seen = s]
Resumed(q, p, a) == q = [p EXCEPT !.at = a]

(* A thread in add() reads the head again, or goes on with what it read.   *)
LEMMA AddPointGoes ==
  ASSUME NEW p \in PoolPoints, p.at \in AddPoints, NEW a \in AddPoints, NEW s \in Heads,
         NEW q, Renewed(q, p, a, s)
  PROVE  q \in PoolPoints /\ q.at = a /\ q.node = p.node /\ q.seen = s /\ q # Pool!Resting
<1> USE DEF AddPoints, Renewed
<1>1. CASE p \in [at : AddPoints, node : Pool!BlockIds, seen : Heads, resume : {FALSE}]
  <2>1. q \in [at : AddPoints, node : Pool!BlockIds, seen : Heads, resume : {FALSE}]
        /\ q.at = a /\ q.node = p.node /\ q.seen = s
    BY <1>1
  <2> QED
    BY <2>1 DEF PoolPoints, Pool!Resting
<1>2. CASE p \in [at : AddPoints, node : Pool!BlockIds, seen : Heads, resume : {TRUE}, head : Heads]
  <2>1. q \in [at : AddPoints, node : Pool!BlockIds, seen : Heads, resume : {TRUE}, head : Heads]
        /\ q.at = a /\ q.node = p.node /\ q.seen = s
    BY <1>2
  <2> QED
    BY <2>1 DEF PoolPoints, Pool!Resting
<1> QED
  BY <1>1, <1>2 DEF PoolPoints, NodePoints

(* A thread in add() goes on.                                              *)
LEMMA AddPointStays ==
  ASSUME NEW p \in PoolPoints, p.at \in AddPoints, NEW a \in AddPoints, NEW q, Resumed(q, p, a)
  PROVE  q \in PoolPoints /\ q.at = a /\ q.node = p.node /\ q.seen = p.seen /\ q # Pool!Resting
<1> USE DEF AddPoints, Resumed
<1>1. CASE p \in [at : AddPoints, node : Pool!BlockIds, seen : Heads, resume : {FALSE}]
  <2>1. q \in [at : AddPoints, node : Pool!BlockIds, seen : Heads, resume : {FALSE}]
        /\ q.at = a /\ q.node = p.node /\ q.seen = p.seen
    BY <1>1
  <2> QED
    BY <2>1 DEF PoolPoints, Pool!Resting
<1>2. CASE p \in [at : AddPoints, node : Pool!BlockIds, seen : Heads, resume : {TRUE}, head : Heads]
  <2>1. q \in [at : AddPoints, node : Pool!BlockIds, seen : Heads, resume : {TRUE}, head : Heads]
        /\ q.at = a /\ q.node = p.node /\ q.seen = p.seen
    BY <1>2
  <2> QED
    BY <2>1 DEF PoolPoints, Pool!Resting
<1> QED
  BY <1>1, <1>2 DEF PoolPoints, NodePoints

(* A call on its way: its thread has no block.                             *)
LEMMA OnTheWay ==
  ASSUME PoolTypes, PoolThreads, NEW u \in Users, pc[u] # Pool!Resting
  PROVE  block[u] = None /\ pc[u] \in PoolPoints
BY DEF PoolTypes, PoolThreads

(* The point of a thread between two calls.                                *)
LEMMA RestingIs == Pool!Resting \in PoolPoints /\ Pool!Resting.at = "rest"
BY DEF Pool!Resting, PoolPoints

(* Steps that only go on.                                                  *)
LEMMA OnlyGoes ==
  ASSUME PoolInv, alive, NEW u \in Users, NEW p \in PoolPoints, Pool!Go(u, p),
         UNCHANGED <<block, recycles, alive, initialBlockPoolIndex, freeListHead, freeListRefs,
                     freeListNext, allocated>>,
         \A c : KindOf(block[u], p, c) = KindOf(block[u], pc[u], c),
         p # Pool!Resting => block[u] = None,
         p.at = "pop" => p.next = freeListNext[p.node],
         p.at = "push" => p.seen = freeListNext[p.node]
  PROVE  PoolInv'
<1>1. PoolTypes /\ PoolThreads /\ PoolList /\ PoolBlocks
  BY DEF PoolInv
<1>2. OthersKeep(u) /\ pc'[u] = p /\ pc' \in [Users -> PoolPoints] /\ block'[u] = block[u]
  BY <1>1, Goes
<1>3. PoolTypes'
  BY <1>1, <1>2 DEF PoolTypes, Pool!BlockIds, Pool!dynamicallyAllocated, Links, Heads, PoolPoints
<1>4. PoolThreads'
  BY <1>1, <1>2, ThreadsKeep
<1>5. PoolList' /\ \A c : Place(c)' = Place(c)
  BY <1>1, PlacesStay
<1>6. \A c \in Pool!BlockIds : SameTo(u, c)
  BY <1>2, <1>5 DEF SameTo
<1>7. PoolBlocks'
  BY <1>1, <1>2, <1>6, BlocksStay
<1> QED
  BY <1>3, <1>4, <1>5, <1>7 DEF PoolInv

(* Whether the initial pool is used up.                                    *)
LEMMA PoolCheckPool ==
  ASSUME PoolInv, alive, NEW u \in Users, Pool!CheckPool(u)
  PROVE  PoolInv'
<1> DEFINE p == [at |-> IF initialBlockPoolIndex < initialBlockPoolSize THEN "pool" ELSE "head"]
<1>1. /\ Pool!Go(u, p) /\ pc[u] = Pool!Resting /\ block[u] = None
      /\ UNCHANGED <<block, recycles, alive, initialBlockPoolIndex, freeListHead, freeListRefs,
                     freeListNext, allocated>>
  BY DEF Pool!CheckPool, Pool!list
<1>2. p \in PoolPoints /\ p.at \in {"pool", "head"}
  BY DEF PoolPoints
<1> HIDE DEF p
<1>3. \A c : KindOf(block[u], p, c) = "none" /\ KindOf(block[u], pc[u], c) = "none"
  BY <1>1, <1>2, KindIs, RestingIs DEF PartAt
<1> QED
  BY <1>1, <1>2, <1>3, OnlyGoes

(* try_get() reads the head.                                               *)
LEMMA PoolLoadHead ==
  ASSUME PoolInv, alive, NEW u \in Users, Pool!LoadHead(u)
  PROVE  PoolInv'
<1>1. PoolTypes /\ PoolThreads
  BY DEF PoolInv
<1>2. /\ Pool!Go(u, Tried(freeListHead)) /\ pc[u].at = "head"
      /\ UNCHANGED <<block, recycles, alive, initialBlockPoolIndex, freeListHead, freeListRefs,
                     freeListNext, allocated>>
  BY DEF Pool!LoadHead, Pool!list, Pool!TryNode, Tried
<1>3. block[u] = None
  BY <1>1, <1>2, OnTheWay, RestingIs
<1> DEFINE p == Tried(freeListHead)
<1>4. p \in PoolPoints /\ p # Pool!Resting /\ p.at \notin {"pop", "push"} /\ PartAt(p.at) = "none"
  BY <1>1, TriedPoint DEF PoolTypes
<1>5. Pool!Go(u, p)
  BY <1>2
<1> HIDE DEF p
<1>6. \A c : KindOf(block[u], p, c) = "none" /\ KindOf(block[u], pc[u], c) = "none"
  BY <1>2, <1>3, <1>4, KindIs DEF PartAt
<1> QED
  BY <1>2, <1>3, <1>4, <1>5, <1>6, OnlyGoes

(* try_get() reads the successor of the head, to which it has a reference: *)
(* nobody can link it anew meanwhile.                                      *)
LEMMA PoolLoadNext ==
  ASSUME PoolInv, alive, NEW u \in Users, Pool!LoadNext(u)
  PROVE  PoolInv'
<1>1. PoolTypes /\ PoolThreads
  BY DEF PoolInv
<1> DEFINE p == [at |-> "pop", node |-> pc[u].node, next |-> freeListNext[pc[u].node]]
<1>2. /\ Pool!Go(u, p) /\ pc[u].at = "next"
      /\ UNCHANGED <<block, recycles, alive, initialBlockPoolIndex, freeListHead, freeListRefs,
                     freeListNext, allocated>>
  BY DEF Pool!LoadNext, Pool!list
<1>3. block[u] = None /\ pc[u].node \in Pool!BlockIds
  BY <1>1, <1>2, OnTheWay, RestingIs, PointTypes
<1>4. freeListNext[pc[u].node] \in Heads
  BY <1>1, <1>3 DEF PoolTypes, Links, Heads
<1>5. p \in PoolPoints /\ p.at = "pop" /\ p.node = pc[u].node /\ p.next = freeListNext[pc[u].node]
  BY <1>3, <1>4 DEF PoolPoints
<1> HIDE DEF p
<1>6. \A c : KindOf(block[u], p, c) = KindOf(block[u], pc[u], c)
  BY <1>2, <1>3, <1>5 DEF PartAt, KindOf
<1> QED
  BY <1>2, <1>3, <1>5, <1>6, OnlyGoes

(* add_knowing_refcount_is_zero() reads the head.                          *)
LEMMA PoolAddLoad ==
  ASSUME PoolInv, alive, NEW u \in Users, Pool!AddLoad(u)
  PROVE  PoolInv'
<1>1. PoolTypes /\ PoolThreads
  BY DEF PoolInv
<1> DEFINE p == [pc[u] EXCEPT !.at = "link", !.seen = freeListHead]
<1>2. /\ Pool!Go(u, p) /\ pc[u].at = "add"
      /\ UNCHANGED <<block, recycles, alive, initialBlockPoolIndex, freeListHead, freeListRefs,
                     freeListNext, allocated>>
  BY DEF Pool!AddLoad, Pool!list
<1>3. block[u] = None /\ pc[u] \in PoolPoints /\ freeListHead \in Heads
  BY <1>1, <1>2, OnTheWay, RestingIs DEF PoolTypes
<1>4. Renewed(p, pc[u], "link", freeListHead) /\ "link" \in AddPoints /\ pc[u].at \in AddPoints
  BY <1>2 DEF Renewed, AddPoints
<1> HIDE DEF p
<1>5. p \in PoolPoints /\ p.at = "link" /\ p.node = pc[u].node
  BY <1>3, <1>4, AddPointGoes
<1>6. \A c : KindOf(block[u], p, c) = KindOf(block[u], pc[u], c)
  BY <1>2, <1>3, <1>5 DEF PartAt, KindOf
<1> QED
  BY <1>2, <1>3, <1>5, <1>6, OnlyGoes

(* The count is positive for one who has a reference, two for one who has  *)
(* popped the block, and one or more for one who is to push it.            *)
LEMMA FineRefs ==
  ASSUME NEW k, NEW place, NEW ref, NEW once \in BOOLEAN, BlockFine(k, place, ref, once)
  PROVE  /\ ref.n \in Nat /\ ref \in [n : Nat, should : BOOLEAN]
         /\ Cardinality(Referring(k)) \in Nat /\ Tokens(k, place) \in Nat
         /\ ref.n = Cardinality(Referring(k)) + Tokens(k, place)
<1>1. Cardinality(Referring(k)) \in Nat
  BY FS_CardinalityType DEF BlockFine
<1> QED
  BY <1>1 DEF Tokens, BlockFine

(* One who has a reference can give it back.                               *)
LEMMA FineReferring ==
  ASSUME NEW k, NEW place, NEW ref, NEW once \in BOOLEAN, BlockFine(k, place, ref, once),
         NEW u \in Users, k[u] = "referring"
  PROVE  ref.n - 1 \in Nat
<1>1. Cardinality(Referring(k)) >= 1
  BY ReferringCounts DEF BlockFine
<1> QED
  BY <1>1, FineRefs

(* One who has popped a block can give back its own reference and the      *)
(* list's.                                                                 *)
LEMMA FinePopper ==
  ASSUME NEW k, NEW place, NEW ref, NEW once \in BOOLEAN, BlockFine(k, place, ref, once),
         NEW u \in Users, k[u] = "popped"
  PROVE  ref.n - 2 \in Nat /\ ref.should = FALSE /\ place = "out"
<1>1. KeptAs(k, {"popped"}) /\ place = "out" /\ ref.should = FALSE
  BY DEF KeptAs, BlockFine, Keeping
<1>2. Tokens(k, place) = 2
  BY <1>1 DEF Tokens
<1> QED
  BY <1>1, <1>2, FineRefs

(* One who is to push a block has counted the list's reference.            *)
LEMMA FinePusher ==
  ASSUME NEW k, NEW place, NEW ref, NEW once \in BOOLEAN, BlockFine(k, place, ref, once),
         NEW u \in Users, k[u] = "pushing"
  PROVE  ref.n - 1 \in Nat /\ place = "out"
<1>1. KeptAs(k, {"pushing"}) /\ place = "out"
  BY DEF KeptAs, BlockFine, Keeping
<1>2. Tokens(k, place) >= 1
  BY <1>1 DEF Tokens
<1> QED
  BY <1>1, <1>2, FineRefs

(* A reference is counted, or no longer.                                   *)
LEMMA RefsChange ==
  ASSUME NEW refs \in [Pool!BlockIds -> [n : Nat, should : BOOLEAN]], NEW b \in Pool!BlockIds,
         NEW r \in [n : Nat, should : BOOLEAN], NEW new, Becomes(new, refs, b, r)
  PROVE  /\ new \in [Pool!BlockIds -> [n : Nat, should : BOOLEAN]]
         /\ new[b] = r /\ \A c : c # b => new[c] = refs[c]
BY DEF Becomes

(* A step by which u's part in one block becomes another, while the list   *)
(* has the same links.                                                     *)
LEMMA PartChanges ==
  ASSUME PoolInv, alive, NEW u \in Users, NEW b \in Pool!BlockIds, NEW p \in PoolPoints,
         block[u] = None, Pool!Go(u, p), pc[u].node = b \/ PartAt(pc[u].at) = "none",
         p.node = b \/ PartAt(p.at) = "none",
         UNCHANGED <<block, recycles, alive, initialBlockPoolIndex, freeListNext, allocated>>,
         freeListHead' \in Heads,
         freeListRefs' \in [Pool!BlockIds -> [n : Nat, should : BOOLEAN]],
         \A c : c # b => freeListRefs'[c] = freeListRefs[c],
         \A c : c # b => Place(c)' = Place(c),
         PoolList',
         p.at = "pop" => p.next = freeListNext[p.node],
         p.at = "push" => p.seen = freeListNext[p.node],
         \A l : Becomes(l, Roles(b), u, KindOf(None, p, b)) =>
           BlockFine(l, Place(b)', freeListRefs'[b], Once(b))
  PROVE  PoolInv'
<1>1. PoolTypes /\ PoolThreads /\ PoolList /\ PoolBlocks
  BY DEF PoolInv
<1>2. OthersKeep(u) /\ pc'[u] = p /\ pc' \in [Users -> PoolPoints] /\ block'[u] = block[u]
  BY <1>1, Goes
<1>3. PoolTypes'
  BY <1>1, <1>2 DEF PoolTypes, Pool!BlockIds, Pool!dynamicallyAllocated, Links, Heads, PoolPoints
<1>4. PoolThreads'
  BY <1>1, <1>2, ThreadsKeep
<1>5. \A c \in Pool!BlockIds : c # b => SameTo(u, c)
  <2>1. \A c : c # b => KindOf(block[u], pc[u], c) = "none" /\ KindOf(block[u], p, c) = "none"
    BY KindIs
  <2> QED
    BY <2>1, <1>2 DEF SameTo
<1>6. Once(b)' = Once(b)
  BY DEF Once, Pool!dynamicallyAllocated
<1>7. Becomes(Roles(b)', Roles(b), u, KindOf(None, p, b))
  BY <1>2, RolesBecome
<1>8. BlockFine(Roles(b)', Place(b)', freeListRefs'[b], Once(b)')
  BY <1>6, <1>7
<1>9. PoolBlocks'
  BY <1>1, <1>2, <1>5, <1>8, BlocksMove
<1> QED
  BY <1>3, <1>4, <1>9 DEF PoolInv

(* try_get() takes a reference, if the head still has one.                 *)
LEMMA PoolIncRefs ==
  ASSUME PoolInv, alive, NEW u \in Users, Pool!IncRefs(u)
  PROVE  PoolInv'
<1>1. PoolTypes /\ PoolThreads /\ PoolList /\ PoolBlocks
  BY DEF PoolInv
<1>2. /\ pc[u].at = "refs"
      /\ UNCHANGED <<block, recycles, alive, initialBlockPoolIndex, freeListHead, freeListNext,
         allocated>>
  BY DEF Pool!IncRefs
<1>3. block[u] = None /\ pc[u].node \in Pool!BlockIds
  BY <1>1, <1>2, OnTheWay, RestingIs, PointTypes
<1> PICK b \in Pool!BlockIds : b = pc[u].node
  BY <1>3
<1>4. PartAt(pc[u].at) = "none"
  BY <1>2 DEF PartAt
<1>5. CASE freeListRefs[b].n = 0
  <2> DEFINE p == [at |-> "head"]
  <2>1. Pool!Go(u, p) /\ UNCHANGED freeListRefs
    BY <1>5 DEF Pool!IncRefs
  <2>2. p \in PoolPoints /\ p.at = "head" /\ PartAt(p.at) = "none"
    BY DEF PoolPoints, PartAt
  <2> HIDE DEF p
  <2>3. \A c : KindOf(block[u], p, c) = KindOf(block[u], pc[u], c)
    BY <1>3, <1>4, <2>2, KindIs
  <2> QED
    BY <1>2, <1>3, <2>1, <2>2, <2>3, OnlyGoes
<1>6. CASE freeListRefs[b].n # 0
  <2> DEFINE p == [at |-> "next", node |-> b]
             r == [freeListRefs[b] EXCEPT !.n = @ + 1]
  <2>1. Pool!Go(u, p) /\ Becomes(freeListRefs', freeListRefs, b, r)
    BY <1>6 DEF Pool!IncRefs, Becomes
  <2>2. p \in PoolPoints /\ p.at = "next" /\ p.node = b /\ PartAt(p.at) = "referring"
    BY <1>3 DEF PoolPoints, PartAt, NodePoints
  <2>3. freeListRefs[b] \in [n : Nat, should : BOOLEAN]
    BY <1>1, <1>3 DEF PoolTypes
  <2>4. r \in [n : Nat, should : BOOLEAN] /\ r.n = freeListRefs[b].n + 1
        /\ r.should = freeListRefs[b].should
    BY <2>3
  <2> HIDE DEF p, r
  <2>5. /\ freeListRefs' \in [Pool!BlockIds -> [n : Nat, should : BOOLEAN]]
        /\ freeListRefs'[b] = r /\ \A c : c # b => freeListRefs'[c] = freeListRefs[c]
    BY <1>1, <1>3, <2>1, <2>4, RefsChange DEF PoolTypes
  <2>6. PoolList' /\ \A c : Place(c)' = Place(c)
    BY <1>1, <1>2, PlacesStay
  <2>7. BlockFine(Roles(b), Place(b), freeListRefs[b], Once(b)) /\ Once(b) \in BOOLEAN
    BY <1>1, <1>3 DEF PoolBlocks, Once, Pool!dynamicallyAllocated
  <2>8. Roles(b)[u] = "none"
    BY <1>3, <1>4, RolesAre, KindIs
  <2>9. KindOf(None, p, b) = "referring"
    BY <2>2, KindIs
  <2>10. ASSUME NEW l, Becomes(l, Roles(b), u, "referring")
         PROVE  BlockFine(l, Place(b)', freeListRefs'[b], Once(b))
    <3>1. BlockFine(l, Place(b), r, Once(b))
      BY <2>4, <2>7, <2>8, <2>10, <1>6, FineRefer
    <3> QED
      BY <3>1, <2>5, <2>6
  <2>11. freeListHead' \in Heads
    BY <1>1, <1>2 DEF PoolTypes
  <2> QED
    BY <1>2, <1>3, <1>4, <2>1, <2>2, <2>5, <2>6, <2>9, <2>10, <2>11, PartChanges
<1> QED
  BY <1>5, <1>6

(* try_get() takes the head off the list, if it is still the head: then    *)
(* its successor is the one that was read.                                 *)
LEMMA PoolPop ==
  ASSUME PoolInv, alive, NEW u \in Users, Pool!Pop(u)
  PROVE  PoolInv'
<1>1. PoolTypes /\ PoolThreads /\ PoolList /\ PoolBlocks
  BY DEF PoolInv
<1>2. /\ pc[u].at = "pop"
      /\ UNCHANGED <<block, recycles, alive, initialBlockPoolIndex, freeListRefs, freeListNext,
         allocated>>
  BY DEF Pool!Pop
<1>3. block[u] = None /\ pc[u].node \in Pool!BlockIds /\ pc[u].next = freeListNext[pc[u].node]
  BY <1>1, <1>2, OnTheWay, RestingIs, PointTypes DEF PoolThreads
<1> PICK b \in Pool!BlockIds : b = pc[u].node
  BY <1>3
<1>4. freeListHead \in Heads /\ freeListNext \in Links
  BY <1>1 DEF PoolTypes
<1>5. CASE freeListHead # b
  <2> DEFINE p == [at |-> "unref", node |-> b, head |-> freeListHead]
  <2>1. Pool!Go(u, p) /\ UNCHANGED freeListHead
    BY <1>5 DEF Pool!Pop
  <2>2. p \in PoolPoints /\ p.at = "unref" /\ p.node = b
    BY <1>4 DEF PoolPoints
  <2> HIDE DEF p
  <2>3. \A c : KindOf(block[u], p, c) = KindOf(block[u], pc[u], c)
    BY <1>2, <1>3, <2>2 DEF KindOf, PartAt
  <2> QED
    BY <1>2, <1>3, <2>1, <2>2, <2>3, OnlyGoes
<1>6. CASE freeListHead = b
  <2> DEFINE p == [at |-> "popped", node |-> b]
  <2>1. Pool!Go(u, p) /\ freeListHead' = freeListNext[b]
    BY <1>3, <1>6 DEF Pool!Pop
  <2>2. p \in PoolPoints /\ p.at = "popped" /\ p.node = b /\ PartAt(p.at) = "popped"
    BY DEF PoolPoints, PartAt, NodePoints
  <2>3. PartAt(pc[u].at) = "referring"
    BY <1>2 DEF PartAt
  <2> HIDE DEF p
  <2>4. /\ freeListHead' \in Heads
        /\ Pool!OnList' = Pool!OnList \ {b} /\ b \in Pool!OnList
        /\ Ranked(freeListHead', freeListNext')
    BY <1>1, <1>2, <1>4, <1>6, <2>1, ReachPop, OnListIs DEF PoolList
  <2>5. PoolList'
    BY <1>1, <1>2, <2>4 DEF PoolList, Pool!dynamicallyAllocated
  <2>6. \A c : c # b => Place(c)' = Place(c)
    BY <1>2, <2>4 DEF Place, Pool!dynamicallyAllocated
  <2>7. Place(b) = "list" /\ Place(b)' = "out"
    <3>1. b > initialBlockPoolSize \/ b <= initialBlockPoolSize
      BY PoolConstants
    <3>2. b \in Pool!OnList => IF b > initialBlockPoolSize THEN b \in allocated
          ELSE b <= initialBlockPoolIndex
      BY <1>1 DEF PoolList, Pool!dynamicallyAllocated
    <3>3. b <= initialBlockPoolIndex => ~(b > initialBlockPoolIndex)
      BY <1>1, PoolConstants DEF PoolTypes
    <3> QED
      BY <3>1, <3>2, <3>3, <1>2, <2>4 DEF Place, Pool!dynamicallyAllocated
  <2>8. BlockFine(Roles(b), Place(b), freeListRefs[b], Once(b)) /\ Once(b) \in BOOLEAN
    BY <1>1 DEF PoolBlocks, Once, Pool!dynamicallyAllocated
  <2>9. Roles(b)[u] = "referring"
    BY <1>3, <2>3, RolesAre, KindIs
  <2>10. KindOf(None, p, b) = "popped"
    BY <2>2, KindIs
  <2>11. ASSUME NEW l, Becomes(l, Roles(b), u, "popped")
         PROVE  BlockFine(l, Place(b)', freeListRefs'[b], Once(b))
    <3>1. BlockFine(l, "out", freeListRefs[b], Once(b))
      BY <2>7, <2>8, <2>9, <2>11, FinePop
    <3> QED
      BY <3>1, <1>2, <2>7
  <2>12. freeListRefs' \in [Pool!BlockIds -> [n : Nat, should : BOOLEAN]]
    BY <1>1, <1>2 DEF PoolTypes
  <2> QED
    BY <1>2, <1>3, <2>1, <2>2, <2>4, <2>5, <2>6, <2>10, <2>11, <2>12, PartChanges
<1> QED
  BY <1>5, <1>6

(* try_get() gives its reference back, and the last one to do so adds the  *)
(* block.                                                                  *)
LEMMA PoolUnref ==
  ASSUME PoolInv, alive, NEW u \in Users, Pool!Unref(u)
  PROVE  PoolInv'
<1>1. PoolTypes /\ PoolThreads /\ PoolList /\ PoolBlocks
  BY DEF PoolInv
<1>2. /\ pc[u].at = "unref"
      /\ UNCHANGED <<block, recycles, alive, initialBlockPoolIndex, freeListHead, freeListNext,
         allocated>>
  BY DEF Pool!Unref
<1>3. block[u] = None /\ pc[u].node \in Pool!BlockIds /\ pc[u].head \in Heads
  BY <1>1, <1>2, OnTheWay, RestingIs, PointTypes
<1> PICK b \in Pool!BlockIds : b = pc[u].node
  BY <1>3
<1>4. PartAt(pc[u].at) = "referring"
  BY <1>2 DEF PartAt
<1>5. Roles(b)[u] = "referring"
  BY <1>3, <1>4, RolesAre, KindIs
<1>6. BlockFine(Roles(b), Place(b), freeListRefs[b], Once(b)) /\ Once(b) \in BOOLEAN
  BY <1>1 DEF PoolBlocks, Once, Pool!dynamicallyAllocated
<1>7. freeListRefs[b] \in [n : Nat, should : BOOLEAN] /\ freeListRefs[b].n - 1 \in Nat
  BY <1>5, <1>6, FineRefs, FineReferring
<1> DEFINE r == [freeListRefs[b] EXCEPT !.n = @ - 1]
<1>8. Becomes(freeListRefs', freeListRefs, b, r)
  BY DEF Pool!Unref, Becomes
<1>9. r \in [n : Nat, should : BOOLEAN] /\ r.n = freeListRefs[b].n - 1
      /\ r.should = freeListRefs[b].should
  BY <1>7
<1> HIDE DEF r
<1>10. /\ freeListRefs' \in [Pool!BlockIds -> [n : Nat, should : BOOLEAN]]
       /\ freeListRefs'[b] = r /\ \A c : c # b => freeListRefs'[c] = freeListRefs[c]
  BY <1>1, <1>8, <1>9, RefsChange DEF PoolTypes
<1>11. PoolList' /\ \A c : Place(c)' = Place(c)
  BY <1>1, <1>2, PlacesStay
<1>12. freeListHead' \in Heads
  BY <1>1, <1>2 DEF PoolTypes
<1>13. CASE freeListRefs[b] = [n |-> 1, should |-> TRUE]
  <2> DEFINE p == [at |-> "add", node |-> b, seen |-> None, resume |-> TRUE, head |-> pc[u].head]
  <2>1. Pool!Go(u, p)
    BY <1>13 DEF Pool!Unref
  <2>2. p \in PoolPoints /\ p.at = "add" /\ p.node = b /\ PartAt(p.at) = "linking"
    <3>1. p \in [at : AddPoints, node : Pool!BlockIds, seen : Heads, resume : {TRUE}, head : Heads]
      BY <1>3 DEF AddPoints, Heads
    <3> QED
      BY <3>1 DEF PoolPoints, PartAt
  <2> HIDE DEF p
  <2>3. KindOf(None, p, b) = "linking"
    BY <2>2, KindIs
  <2>4. freeListRefs[b].n = 1 /\ freeListRefs[b].should /\ r.n = 0 /\ r.should = TRUE
    BY <1>9, <1>13
  <2>5. ASSUME NEW l, Becomes(l, Roles(b), u, "linking")
        PROVE  BlockFine(l, Place(b)', freeListRefs'[b], Once(b))
    <3>1. BlockFine(l, Place(b), r, Once(b))
      BY <1>5, <1>6, <1>9, <2>4, <2>5, FineClaim
    <3> QED
      BY <3>1, <1>10, <1>11
  <2> QED
    BY <1>2, <1>3, <1>10, <1>11, <1>12, <2>1, <2>2, <2>3, <2>5, PartChanges
<1>14. CASE freeListRefs[b] # [n |-> 1, should |-> TRUE]
  <2> DEFINE p == Tried(pc[u].head)
  <2>1. Pool!Go(u, p)
    BY <1>14 DEF Pool!Unref, Pool!TryNode, Tried
  <2>2. p \in PoolPoints /\ p.at \notin {"pop", "push"} /\ PartAt(p.at) = "none"
    BY <1>3, TriedPoint
  <2> HIDE DEF p
  <2>3. KindOf(None, p, b) = "none"
    BY <2>2, KindIs
  <2>4. ~(freeListRefs[b].n = 1 /\ freeListRefs[b].should)
    BY <1>7, <1>14
  <2>5. ASSUME NEW l, Becomes(l, Roles(b), u, "none")
        PROVE  BlockFine(l, Place(b)', freeListRefs'[b], Once(b))
    <3>1. BlockFine(l, Place(b), r, Once(b))
      BY <1>5, <1>6, <1>9, <2>4, <2>5, FineUnref
    <3> QED
      BY <3>1, <1>10, <1>11
  <2> QED
    BY <1>2, <1>3, <1>10, <1>11, <1>12, <2>1, <2>2, <2>3, <2>5, PartChanges
<1> QED
  BY <1>13, <1>14

(* A thread gets block b.                                                  *)
LEMMA HandedOver ==
  ASSUME PoolInv, alive, NEW u \in Users, NEW b \in Pool!BlockIds,
         block[u] = None, Pool!Hand(u, b), pc[u].node = b \/ PartAt(pc[u].at) = "none",
         UNCHANGED <<recycles, alive, freeListHead, freeListNext>>,
         initialBlockPoolIndex' \in Nat, \A c \in allocated' : c \in Pool!BlockIds
           /\ Pool!dynamicallyAllocated(c),
         freeListRefs' \in [Pool!BlockIds -> [n : Nat, should : BOOLEAN]],
         \A c : c # b => freeListRefs'[c] = freeListRefs[c],
         \A c \in Pool!BlockIds : c # b => Place(c)' = Place(c),
         PoolList',
         \A l : Becomes(l, Roles(b), u, "own") =>
           BlockFine(l, Place(b)', freeListRefs'[b], Once(b))
  PROVE  PoolInv' /\ Given(u, [addr |-> b, len |-> 1])
<1>1. PoolTypes /\ PoolThreads /\ PoolList /\ PoolBlocks
  BY DEF PoolInv
<1>2. /\ OthersKeep(u) /\ pc'[u] = Pool!Resting /\ pc' \in [Users -> PoolPoints]
      /\ block' = [block EXCEPT ![u] = [addr |-> b, len |-> 1]]
      /\ block' \in [Users -> [addr : Pool!BlockIds, len : {1}] \cup {None}]
      /\ KindOf(block'[u], pc'[u], b) = "own"
      /\ \A c : c # b => KindOf(block'[u], pc'[u], c) = "none"
  BY <1>1, Hands
<1>3. PoolTypes'
  BY <1>1, <1>2 DEF PoolTypes, Pool!BlockIds, Pool!dynamicallyAllocated, Links, Heads, PoolPoints
<1>4. PoolThreads'
  BY <1>1, <1>2, RestingIs, ThreadsKeep
<1>5. \A c \in Pool!BlockIds : c # b => SameTo(u, c)
  <2>1. \A c : c # b => KindOf(block[u], pc[u], c) = "none"
    BY KindIs
  <2> QED
    BY <2>1, <1>2 DEF SameTo
<1>6. Once(b)' = Once(b)
  BY DEF Once, Pool!dynamicallyAllocated
<1>7. Becomes(Roles(b)', Roles(b), u, "own")
  BY <1>2, RolesBecome
<1>8. BlockFine(Roles(b)', Place(b)', freeListRefs'[b], Once(b)')
  BY <1>6, <1>7
<1>9. PoolBlocks'
  BY <1>1, <1>2, <1>5, <1>8, BlocksMove
<1>10. Given(u, [addr |-> b, len |-> 1])
  BY <1>1, <1>2, <1>3, <1>9, OwnedApart
<1> QED
  BY <1>3, <1>4, <1>9, <1>10 DEF PoolInv

(* try_get() returns the block it has popped, which nobody else has.       *)
LEMMA PoolPopped ==
  ASSUME PoolInv, alive, NEW u \in Users, Pool!Popped(u)
  PROVE  PoolInv' /\ \E b \in Pool!BlockIds : Given(u, [addr |-> b, len |-> 1])
<1>1. PoolTypes /\ PoolThreads /\ PoolList /\ PoolBlocks
  BY DEF PoolInv
<1>2. /\ pc[u].at = "popped"
      /\ UNCHANGED <<recycles, alive, initialBlockPoolIndex, freeListHead, freeListNext,
         allocated>>
  BY DEF Pool!Popped
<1>3. block[u] = None /\ pc[u].node \in Pool!BlockIds
  BY <1>1, <1>2, OnTheWay, RestingIs, PointTypes
<1> PICK b \in Pool!BlockIds : b = pc[u].node
  BY <1>3
<1>4. Pool!Hand(u, b)
  BY DEF Pool!Popped
<1>5. Roles(b)[u] = "popped"
  BY <1>2, <1>3, RolesAre, KindIs DEF PartAt
<1>6. BlockFine(Roles(b), Place(b), freeListRefs[b], Once(b)) /\ Once(b) \in BOOLEAN
  BY <1>1 DEF PoolBlocks, Once, Pool!dynamicallyAllocated
<1>7. freeListRefs[b] \in [n : Nat, should : BOOLEAN] /\ freeListRefs[b].n - 2 \in Nat
  <2>1. freeListRefs[b].n - 2 \in Nat
    BY <1>5, <1>6, FinePopper
  <2> QED
    BY <2>1, <1>1 DEF PoolTypes
<1> DEFINE r == [freeListRefs[b] EXCEPT !.n = @ - 2]
<1>8. Becomes(freeListRefs', freeListRefs, b, r)
  BY DEF Pool!Popped, Becomes
<1>9. r \in [n : Nat, should : BOOLEAN] /\ r.n = freeListRefs[b].n - 2
      /\ r.should = freeListRefs[b].should
  BY <1>7
<1> HIDE DEF r
<1>10. /\ freeListRefs' \in [Pool!BlockIds -> [n : Nat, should : BOOLEAN]]
       /\ freeListRefs'[b] = r /\ \A c : c # b => freeListRefs'[c] = freeListRefs[c]
  BY <1>1, <1>8, <1>9, RefsChange DEF PoolTypes
<1>11. PoolList' /\ \A c : Place(c)' = Place(c)
  BY <1>1, <1>2, PlacesStay
<1>12. initialBlockPoolIndex' \in Nat /\ \A c \in allocated' : c \in Pool!BlockIds
       /\ Pool!dynamicallyAllocated(c)
  BY <1>1, <1>2 DEF PoolTypes
<1>13. ASSUME NEW l, Becomes(l, Roles(b), u, "own")
       PROVE  BlockFine(l, Place(b)', freeListRefs'[b], Once(b))
  <2>1. BlockFine(l, Place(b), r, Once(b))
    BY <1>5, <1>6, <1>9, <1>13, FinePopped
  <2> QED
    BY <2>1, <1>10, <1>11
<1> QED
  BY <1>2, <1>3, <1>4, <1>10, <1>11, <1>12, <1>13, HandedOver

(* A block that nobody has had yet, or again, is taken.                    *)
LEMMA FreshBlock ==
  ASSUME PoolInv, alive, NEW u \in Users, NEW b \in Pool!BlockIds,
         block[u] = None, Pool!Hand(u, b), PartAt(pc[u].at) = "none",
         UNCHANGED <<recycles, alive, freeListHead, freeListRefs, freeListNext>>,
         initialBlockPoolIndex' \in Nat, \A c \in allocated' : c \in Pool!BlockIds
           /\ Pool!dynamicallyAllocated(c),
         \A c \in Pool!BlockIds : c # b => Place(c)' = Place(c),
         PoolList', Place(b) \in {"untouched", "absent"}, Place(b)' = "out"
  PROVE  PoolInv' /\ Given(u, [addr |-> b, len |-> 1])
<1>1. PoolTypes /\ PoolBlocks
  BY DEF PoolInv
<1>2. BlockFine(Roles(b), Place(b), freeListRefs[b], Once(b)) /\ Once(b) \in BOOLEAN
  BY <1>1 DEF PoolBlocks, Once, Pool!dynamicallyAllocated
<1>3. Roles(b)[u] = "none"
  BY RolesAre, KindIs
<1>4. ASSUME NEW l, Becomes(l, Roles(b), u, "own")
      PROVE  BlockFine(l, Place(b)', freeListRefs'[b], Once(b))
  <2>1. BlockFine(l, "out", freeListRefs[b], Once(b))
    BY <1>2, <1>3, <1>4, FineTake
  <2> QED
    BY <2>1
<1>5. freeListRefs' \in [Pool!BlockIds -> [n : Nat, should : BOOLEAN]]
  BY <1>1 DEF PoolTypes
<1> QED
  BY <1>4, <1>5, HandedOver

(* A block of the initial pool, that nobody has had.                       *)
LEMMA PoolClaimFromPool ==
  ASSUME PoolInv, alive, NEW u \in Users, Pool!ClaimFromPool(u)
  PROVE  PoolInv' /\ (UNCHANGED block \/ \E b \in Pool!BlockIds : Given(u, [addr |-> b, len |-> 1]))
<1>1. PoolTypes /\ PoolThreads /\ PoolList /\ PoolBlocks
  BY DEF PoolInv
<1>2. /\ pc[u].at = "pool" /\ initialBlockPoolIndex' = initialBlockPoolIndex + 1
      /\ UNCHANGED <<recycles, alive, freeListHead, freeListRefs, freeListNext, allocated>>
  BY DEF Pool!ClaimFromPool, Pool!list
<1>3. block[u] = None /\ PartAt(pc[u].at) = "none"
  BY <1>1, <1>2, OnTheWay, RestingIs DEF PartAt
<1>4. /\ initialBlockPoolIndex \in Nat /\ initialBlockPoolIndex' \in Nat
      /\ \A c \in allocated' : c \in Pool!BlockIds /\ Pool!dynamicallyAllocated(c)
  BY <1>1, <1>2 DEF PoolTypes
<1>5. PoolList'
  <2>1. \A c \in Pool!BlockIds : c <= initialBlockPoolIndex => c <= initialBlockPoolIndex'
    BY <1>2, <1>4 DEF Pool!BlockIds
  <2>2. Pool!OnList \subseteq Pool!BlockIds
    BY DEF Pool!OnList
  <2>3. Pool!OnList' = Pool!OnList /\ Ranked(freeListHead, freeListNext)'
    BY <1>1, <1>2, ListStays DEF PoolList
  <2> QED
    BY <1>1, <1>2, <2>1, <2>2, <2>3 DEF PoolList, Pool!dynamicallyAllocated
<1>6. \A c : Pool!dynamicallyAllocated(c) \/ c \in Pool!OnList => Place(c)' = Place(c)
  BY <1>2, ListStays DEF Place, Pool!dynamicallyAllocated
<1>7. CASE initialBlockPoolIndex < initialBlockPoolSize
  <2>1. initialBlockPoolIndex + 1 \in Pool!BlockIds
    BY <1>4, <1>7, PoolConstants
  <2> PICK b \in Pool!BlockIds : b = initialBlockPoolIndex + 1
    BY <2>1
  <2>2. Pool!Hand(u, b)
    BY <1>7 DEF Pool!ClaimFromPool
  <2>3. b <= initialBlockPoolSize /\ ~(b > initialBlockPoolSize)
        /\ b > initialBlockPoolIndex /\ ~(b <= initialBlockPoolIndex)
             /\ ~(b > initialBlockPoolIndex')
    BY <1>2, <1>4, <1>7, PoolConstants
  <2>4. b \notin Pool!OnList /\ b \notin Pool!OnList'
    BY <1>1, <1>2, <2>3, ListStays DEF PoolList, Pool!dynamicallyAllocated
  <2>5. Place(b) = "untouched" /\ Place(b)' = "out"
    BY <2>3, <2>4 DEF Place, Pool!dynamicallyAllocated
  <2>6. ASSUME NEW c \in Pool!BlockIds, c # b PROVE Place(c)' = Place(c)
    <3>1. c > initialBlockPoolIndex <=> c > initialBlockPoolIndex'
      BY <2>6, <1>2, <1>4 DEF Pool!BlockIds
    <3> QED
      BY <3>1, <1>2, ListStays DEF Place, Pool!dynamicallyAllocated
  <2> QED
    BY <1>2, <1>3, <1>4, <1>5, <2>2, <2>5, <2>6, FreshBlock
<1>8. CASE ~(initialBlockPoolIndex < initialBlockPoolSize)
  <2> DEFINE p == [at |-> "head"]
  <2>1. Pool!Go(u, p) /\ UNCHANGED block
    BY <1>8 DEF Pool!ClaimFromPool
  <2>2. p \in PoolPoints /\ p.at = "head" /\ PartAt(p.at) = "none" /\ p # Pool!Resting
    BY DEF PoolPoints, PartAt, Pool!Resting
  <2> HIDE DEF p
  <2>3. OthersKeep(u) /\ pc'[u] = p /\ pc' \in [Users -> PoolPoints] /\ block'[u] = block[u]
    BY <1>1, <2>1, <2>2, Goes
  <2>4. PoolTypes'
    BY <1>1, <1>2, <1>4, <2>1, <2>3
       DEF PoolTypes, Pool!BlockIds, Pool!dynamicallyAllocated, Links, Heads, PoolPoints
  <2>5. PoolThreads'
    BY <1>1, <1>2, <1>3, <2>2, <2>3, ThreadsKeep
  <2>6. ASSUME NEW c \in Pool!BlockIds PROVE SameTo(u, c)
    <3>1. Place(c)' = Place(c)
      <4>1. CASE c > initialBlockPoolSize
        BY <4>1, <1>6 DEF Pool!dynamicallyAllocated
      <4>2. CASE c <= initialBlockPoolSize
        <5>1. ~(c > initialBlockPoolIndex) /\ ~(c > initialBlockPoolIndex')
          BY <4>2, <1>2, <1>4, <1>8, PoolConstants
        <5> QED
          BY <5>1, <1>2, ListStays DEF Place, Pool!dynamicallyAllocated
      <4> QED
        BY <4>1, <4>2, PoolConstants
    <3>2. KindOf(block[u], pc[u], c) = "none" /\ KindOf(block'[u], pc'[u], c) = "none"
      BY <1>3, <2>2, <2>3, KindIs
    <3> QED
      BY <3>1, <3>2, <1>2 DEF SameTo
  <2>7. PoolBlocks'
    BY <1>1, <1>2, <2>3, <2>6, BlocksStay
  <2> QED
    BY <1>2, <1>5, <2>1, <2>4, <2>5, <2>7 DEF PoolInv
<1> QED
  BY <1>7, <1>8

(* A block from malloc(), or none.                                         *)
LEMMA PoolCreate ==
  ASSUME PoolInv, alive, NEW u \in Users, Pool!Create(u)
  PROVE  PoolInv' /\ (UNCHANGED block \/ \E b \in Pool!BlockIds : Given(u, [addr |-> b, len |-> 1]))
<1>1. PoolTypes /\ PoolThreads /\ PoolList /\ PoolBlocks
  BY DEF PoolInv
<1>2. /\ pc[u].at = "create"
      /\ UNCHANGED <<recycles, alive, initialBlockPoolIndex, freeListHead, freeListRefs,
         freeListNext>>
  BY DEF Pool!Create, Pool!list
<1>3. block[u] = None /\ PartAt(pc[u].at) = "none"
  BY <1>1, <1>2, OnTheWay, RestingIs DEF PartAt
<1>4. ASSUME NEW b \in Pool!BlockIds \ allocated, Pool!dynamicallyAllocated(b),
             allocated' = allocated \cup {b}, Pool!Hand(u, b)
      PROVE  PoolInv' /\ Given(u, [addr |-> b, len |-> 1])
  <2>1. initialBlockPoolIndex' \in Nat /\ \A c \in allocated' : c \in Pool!BlockIds
        /\ Pool!dynamicallyAllocated(c)
    BY <1>1, <1>2, <1>4 DEF PoolTypes
  <2>2. Pool!OnList' = Pool!OnList /\ Ranked(freeListHead, freeListNext)'
    BY <1>1, <1>2, ListStays DEF PoolList
  <2>3. PoolList'
    BY <1>1, <1>2, <1>4, <2>2 DEF PoolList, Pool!dynamicallyAllocated
  <2>4. b \notin Pool!OnList
    BY <1>1, <1>4 DEF PoolList
  <2>5. Place(b) = "absent" /\ Place(b)' = "out"
    BY <1>4, <2>2, <2>4 DEF Place, Pool!dynamicallyAllocated
  <2>6. \A c \in Pool!BlockIds : c # b => Place(c)' = Place(c)
    BY <1>2, <1>4, <2>2 DEF Place, Pool!dynamicallyAllocated
  <2> QED
    BY <1>2, <1>3, <1>4, <2>1, <2>3, <2>5, <2>6, FreshBlock
<1>5. ASSUME Pool!Go(u, Pool!Resting), UNCHANGED <<block, allocated>>
      PROVE  PoolInv'
  <2>1. \A c : KindOf(block[u], Pool!Resting, c) = KindOf(block[u], pc[u], c)
    BY <1>3, KindIs, RestingIs DEF PartAt
  <2> QED
    BY <1>2, <1>5, <2>1, RestingIs, OnlyGoes
<1> QED
  BY <1>4, <1>5 DEF Pool!Create

(* A thread gives its block b back.                                        *)
LEMMA TakenBack ==
  ASSUME PoolInv, alive, NEW u \in Users, NEW b \in Pool!BlockIds, NEW p \in PoolPoints,
         block[u] # None, block[u].addr = b, pc[u] = Pool!Resting,
         block' = [block EXCEPT ![u] = None], pc' = [pc EXCEPT ![u] = p],
         p.node = b \/ PartAt(p.at) = "none", p.at \notin {"pop", "push"},
         UNCHANGED <<recycles, alive, initialBlockPoolIndex, freeListHead, freeListNext>>,
         \A c \in allocated' : c \in Pool!BlockIds /\ Pool!dynamicallyAllocated(c),
         freeListRefs' \in [Pool!BlockIds -> [n : Nat, should : BOOLEAN]],
         \A c : c # b => freeListRefs'[c] = freeListRefs[c],
         \A c \in Pool!BlockIds : c # b => Place(c)' = Place(c),
         PoolList',
         \A l : Becomes(l, Roles(b), u, KindOf(None, p, b)) =>
           BlockFine(l, Place(b)', freeListRefs'[b], Once(b))
  PROVE  PoolInv' /\ Taken(u)
<1>1. PoolTypes /\ PoolThreads /\ PoolList /\ PoolBlocks
  BY DEF PoolInv
<1>2. /\ OthersKeep(u) /\ pc'[u] = p /\ pc' \in [Users -> PoolPoints] /\ block'[u] = None
      /\ block' \in [Users -> [addr : Pool!BlockIds, len : {1}] \cup {None}]
  BY <1>1 DEF PoolTypes, OthersKeep
<1>3. PoolTypes'
  BY <1>1, <1>2 DEF PoolTypes, Pool!BlockIds, Pool!dynamicallyAllocated, Links, Heads, PoolPoints
<1>4. PoolThreads'
  BY <1>1, <1>2, ThreadsKeep
<1>5. \A c \in Pool!BlockIds : c # b => SameTo(u, c)
  <2>1. \A c : c # b => KindOf(block[u], pc[u], c) = "none"
    BY DEF KindOf
  <2>2. \A c : c # b => KindOf(None, p, c) = "none"
    BY KindIs
  <2> QED
    BY <2>1, <2>2, <1>2 DEF SameTo
<1>6. Once(b)' = Once(b)
  BY DEF Once, Pool!dynamicallyAllocated
<1>7. Becomes(Roles(b)', Roles(b), u, KindOf(None, p, b))
  BY <1>2, RolesBecome
<1>8. BlockFine(Roles(b)', Place(b)', freeListRefs'[b], Once(b)')
  BY <1>6, <1>7
<1>9. PoolBlocks'
  BY <1>1, <1>2, <1>5, <1>8, BlocksMove
<1>10. Taken(u)
  BY DEF Taken
<1> QED
  BY <1>3, <1>4, <1>9, <1>10 DEF PoolInv

(* A block that is not recycled is destroyed.                              *)
LEMMA PoolDelete ==
  ASSUME PoolInv, alive, NEW u \in Users, Pool!Delete(u)
  PROVE  PoolInv' /\ Taken(u)
<1>1. PoolTypes /\ PoolThreads /\ PoolList /\ PoolBlocks
  BY DEF PoolInv
<1>2. /\ pc[u] = Pool!Resting /\ block[u] # None
      /\ Pool!dynamicallyAllocated(block[u].addr) /\ ~recycles
      /\ block' = [block EXCEPT ![u] = None]
      /\ UNCHANGED <<recycles, alive, initialBlockPoolIndex, freeListHead, freeListNext,
         freeListRefs, pc>>
  BY DEF Pool!Delete, Pool!list
<1>3. block[u].addr \in Pool!BlockIds
  BY <1>1, <1>2 DEF PoolTypes
<1> PICK b \in Pool!BlockIds : b = block[u].addr
  BY <1>3
<1>4. allocated' = allocated \ {b} /\ Pool!dynamicallyAllocated(b) /\ Once(b) = TRUE
  BY <1>2 DEF Pool!Delete, Once
<1>5. BlockFine(Roles(b), Place(b), freeListRefs[b], Once(b))
  BY <1>1 DEF PoolBlocks
<1>6. Roles(b)[u] = "own"
  BY <1>2, RolesAre DEF KindOf
<1>7. Place(b) = "out"
  BY <1>5, <1>6 DEF BlockFine, Keeping
<1>8. b \notin Pool!OnList
  BY <1>7 DEF Place
<1>9. Pool!OnList' = Pool!OnList /\ Ranked(freeListHead, freeListNext)'
  BY <1>1, <1>2, ListStays DEF PoolList
<1>10. PoolList'
  BY <1>1, <1>2, <1>4, <1>8, <1>9 DEF PoolList, Pool!dynamicallyAllocated
<1>11. Place(b)' = "absent" /\ \A c \in Pool!BlockIds : c # b => Place(c)' = Place(c)
  BY <1>2, <1>4, <1>8, <1>9 DEF Place, Pool!dynamicallyAllocated
<1>12. \A c \in allocated' : c \in Pool!BlockIds /\ Pool!dynamicallyAllocated(c)
  BY <1>1, <1>4 DEF PoolTypes
<1> DEFINE p == Pool!Resting
<1>13. /\ PartAt(p.at) = "none" /\ p \in PoolPoints /\ p.at \notin {"pop", "push"}
       /\ pc' = [pc EXCEPT ![u] = p]
  BY <1>1, <1>2, RestingIs DEF PartAt, PoolTypes
<1> HIDE DEF p
<1>14. ASSUME NEW l, Becomes(l, Roles(b), u, "none")
       PROVE  BlockFine(l, Place(b)', freeListRefs'[b], Once(b))
  <2>1. BlockFine(l, "absent", freeListRefs[b], Once(b))
    BY <1>4, <1>5, <1>6, <1>14, FineDelete
  <2> QED
    BY <2>1, <1>2, <1>11
<1>15. KindOf(None, p, b) = "none"
  BY <1>13, KindIs
<1>16. /\ freeListRefs' \in [Pool!BlockIds -> [n : Nat, should : BOOLEAN]]
       /\ \A c : c # b => freeListRefs'[c] = freeListRefs[c]
  BY <1>1, <1>2 DEF PoolTypes
<1>17. \A l : Becomes(l, Roles(b), u, KindOf(None, p, b)) =>
          BlockFine(l, Place(b)', freeListRefs'[b], Once(b))
  BY <1>14, <1>15
<1>18. /\ UNCHANGED <<recycles, alive, initialBlockPoolIndex, freeListHead, freeListNext>>
       /\ block[u] # None /\ block[u].addr = b /\ pc[u] = Pool!Resting
       /\ block' = [block EXCEPT ![u] = None]
  BY <1>2
<1> QED
  BY <1>10, <1>11, <1>12, <1>13, <1>16, <1>17, <1>18, TakenBack

(* add(): the owner puts the block on the list, or leaves it to those who  *)
(* have references to it.                                                  *)
LEMMA PoolAdd ==
  ASSUME PoolInv, alive, NEW u \in Users, Pool!Add(u)
  PROVE  PoolInv' /\ Taken(u)
<1>1. PoolTypes /\ PoolThreads /\ PoolList /\ PoolBlocks
  BY DEF PoolInv
<1>2. /\ pc[u] = Pool!Resting /\ block[u] # None
      /\ recycles \/ ~Pool!dynamicallyAllocated(block[u].addr)
      /\ block' = [block EXCEPT ![u] = None]
      /\ UNCHANGED <<recycles, alive, initialBlockPoolIndex, freeListHead, freeListNext,
         allocated>>
  BY DEF Pool!Add
<1>3. block[u].addr \in Pool!BlockIds
  BY <1>1, <1>2 DEF PoolTypes
<1> PICK b \in Pool!BlockIds : b = block[u].addr
  BY <1>3
<1>4. Once(b) = FALSE /\ Once(b) \in BOOLEAN /\ ~Once(b)
  BY <1>2 DEF Once
<1>5. BlockFine(Roles(b), Place(b), freeListRefs[b], Once(b))
  BY <1>1 DEF PoolBlocks
<1>6. Roles(b)[u] = "own"
  BY <1>2, RolesAre DEF KindOf
<1>7. PoolList' /\ \A c : Place(c)' = Place(c)
  BY <1>1, <1>2, PlacesStay
<1>8. \A c \in allocated' : c \in Pool!BlockIds /\ Pool!dynamicallyAllocated(c)
  BY <1>1, <1>2 DEF PoolTypes
<1>9. freeListRefs[b] \in [n : Nat, should : BOOLEAN]
  BY <1>1 DEF PoolTypes
<1> DEFINE r == [freeListRefs[b] EXCEPT !.should = TRUE]
<1>10. Becomes(freeListRefs', freeListRefs, b, r)
  BY DEF Pool!Add, Becomes
<1>11. r \in [n : Nat, should : BOOLEAN] /\ r.n = freeListRefs[b].n /\ r.should = TRUE
  BY <1>9
<1> HIDE DEF r
<1>12. /\ freeListRefs' \in [Pool!BlockIds -> [n : Nat, should : BOOLEAN]]
       /\ freeListRefs'[b] = r /\ \A c : c # b => freeListRefs'[c] = freeListRefs[c]
  BY <1>1, <1>10, <1>11, RefsChange DEF PoolTypes
<1>13. CASE freeListRefs[b].n = 0
  <2> DEFINE p == [at |-> "add", node |-> b, seen |-> None, resume |-> FALSE]
  <2>1. pc' = [pc EXCEPT ![u] = p]
    BY <1>13 DEF Pool!Add, Pool!Go
  <2>2. p \in PoolPoints /\ p.at = "add" /\ p.node = b
    <3>1. p \in [at : AddPoints, node : Pool!BlockIds, seen : Heads, resume : {FALSE}]
      BY DEF AddPoints, Heads
    <3> QED
      BY <3>1 DEF PoolPoints
  <2> HIDE DEF p
  <2>3. KindOf(None, p, b) = "linking"
    BY <2>2, KindIs DEF PartAt
  <2>4. ASSUME NEW l, Becomes(l, Roles(b), u, "linking")
        PROVE  BlockFine(l, Place(b)', freeListRefs'[b], Once(b))
    <3>1. BlockFine(l, Place(b), r, Once(b))
      BY <1>4, <1>5, <1>6, <1>11, <1>13, <2>4, FineMark
    <3> QED
      BY <3>1, <1>7, <1>12
  <2> QED
    BY <1>2, <1>7, <1>8, <1>12, <2>1, <2>2, <2>3, <2>4, TakenBack
<1>14. CASE freeListRefs[b].n # 0
  <2>1. pc' = [pc EXCEPT ![u] = Pool!Resting]
    BY <1>1, <1>2, <1>14 DEF Pool!Add, PoolTypes
  <2>2. /\ PartAt(Pool!Resting.at) = "none" /\ Pool!Resting \in PoolPoints
        /\ Pool!Resting.at \notin {"pop", "push"}
    BY RestingIs DEF PartAt
  <2>3. KindOf(None, Pool!Resting, b) = "none"
    BY <2>2, KindIs
  <2>4. freeListRefs[b].n > 0
    BY <1>9, <1>14
  <2>5. ASSUME NEW l, Becomes(l, Roles(b), u, "none")
        PROVE  BlockFine(l, Place(b)', freeListRefs'[b], Once(b))
    <3>1. BlockFine(l, Place(b), r, Once(b))
      <4> DEFINE k == Roles(b)  place == Place(b)  ref == freeListRefs[b]  once == Once(b)
      <4>1. /\ BlockFine(k, place, ref, once) /\ once \in BOOLEAN /\ ~once
            /\ k[u] = "own" /\ ref.n > 0 /\ Becomes(l, k, u, "none")
            /\ r \in [n : Nat, should : BOOLEAN] /\ r.n = ref.n /\ r.should = TRUE
        BY <1>4, <1>5, <1>6, <1>11, <2>4, <2>5
      <4> HIDE DEF k, place, ref, once
      <4>2. BlockFine(l, place, r, once)
        BY <4>1, FineLeave
      <4> QED
        BY <4>2 DEF place, once
    <3> QED
      BY <3>1, <1>7, <1>12
  <2> QED
    BY <1>2, <1>7, <1>8, <1>12, <2>1, <2>2, <2>3, <2>5, TakenBack
<1> QED
  BY <1>13, <1>14

(* The block gets its successor and its reference of the list.             *)
LEMMA PoolAddLink ==
  ASSUME PoolInv, alive, NEW u \in Users, Pool!AddLink(u)
  PROVE  PoolInv'
<1>1. PoolTypes /\ PoolThreads /\ PoolList /\ PoolBlocks
  BY DEF PoolInv
<1>2. /\ pc[u].at = "link"
      /\ UNCHANGED <<block, recycles, alive, initialBlockPoolIndex, freeListHead, allocated>>
  BY DEF Pool!AddLink
<1>3. /\ block[u] = None /\ pc[u] \in PoolPoints
      /\ pc[u].node \in Pool!BlockIds /\ pc[u].seen \in Heads
  BY <1>1, <1>2, OnTheWay, RestingIs, PointTypes DEF AddPoints
<1> PICK b \in Pool!BlockIds : b = pc[u].node
  BY <1>3
<1> DEFINE r == [n |-> 1, should |-> FALSE]
           p == [pc[u] EXCEPT !.at = "push"]
<1>4. /\ Becomes(freeListRefs', freeListRefs, b, r)
      /\ Becomes(freeListNext', freeListNext, b, pc[u].seen)
      /\ Pool!Go(u, p)
  BY DEF Pool!AddLink, Becomes
<1>5. Resumed(p, pc[u], "push") /\ "push" \in AddPoints /\ pc[u].at \in AddPoints
  BY <1>2 DEF Resumed, AddPoints
<1>6. r \in [n : Nat, should : BOOLEAN] /\ r.n = 1 /\ r.should = FALSE
  OBVIOUS
<1> HIDE DEF r, p
<1>7. p \in PoolPoints /\ p.at = "push" /\ p.node = b /\ p.seen = pc[u].seen /\ p # Pool!Resting
  BY <1>3, <1>5, AddPointStays
<1>8. /\ freeListRefs' \in [Pool!BlockIds -> [n : Nat, should : BOOLEAN]]
      /\ freeListRefs'[b] = r /\ \A c : c # b => freeListRefs'[c] = freeListRefs[c]
  BY <1>1, <1>4, <1>6, RefsChange DEF PoolTypes
<1>9. /\ OthersKeep(u) /\ pc'[u] = p /\ pc' \in [Users -> PoolPoints] /\ block'[u] = None
  BY <1>1, <1>2, <1>3, <1>4, <1>7, Goes
<1>10. BlockFine(Roles(b), Place(b), freeListRefs[b], Once(b)) /\ Once(b) \in BOOLEAN
  BY <1>1 DEF PoolBlocks, Once, Pool!dynamicallyAllocated
<1>11. Roles(b)[u] = "linking"
  BY <1>2, <1>3, RolesAre, KindIs DEF PartAt
<1>12. Place(b) = "out" /\ freeListRefs[b].n = 0
  BY <1>10, <1>11 DEF BlockFine, Keeping
<1>13. /\ freeListNext' \in Links /\ Pool!OnList' = Pool!OnList
       /\ Ranked(freeListHead', freeListNext')
  <2>1. b \notin Reach(freeListHead, freeListNext)
    BY <1>12, OnListIs DEF Place
  <2>2. freeListHead \in Heads /\ freeListNext \in Links /\ Ranked(freeListHead, freeListNext)
    BY <1>1 DEF PoolTypes, PoolList
  <2>3. /\ freeListNext' \in Links /\ Ranked(freeListHead, freeListNext')
        /\ Reach(freeListHead, freeListNext') = Reach(freeListHead, freeListNext)
    BY <2>1, <2>2, <1>3, <1>4, ReachLink
  <2> QED
    BY <2>3, <1>2, OnListIs
<1>14. PoolList' /\ \A c : Place(c)' = Place(c)
  BY <1>1, <1>2, <1>13 DEF PoolList, Place, Pool!dynamicallyAllocated
<1>15. PoolTypes'
  BY <1>1, <1>2, <1>8, <1>9, <1>13
     DEF PoolTypes, Pool!BlockIds, Pool!dynamicallyAllocated, Links, Heads, PoolPoints
<1>16. PoolThreads'
  <2>1. ASSUME NEW v \in Users, v # u, pc[v].at \in {"pop", "push"}
        PROVE  pc[v].node # b
    <3>1. ASSUME pc[v].node = b PROVE FALSE
      <4>1. block[v] = None
        BY <1>1, <2>1, OnTheWay, RestingIs
      <4>2. Roles(b)[v] = PartAt(pc[v].at)
        BY <3>1, <4>1, RolesAre, KindIs
      <4>3. CASE pc[v].at = "pop"
        <5>1. Roles(b)[v] = "referring"
          BY <4>2, <4>3 DEF PartAt
        <5> QED
          BY <5>1, <1>10, <1>12, FineReferring
      <4>4. CASE pc[v].at = "push"
        <5>1. Roles(b)[v] = "pushing"
          BY <4>2, <4>4 DEF PartAt
        <5> QED
          BY <5>1, <2>1, <1>10, <1>11 DEF BlockFine, Keeping
      <4> QED
        BY <4>3, <4>4, <2>1
    <3> QED
      BY <3>1
  <2>2. ASSUME NEW v \in Users
        PROVE  /\ pc'[v] # Pool!Resting => block'[v] = None
               /\ pc'[v].at = "pop" => pc'[v].next = freeListNext'[pc'[v].node]
               /\ pc'[v].at = "push" => pc'[v].seen = freeListNext'[pc'[v].node]
    <3>1. CASE v = u
      <4>1. freeListNext'[b] = pc[u].seen
        BY <1>1, <1>4 DEF PoolTypes, Links, Becomes
      <4> QED
        BY <3>1, <4>1, <1>7, <1>9
    <3>2. CASE v # u
      <4>1. pc'[v] = pc[v] /\ block'[v] = block[v]
        BY <3>2, <1>9 DEF OthersKeep
      <4>2. pc[v].at \in {"pop", "push"} => freeListNext'[pc[v].node] = freeListNext[pc[v].node]
        BY <3>2, <2>1, <1>1, <1>4, PointTypes DEF PoolTypes, Links, Becomes
      <4> QED
        BY <4>1, <4>2, <1>1 DEF PoolThreads
    <3> QED
      BY <3>1, <3>2
  <2> QED
    BY <2>2 DEF PoolThreads, Pool!Resting
<1>17. \A c \in Pool!BlockIds : c # b => SameTo(u, c)
  <2>1. \A c : c # b => KindOf(block[u], pc[u], c) = "none"
        /\ KindOf(block'[u], pc'[u], c) = "none"
    BY <1>3, <1>7, <1>9, KindIs
  <2> QED
    BY <2>1, <1>8, <1>14 DEF SameTo
<1>18. Once(b)' = Once(b)
  BY <1>2 DEF Once, Pool!dynamicallyAllocated
<1>19. Becomes(Roles(b)', Roles(b), u, "pushing")
  <2>1. KindOf(block'[u], pc'[u], b) = "pushing"
    BY <1>7, <1>9, KindIs DEF PartAt
  <2> QED
    BY <2>1, <1>9, RolesBecome
<1>20. BlockFine(Roles(b)', Place(b)', freeListRefs'[b], Once(b)')
  <2>1. BlockFine(Roles(b)', Place(b), r, Once(b))
    BY ZenonT(30), <1>6, <1>10, <1>11, <1>19, FineLink
  <2> QED
    BY <2>1, <1>8, <1>14, <1>18
<1>21. PoolBlocks'
  BY <1>1, <1>2, <1>9, <1>17, <1>20, BlocksMove
<1> QED
  BY <1>2, <1>14, <1>15, <1>16, <1>21 DEF PoolInv

(* After add() its thread rests, or goes on with the head it saw.          *)
Resumes(p) == IF p.resume THEN Tried(p.head) ELSE Pool!Resting

(* Where a thread goes after add().                                        *)
LEMMA ResumesAt ==
  ASSUME NEW p \in PoolPoints, p.at \in AddPoints
  PROVE  /\ Resumes(p) \in PoolPoints /\ Resumes(p).at \notin {"pop", "push"}
         /\ PartAt(Resumes(p).at) = "none"
<1>1. CASE p.resume
  BY <1>1, PointTypes, TriedPoint DEF Resumes
<1>2. CASE ~p.resume
  BY <1>2, RestingIs DEF Resumes, PartAt
<1> QED
  BY <1>1, <1>2

(* A thread goes there.                                                    *)
LEMMA AfterAddGoes ==
  ASSUME NEW u \in Users, Pool!AfterAdd(u)
  PROVE  Pool!Go(u, Resumes(pc[u]))
BY DEF Pool!AfterAdd, Pool!TryNode, Resumes, Tried

(* The block becomes the head, if the head is still the successor it has   *)
(* been given.                                                             *)
LEMMA PoolAddPush ==
  ASSUME PoolInv, alive, NEW u \in Users, Pool!AddPush(u)
  PROVE  PoolInv'
<1>1. PoolTypes /\ PoolThreads /\ PoolList /\ PoolBlocks
  BY DEF PoolInv
<1>2. /\ pc[u].at = "push"
      /\ UNCHANGED <<block, recycles, alive, initialBlockPoolIndex, freeListRefs, freeListNext,
         allocated>>
  BY DEF Pool!AddPush
<1>3. /\ block[u] = None /\ pc[u] \in PoolPoints /\ pc[u].node \in Pool!BlockIds
      /\ pc[u].seen = freeListNext[pc[u].node]
  BY <1>1, <1>2, OnTheWay, RestingIs, PointTypes DEF PoolThreads
<1> PICK b \in Pool!BlockIds : b = pc[u].node
  BY <1>3
<1>4. freeListHead \in Heads /\ freeListNext \in Links /\ "retry" \in AddPoints
      /\ pc[u].at \in AddPoints
  BY <1>1, <1>2 DEF PoolTypes, AddPoints
<1>5. CASE freeListHead # pc[u].seen
  <2> DEFINE p == [pc[u] EXCEPT !.at = "retry", !.seen = freeListHead]
  <2>1. Pool!Go(u, p) /\ UNCHANGED freeListHead
    BY <1>5 DEF Pool!AddPush
  <2>2. Renewed(p, pc[u], "retry", freeListHead)
    BY DEF Renewed
  <2> HIDE DEF p
  <2>3. p \in PoolPoints /\ p.at = "retry" /\ p.node = b
    BY <1>3, <1>4, <2>2, AddPointGoes
  <2>4. \A c : KindOf(block[u], p, c) = KindOf(block[u], pc[u], c)
    BY <1>2, <1>3, <2>3 DEF KindOf, PartAt
  <2> QED
    BY <1>2, <1>3, <2>1, <2>3, <2>4, OnlyGoes
<1>6. CASE freeListHead = pc[u].seen
  <2> DEFINE p == Resumes(pc[u])
  <2>1. Pool!Go(u, p) /\ freeListHead' = b
    BY <1>6, AfterAddGoes DEF Pool!AddPush
  <2>2. p \in PoolPoints /\ p.at \notin {"pop", "push"} /\ PartAt(p.at) = "none"
    BY <1>3, <1>4, ResumesAt
  <2> HIDE DEF p
  <2>3. BlockFine(Roles(b), Place(b), freeListRefs[b], Once(b)) /\ Once(b) \in BOOLEAN
    BY <1>1 DEF PoolBlocks, Once, Pool!dynamicallyAllocated
  <2>4. Roles(b)[u] = "pushing"
    BY <1>2, <1>3, RolesAre, KindIs DEF PartAt
  <2>5. Place(b) = "out"
    BY <2>3, <2>4, FinePusher
  <2>6. b \notin Pool!OnList
    BY <2>5 DEF Place
  <2>7. /\ freeListHead' \in Heads /\ Pool!OnList' = Pool!OnList \cup {b}
        /\ Ranked(freeListHead', freeListNext')
    BY <1>1, <1>2, <1>3, <1>4, <1>6, <2>1, <2>6, ReachPush, OnListIs DEF PoolList, Heads
  <2>8. IF Pool!dynamicallyAllocated(b) THEN b \in allocated ELSE b <= initialBlockPoolIndex
    <3>1. b > initialBlockPoolIndex \/ b <= initialBlockPoolIndex
      BY <1>1, PoolConstants DEF PoolTypes
    <3> QED
      BY <3>1, <2>5 DEF Place, Pool!dynamicallyAllocated
  <2>9. PoolList'
    BY <1>1, <1>2, <2>7, <2>8 DEF PoolList, Pool!dynamicallyAllocated
  <2>10. Place(b)' = "list" /\ \A c : c # b => Place(c)' = Place(c)
    BY <1>2, <2>7 DEF Place, Pool!dynamicallyAllocated
  <2>11. KindOf(None, p, b) = "none"
    BY <2>2, KindIs
  <2>12. ASSUME NEW l, Becomes(l, Roles(b), u, "none")
         PROVE  BlockFine(l, Place(b)', freeListRefs'[b], Once(b))
    <3>1. BlockFine(l, "list", freeListRefs[b], Once(b))
      BY <2>3, <2>4, <2>12, FinePush
    <3> QED
      BY <3>1, <1>2, <2>10
  <2>13. freeListRefs' \in [Pool!BlockIds -> [n : Nat, should : BOOLEAN]]
    BY <1>1, <1>2 DEF PoolTypes
  <2> QED
    BY <1>2, <1>3, <2>1, <2>2, <2>7, <2>9, <2>10, <2>11, <2>12, <2>13, PartChanges
<1> QED
  BY <1>5, <1>6

(* The head was another: the reference of the list is taken back, and the  *)
(* block added again, or left to those who have taken references           *)
(* meanwhile.                                                              *)
LEMMA PoolAddRetry ==
  ASSUME PoolInv, alive, NEW u \in Users, Pool!AddRetry(u)
  PROVE  PoolInv'
<1>1. PoolTypes /\ PoolThreads /\ PoolList /\ PoolBlocks
  BY DEF PoolInv
<1>2. /\ pc[u].at = "retry"
      /\ UNCHANGED <<block, recycles, alive, initialBlockPoolIndex, freeListHead, freeListNext,
         allocated>>
  BY DEF Pool!AddRetry
<1>3. block[u] = None /\ pc[u] \in PoolPoints /\ pc[u].node \in Pool!BlockIds
  BY <1>1, <1>2, OnTheWay, RestingIs, PointTypes
<1> PICK b \in Pool!BlockIds : b = pc[u].node
  BY <1>3
<1>4. freeListHead' \in Heads /\ "link" \in AddPoints /\ pc[u].at \in AddPoints
  BY <1>1, <1>2 DEF PoolTypes, AddPoints
<1>5. Roles(b)[u] = "pushing"
  BY <1>2, <1>3, RolesAre, KindIs DEF PartAt
<1>6. BlockFine(Roles(b), Place(b), freeListRefs[b], Once(b)) /\ Once(b) \in BOOLEAN
  BY <1>1 DEF PoolBlocks, Once, Pool!dynamicallyAllocated
<1>7. freeListRefs[b] \in [n : Nat, should : BOOLEAN] /\ freeListRefs[b].n - 1 \in Nat
  <2>1. freeListRefs[b].n - 1 \in Nat
    BY <1>5, <1>6, FinePusher
  <2> QED
    BY <2>1, <1>1 DEF PoolTypes
<1> DEFINE r == [n |-> freeListRefs[b].n - 1, should |-> TRUE]
<1>8. Becomes(freeListRefs', freeListRefs, b, r)
  BY DEF Pool!AddRetry, Becomes
<1>9. r \in [n : Nat, should : BOOLEAN] /\ r.n = freeListRefs[b].n - 1 /\ r.should = TRUE
  BY <1>7
<1> HIDE DEF r
<1>10. /\ freeListRefs' \in [Pool!BlockIds -> [n : Nat, should : BOOLEAN]]
       /\ freeListRefs'[b] = r /\ \A c : c # b => freeListRefs'[c] = freeListRefs[c]
  BY <1>1, <1>8, <1>9, RefsChange DEF PoolTypes
<1>11. PoolList' /\ \A c : Place(c)' = Place(c)
  BY <1>1, <1>2, PlacesStay
<1>12. CASE freeListRefs[b].n = 1
  <2> DEFINE p == [pc[u] EXCEPT !.at = "link"]
  <2>1. Pool!Go(u, p) /\ Resumed(p, pc[u], "link")
    BY <1>12 DEF Pool!AddRetry, Resumed
  <2> HIDE DEF p
  <2>2. p \in PoolPoints /\ p.at = "link" /\ p.node = b
    BY <1>3, <1>4, <2>1, AddPointStays
  <2>3. KindOf(None, p, b) = "linking"
    BY <2>2, KindIs DEF PartAt
  <2>4. r.n = 0
    BY <1>9, <1>12
  <2>5. ASSUME NEW l, Becomes(l, Roles(b), u, "linking")
        PROVE  BlockFine(l, Place(b)', freeListRefs'[b], Once(b))
    <3>1. BlockFine(l, Place(b), r, Once(b))
      BY <1>5, <1>6, <1>9, <1>12, <2>4, <2>5, FineRetry
    <3> QED
      BY <3>1, <1>10, <1>11
  <2> QED
    BY <1>2, <1>3, <1>4, <1>10, <1>11, <2>1, <2>2, <2>3, <2>5, PartChanges
<1>13. CASE freeListRefs[b].n # 1
  <2> DEFINE p == Resumes(pc[u])
  <2>1. Pool!Go(u, p)
    BY <1>13, AfterAddGoes DEF Pool!AddRetry
  <2>2. p \in PoolPoints /\ p.at \notin {"pop", "push"} /\ PartAt(p.at) = "none"
    BY <1>3, <1>4, ResumesAt
  <2> HIDE DEF p
  <2>3. KindOf(None, p, b) = "none"
    BY <2>2, KindIs
  <2>4. freeListRefs[b].n > 1
    BY <1>7, <1>13
  <2>5. ASSUME NEW l, Becomes(l, Roles(b), u, "none")
        PROVE  BlockFine(l, Place(b)', freeListRefs'[b], Once(b))
    <3>1. BlockFine(l, Place(b), r, Once(b))
      <4> DEFINE k == Roles(b)  place == Place(b)  ref == freeListRefs[b]  once == Once(b)
      <4>1. /\ BlockFine(k, place, ref, once) /\ once \in BOOLEAN /\ k[u] = "pushing" /\ ref.n > 1
            /\ Becomes(l, k, u, "none") /\ r.n = ref.n - 1 /\ r.should = TRUE
            /\ r \in [n : Nat, should : BOOLEAN]
        BY <1>5, <1>6, <1>9, <2>4, <2>5
      <4> HIDE DEF k, place, ref, once
      <4>2. BlockFine(l, place, r, once)
        BY <4>1, FineRetryLeave
      <4> QED
        BY <4>2 DEF place, once
    <3> QED
      BY <3>1, <1>10, <1>11
  <2> QED
    BY <1>2, <1>3, <1>4, <1>10, <1>11, <2>1, <2>2, <2>3, <2>5, PartChanges
<1> QED
  BY <1>12, <1>13

(* A block while no call is under way.                                     *)
LEMMA QuietFine ==
  ASSUME NEW k, NEW place, NEW ref, NEW once \in BOOLEAN, BlockFine(k, place, ref, once),
         \A u \in Users : k[u] \in {"own", "none"}
  PROVE  /\ ref.n = IF place = "list" THEN 1 ELSE 0
         /\ ref.should = FALSE /\ ref \in [n : Nat, should : BOOLEAN]
         /\ place = "out" => \E u \in Users : k[u] = "own"
<1>1. Referring(k) = {}
  BY DEF Referring
<1>2. Cardinality(Referring(k)) = 0
  BY <1>1, FS_EmptySet
<1>3. ~KeptAs(k, {"popped"}) /\ ~KeptAs(k, {"pushing"})
  BY DEF KeptAs
<1>4. ref.n = IF place = "list" THEN 1 ELSE 0
  BY <1>2, <1>3 DEF BlockFine, Tokens
<1>5. place = "out" => KeptAs(k, Keeping)
  BY <1>4 DEF BlockFine
<1>6. place = "out" => \E u \in Users : k[u] = "own" /\ k[u] \in Keeping
  BY <1>5 DEF KeptAs, Keeping
<1>7. ref.should = FALSE
  <2>1. CASE place = "out"
    <3>1. PICK u \in Users : k[u] = "own" /\ k[u] \in Keeping
      BY <2>1, <1>6
    <3> QED
      BY <3>1 DEF BlockFine
  <2>2. CASE place # "out"
    BY <2>2 DEF BlockFine
  <2> QED
    BY <2>1, <2>2
<1> QED
  BY <1>4, <1>6, <1>7 DEF BlockFine

(* Without a call under way a thread owns a block or has nothing to do     *)
(* with it.                                                                *)
LEMMA QuietRoles ==
  ASSUME Pool!Quiet, NEW b, NEW u \in Users
  PROVE  /\ Roles(b)[u] = "own" <=> block[u] # None /\ block[u].addr = b
         /\ Roles(b)[u] \in {"own", "none"}
<1>1. Roles(b)[u] = KindOf(block[u], pc[u], b)
  BY RolesAre
<1>2. pc[u] = Pool!Resting /\ PartAt(pc[u].at) = "none"
  BY RestingIs DEF Pool!Quiet, PartAt
<1> QED
  BY <1>1, <1>2, KindIs DEF KindOf

(* The destructor finds every allocated block on the list.                 *)
LEMMA PoolDestroy ==
  ASSUME PoolInv, Pool!Destroy
  PROVE  PoolInv' /\ UNCHANGED block
<1>1. alive /\ PoolTypes /\ PoolThreads /\ PoolList /\ PoolBlocks
  BY DEF PoolInv, Pool!Destroy
<1>2. /\ Pool!Quiet /\ \A u \in Users : block[u] = None
      /\ alive' = FALSE /\ allocated' = allocated \ Pool!OnList
      /\ UNCHANGED <<block, recycles, initialBlockPoolIndex, freeListHead, freeListRefs,
         freeListNext, pc>>
  BY DEF Pool!Destroy, Pool!list
<1>3. ASSUME NEW b \in allocated PROVE b \in Pool!OnList
  <2>1. b \in Pool!BlockIds /\ Pool!dynamicallyAllocated(b)
    BY <1>1 DEF PoolTypes
  <2>2. BlockFine(Roles(b), Place(b), freeListRefs[b], Once(b)) /\ Once(b) \in BOOLEAN
    BY <1>1, <2>1 DEF PoolBlocks, Once, Pool!dynamicallyAllocated
  <2>3. \A u \in Users : Roles(b)[u] \in {"own", "none"} /\ Roles(b)[u] # "own"
    BY <1>2, QuietRoles
  <2>4. Place(b) # "out"
    BY <2>2, <2>3, QuietFine
  <2> QED
    BY <2>1, <2>4 DEF Place
<1>4. allocated' = {}
  BY <1>2, <1>3
<1>5. PoolTypes'
  BY <1>1, <1>2, <1>4 DEF PoolTypes, Pool!BlockIds, Pool!dynamicallyAllocated, Links, Heads,
     PoolPoints
<1>6. PoolAtEnd'
  BY <1>2, <1>4 DEF PoolAtEnd, Pool!Quiet, Pool!Resting
<1> QED
  BY <1>2, <1>5, <1>6 DEF PoolInv

(* All blocks are in the initial pool, or do not exist.                    *)
LEMMA PoolStart ==
  ASSUME Pool!Init
  PROVE  PoolInv
<1> USE PoolConstants DEF Pool!Init
<1>1. PoolTypes
  BY RestingIs DEF PoolTypes, Heads, Links, Pool!NoRefs
<1>2. PoolThreads
  BY RestingIs DEF PoolThreads
<1>3. Pool!OnList = {} /\ Ranked(freeListHead, freeListNext)
  BY <1>1, ReachNone, OnListIs DEF PoolTypes
<1>4. PoolList
  BY <1>3 DEF PoolList
<1>5. ASSUME NEW b \in Pool!BlockIds
      PROVE  BlockFine(Roles(b), Place(b), freeListRefs[b], Once(b))
  <2>1. ASSUME NEW u \in Users PROVE Roles(b)[u] = "none"
    <3>1. block[u] = None /\ pc[u] = Pool!Resting
      OBVIOUS
    <3>2. PartAt(pc[u].at) = "none"
      BY <3>1, RestingIs DEF PartAt
    <3> QED
      BY <3>1, <3>2, RolesAre, KindIs
  <2>2. Roles(b) \in [Users -> Kinds]
    BY RolesAre
  <2> DEFINE k == Roles(b)
  <2> HIDE DEF k
  <2>3. Referring(k) = {} /\ ~KeptAs(k, Keeping) /\ ~KeptAs(k, {"popped"})
        /\ ~KeptAs(k, {"pushing"})
        /\ \A u \in Users : k[u] \notin Keeping
    BY <2>1 DEF Referring, KeptAs, Keeping, k
  <2>4. IsFiniteSet(Referring(k)) /\ Cardinality(Referring(k)) = 0
    BY <2>3, FS_EmptySet
  <2>5. Place(b) \in {"untouched", "absent"}
    <3>1. b > initialBlockPoolIndex
      BY DEF Pool!BlockIds
    <3> QED
      BY <3>1, <1>3 DEF Place
  <2>6. Tokens(k, Place(b)) = 0
    BY <2>3, <2>5 DEF Tokens
  <2>7. freeListRefs[b] = Pool!NoRefs
    OBVIOUS
  <2>8. /\ freeListRefs[b] \in [n : Nat, should : BOOLEAN]
        /\ freeListRefs[b].n = 0 /\ freeListRefs[b].should = FALSE
    <3>1. Pool!NoRefs \in [n : Nat, should : BOOLEAN] /\ Pool!NoRefs.n = 0
          /\ Pool!NoRefs.should = FALSE
      BY DEF Pool!NoRefs
    <3> QED
      BY <3>1, <2>7
  <2>9. \A u \in Users : k[u] = "none"
    BY <2>1 DEF k
  <2>10. BlockFine(k, Place(b), freeListRefs[b], Once(b))
    BY <2>2, <2>3, <2>4, <2>5, <2>6, <2>8, <2>9 DEF BlockFine, k
  <2> QED
    BY <2>10 DEF k
<1>6. PoolBlocks
  BY <1>5 DEF PoolBlocks
<1> QED
  BY <1>1, <1>2, <1>4, <1>6 DEF PoolInv

(* Each step keeps the invariant, and does what the contract allows.       *)
LEMMA PoolStep ==
  ASSUME PoolInv, Pool!Next
  PROVE  /\ PoolInv'
         /\ \/ UNCHANGED block
            \/ \E u \in Users : Taken(u)
                 \/ \E b \in Pool!BlockIds : Given(u, [addr |-> b, len |-> 1])
<1>1. CASE Pool!Destroy
  BY <1>1, PoolDestroy
<1>2. ASSUME NEW u \in Users,
             \/ Pool!CheckPool(u) \/ Pool!ClaimFromPool(u)
             \/ Pool!LoadHead(u) \/ Pool!IncRefs(u) \/ Pool!LoadNext(u) \/ Pool!Pop(u)
             \/ Pool!Popped(u) \/ Pool!Unref(u)
             \/ Pool!Create(u) \/ Pool!Delete(u)
             \/ Pool!Add(u) \/ Pool!AddLoad(u) \/ Pool!AddLink(u) \/ Pool!AddPush(u)
                  \/ Pool!AddRetry(u)
      PROVE  /\ PoolInv'
             /\ \/ UNCHANGED block
                \/ Taken(u) \/ \E b \in Pool!BlockIds : Given(u, [addr |-> b, len |-> 1])
  <2>1. alive
    <3>1. ASSUME ~alive PROVE FALSE
      <4>1. block[u] = None /\ pc[u].at = "rest"
        BY <3>1, RestingIs DEF PoolInv, PoolAtEnd
      <4> QED
        BY <1>2, <3>1, <4>1
           DEF Pool!CheckPool, Pool!ClaimFromPool, Pool!LoadHead, Pool!IncRefs, Pool!LoadNext,
           Pool!Pop,
               Pool!Popped, Pool!Unref, Pool!Create, Pool!Delete, Pool!Add, Pool!AddLoad,
               Pool!AddLink,
               Pool!AddPush, Pool!AddRetry
    <3> QED
      BY <3>1
  <2>2. CASE Pool!CheckPool(u)
    BY <2>1, <2>2, PoolCheckPool DEF Pool!CheckPool
  <2>3. CASE Pool!ClaimFromPool(u)
    BY <2>1, <2>3, PoolClaimFromPool
  <2>4. CASE Pool!LoadHead(u)
    BY <2>1, <2>4, PoolLoadHead DEF Pool!LoadHead
  <2>5. CASE Pool!IncRefs(u)
    BY <2>1, <2>5, PoolIncRefs DEF Pool!IncRefs
  <2>6. CASE Pool!LoadNext(u)
    BY <2>1, <2>6, PoolLoadNext DEF Pool!LoadNext
  <2>7. CASE Pool!Pop(u)
    BY <2>1, <2>7, PoolPop DEF Pool!Pop
  <2>8. CASE Pool!Popped(u)
    BY <2>1, <2>8, PoolPopped
  <2>9. CASE Pool!Unref(u)
    BY <2>1, <2>9, PoolUnref DEF Pool!Unref
  <2>10. CASE Pool!Create(u)
    BY <2>1, <2>10, PoolCreate
  <2>11. CASE Pool!Delete(u)
    BY <2>1, <2>11, PoolDelete
  <2>12. CASE Pool!Add(u)
    BY <2>1, <2>12, PoolAdd
  <2>13. CASE Pool!AddLoad(u)
    BY <2>1, <2>13, PoolAddLoad DEF Pool!AddLoad
  <2>14. CASE Pool!AddLink(u)
    BY <2>1, <2>14, PoolAddLink DEF Pool!AddLink
  <2>15. CASE Pool!AddPush(u)
    BY <2>1, <2>15, PoolAddPush DEF Pool!AddPush
  <2>16. CASE Pool!AddRetry(u)
    BY <2>1, <2>16, PoolAddRetry DEF Pool!AddRetry
  <2> QED
    BY <1>2, <2>2, <2>3, <2>4, <2>5, <2>6, <2>7, <2>8, <2>9, <2>10, <2>11, <2>12, <2>13, <2>14,
       <2>15, <2>16
<1> QED
  BY <1>1, <1>2 DEF Pool!Next

(* Types follow from the invariant.                                        *)
LEMMA PoolTypeCorrect ==
  ASSUME PoolInv
  PROVE  Pool!TypeOK
BY DEF PoolInv, PoolTypes, Pool!TypeOK, Heads, Links

(* No block is lost, none is in two places, and the counts are right.      *)
LEMMA PoolAccounts ==
  ASSUME PoolInv
  PROVE  Pool!Accounted
<1>1. PoolTypes
  BY DEF PoolInv
<1>2. ASSUME Pool!Quiet, alive
      PROVE  /\ Pool!Existing = Pool!Owned \cup Pool!OnList \cup Pool!Untouched
             /\ Pool!Owned \cap Pool!OnList = {}
             /\ \A b \in Pool!BlockIds :
                  freeListRefs[b] = IF b \in Pool!OnList THEN [n |-> 1, should |-> FALSE]
                  ELSE Pool!NoRefs
  <2>1. PoolThreads /\ PoolList /\ PoolBlocks
    BY <1>2 DEF PoolInv
  <2>2. ASSUME NEW b \in Pool!BlockIds
        PROVE  /\ freeListRefs[b].n = IF Place(b) = "list" THEN 1 ELSE 0
               /\ freeListRefs[b].should = FALSE
                    /\ freeListRefs[b] \in [n : Nat, should : BOOLEAN]
               /\ b \in Pool!Owned <=> Place(b) = "out"
    <3>1. BlockFine(Roles(b), Place(b), freeListRefs[b], Once(b)) /\ Once(b) \in BOOLEAN
      BY <2>1 DEF PoolBlocks, Once, Pool!dynamicallyAllocated
    <3>2. \A u \in Users : Roles(b)[u] \in {"own", "none"}
      BY <1>2, QuietRoles
    <3>3. /\ freeListRefs[b].n = IF Place(b) = "list" THEN 1 ELSE 0
          /\ freeListRefs[b].should = FALSE /\ freeListRefs[b] \in [n : Nat, should : BOOLEAN]
          /\ Place(b) = "out" => \E u \in Users : Roles(b)[u] = "own"
      <4> DEFINE k == Roles(b)  place == Place(b)  ref == freeListRefs[b]  once == Once(b)
      <4>1. BlockFine(k, place, ref, once) /\ once \in BOOLEAN
            /\ \A u \in Users : k[u] \in {"own", "none"}
        BY <3>1, <3>2
      <4> HIDE DEF k, place, ref, once
      <4>2. /\ ref.n = IF place = "list" THEN 1 ELSE 0
            /\ ref.should = FALSE /\ ref \in [n : Nat, should : BOOLEAN]
            /\ place = "out" => \E u \in Users : k[u] = "own"
        BY <4>1, QuietFine
      <4> QED
        BY <4>2 DEF k, place, ref, once
    <3>4. Place(b) # "out" => \A u \in Users : Roles(b)[u] # "own"
      BY <3>1 DEF BlockFine, Keeping
    <3>5. b \in Pool!Owned <=> \E u \in Users : Roles(b)[u] = "own"
      <4>1. \A u \in Users : Roles(b)[u] = "own" <=> block[u] # None /\ block[u].addr = b
        BY <1>2, QuietRoles
      <4> QED
        BY <4>1 DEF Pool!Owned
    <3> QED
      BY <3>3, <3>4, <3>5
  <2>3. /\ Pool!Owned \subseteq Pool!BlockIds /\ Pool!OnList \subseteq Pool!BlockIds
        /\ Pool!Existing \subseteq Pool!BlockIds /\ Pool!Untouched \subseteq Pool!BlockIds
    <3>1. Pool!Owned \subseteq Pool!BlockIds
      BY <1>1 DEF Pool!Owned, PoolTypes
    <3>2. 1 .. initialBlockPoolSize \subseteq Pool!BlockIds
      BY PoolConstants
    <3> QED
      BY <3>1, <3>2, <1>1 DEF Pool!OnList, Pool!Existing, Pool!Untouched, PoolTypes
  <2>4. ASSUME NEW b \in Pool!BlockIds
        PROVE  b \in Pool!Existing <=> b \in Pool!Owned \cup Pool!OnList \cup Pool!Untouched
    <3>1. b \in 1 .. initialBlockPoolSize <=> ~Pool!dynamicallyAllocated(b)
      BY PoolConstants DEF Pool!dynamicallyAllocated
    <3>2. b \in allocated => Pool!dynamicallyAllocated(b)
      BY <1>1 DEF PoolTypes
    <3>3. b \in Pool!Existing <=> (Pool!dynamicallyAllocated(b) => b \in allocated)
      BY <3>1, <3>2 DEF Pool!Existing
    <3>4. b \in Pool!Untouched <=> ~Pool!dynamicallyAllocated(b) /\ b > initialBlockPoolIndex
      BY <3>1 DEF Pool!Untouched
    <3>5. b \in Pool!OnList => (Pool!dynamicallyAllocated(b) => b \in allocated)
      BY <2>1 DEF PoolList
    <3>6. Place(b) = "out" => b \notin Pool!OnList
      BY DEF Place
    <3> QED
      BY <3>3, <3>4, <3>5, <3>6, <2>2 DEF Place
  <2>5. Pool!Owned \cap Pool!OnList = {}
    BY <2>2, <2>3 DEF Place
  <2>6. ASSUME NEW b \in Pool!BlockIds
        PROVE  freeListRefs[b] = IF b \in Pool!OnList THEN [n |-> 1, should |-> FALSE]
               ELSE Pool!NoRefs
    <3>1. b \in Pool!OnList <=> Place(b) = "list"
      BY DEF Place
    <3> QED
      BY <2>2, <3>1 DEF Pool!NoRefs
  <2>7. Pool!Existing = Pool!Owned \cup Pool!OnList \cup Pool!Untouched
    BY <2>3, <2>4
  <2> QED
    BY <2>5, <2>6, <2>7
<1>3. ASSUME NEW u \in Users, pc[u].at = "popped"
      PROVE  ~freeListRefs[pc[u].node].should
  <2>1. alive
    BY <1>3, RestingIs DEF PoolInv, PoolAtEnd
  <2>2. PoolThreads /\ PoolBlocks
    BY <2>1 DEF PoolInv
  <2>3. block[u] = None /\ pc[u].node \in Pool!BlockIds
    BY <1>1, <1>3, <2>2, OnTheWay, RestingIs, PointTypes
  <2> DEFINE b == pc[u].node
  <2>4. BlockFine(Roles(b), Place(b), freeListRefs[b], Once(b)) /\ Once(b) \in BOOLEAN
    BY <2>2, <2>3 DEF PoolBlocks, Once, Pool!dynamicallyAllocated
  <2>5. Roles(b)[u] = "popped"
    BY <1>3, <2>3, RolesAre, KindIs DEF PartAt
  <2> QED
    BY <2>4, <2>5, FinePopper
<1>4. ~alive => allocated = {}
  BY DEF PoolInv, PoolAtEnd
<1> QED
  BY <1>2, <1>3, <1>4 DEF Pool!Accounted

(* Regions of different pages are apart, as addresses.                     *)
LEMMA PagesDiffer ==
  ASSUME NEW S \in Nat, NEW p \in Nat, NEW q \in Nat, p < q,
         NEW a \in Nat, NEW n \in Nat, a + n <= S, NEW b \in Nat
  PROVE  p * S + a + n <= q * S + b
<1>1. PICK d \in Nat : q = p + 1 + d
  <2>1. q - p - 1 \in Nat
    OBVIOUS
  <2> QED
    BY <2>1
<1>2. q * S = p * S + S + d * S
  BY <1>1
<1>3. p * S \in Nat /\ d * S \in Nat
  BY <1>1
<1> QED
  BY <1>2, <1>3

(* The memory of the users as the contract sees it.                        *)
Seen == IF which = "pages" THEN [u \in Users |-> Paged!Flat(block[u])] ELSE block
AllSizes == CacheSizes \cup ArenaSizes \cup PageSizes \cup {1}

(* Memory that is apart from all other is what the contract lets one have. *)
LEMMA ContractGives ==
  ASSUME NEW u \in Users, NEW a \in Int, NEW n \in AllSizes,
         Seen[u] = None, Becomes(Seen', Seen, u, [addr |-> a, len |-> n]),
         DOMAIN Seen = Users,
         \A v \in Users \ {u} : Seen[v] # None =>
           (a .. a + n - 1) \cap (Seen[v].addr .. Seen[v].addr + Seen[v].len - 1) = {}
  PROVE  Contract!Next
<1>1. Seen'[u] = [addr |-> a, len |-> n]
  BY DEF Becomes
<1>2. Contract!Block = [addr : Int, len : AllSizes]
  BY DEF Contract!Block, AllSizes
<1>3. [addr |-> a, len |-> n] \in Contract!Block
  BY <1>2
<1>4. Contract!Allocate(u, [addr |-> a, len |-> n])
  BY DEF Contract!Allocate, Contract!ApartFromOthers, Contract!Apart, Contract!Span, Seen, Becomes
<1>5. Contract!Allocate(u, Seen'[u]) /\ Seen'[u] \in Contract!Block
  BY <1>1, <1>3, <1>4
<1> QED
  BY <1>5 DEF Contract!Next, Seen

(* Memory that goes back is what the contract lets one give back.          *)
LEMMA ContractTakes ==
  ASSUME NEW u \in Users, Seen[u] # None, Seen' = [Seen EXCEPT ![u] = None]
  PROVE  Contract!Next
<1>1. Contract!Deallocate(u)
  BY DEF Contract!Deallocate, Seen
<1> QED
  BY <1>1 DEF Contract!Next

(* What the steps of the allocators do, seen so.                           *)
LEMMA SeenGiven ==
  ASSUME which # "pages", which' = which, DOMAIN block = Users,
         NEW u \in Users, NEW a \in Int, NEW n \in AllSizes, Given(u, [addr |-> a, len |-> n])
  PROVE  Contract!Next
<1>1. Seen = block /\ Seen' = block'
  BY DEF Seen
<1>2. /\ block[u] = None /\ Becomes(block', block, u, [addr |-> a, len |-> n])
      /\ \A v \in Users \ {u} : block[v] # None =>
           (a .. a + n - 1) \cap (block[v].addr .. block[v].addr + block[v].len - 1) = {}
  BY DEF Given, Becomes
<1> QED
  BY <1>1, <1>2, ContractGives

(* A user gives memory back, of all allocators but that of pages ...       *)
LEMMA SeenTaken ==
  ASSUME which # "pages", which' = which, NEW u \in Users, Taken(u)
  PROVE  Contract!Next
<1>1. Seen = block /\ Seen' = block'
  BY DEF Seen
<1> QED
  BY <1>1, ContractTakes DEF Taken

(* ... gets memory of a page ...                                           *)
LEMMA SeenPageGiven ==
  ASSUME PageTypes, which = "pages", which' = which, NEW u \in Users,
         NEW b \in [page : Nat, offset : Nat, len : PageSizes], PageGiven(u, b)
  PROVE  Contract!Next
<1> USE PagesConstants
<1> HIDE DEF Space
<1>1. Paged!PageSpace = Space /\ Space \in Nat
  BY DEF Paged!PageSpace, Space
<1> DEFINE a == b.page * Space + b.offset
<1>2. b.page \in Nat /\ b.offset \in Nat /\ b.len \in PageSizes /\ b.len \in Nat
      /\ b.offset + b.len <= Space
  BY DEF PageGiven
<1>3. b.page * Space \in Nat /\ a \in Nat
  BY <1>1, <1>2
<1>4. b # None
  <2>1. b = [page |-> b.page, offset |-> b.offset, len |-> b.len]
    OBVIOUS
  <2> QED
    BY <2>1, <1>2, NoneDiffers
<1>5. Paged!Flat(b) = [addr |-> a, len |-> b.len] /\ Paged!Flat(None) = None
  BY <1>1, <1>4 DEF Paged!Flat
<1>6. /\ Seen = [v \in Users |-> Paged!Flat(block[v])]
      /\ Seen' = [v \in Users |-> Paged!Flat(block'[v])]
  BY DEF Seen, Paged!Flat, Paged!PageSpace
<1>7. block[u] = None /\ block' = [block EXCEPT ![u] = b] /\ DOMAIN block = Users
  BY DEF PageGiven, PageTypes
<1>8. Seen[u] = None /\ DOMAIN Seen = Users
  BY <1>5, <1>6, <1>7
<1>9. Becomes(Seen', Seen, u, [addr |-> a, len |-> b.len])
  BY <1>5, <1>6, <1>7 DEF Becomes
<1>10. ASSUME NEW v \in Users \ {u}, Seen[v] # None
       PROVE  (a .. a + b.len - 1) \cap (Seen[v].addr .. Seen[v].addr + Seen[v].len - 1) = {}
  <2>1. block[v] # None /\ Seen[v] = Paged!Flat(block[v])
    BY <1>5, <1>6, <1>10
  <2>2. /\ block[v].page \in Nat /\ block[v].offset \in Nat /\ block[v].len \in Nat
        /\ block[v].offset + block[v].len <= Space
        /\ block[v].page = b.page => block[v].offset + block[v].len <= b.offset
    BY <2>1 DEF PageGiven
  <2> DEFINE p == block[v].page  o == block[v].offset  n == block[v].len
             c == p * Space + o
  <2>3. Seen[v].addr = c /\ Seen[v].len = n
    BY <2>1, <1>1 DEF Paged!Flat
  <2>4. p * Space \in Nat /\ c \in Nat
    BY <1>1, <2>2
  <2> HIDE DEF p, o, n
  <2>5. c + n <= a \/ a + b.len <= c
    <3>1. CASE p = b.page
      BY <3>1, <1>1, <1>2, <1>3, <2>2, <2>4 DEF p, o, n
    <3>2. CASE p < b.page
      <4>1. p * Space + o + n <= b.page * Space + b.offset
        BY <3>2, <1>1, <1>2, <2>2, PagesDiffer DEF p, o, n
      <4> QED
        BY <4>1
    <3>3. CASE b.page < p
      <4>1. b.page * Space + b.offset + b.len <= p * Space + o
        BY <3>3, <1>1, <1>2, <2>2, PagesDiffer DEF p, o, n
      <4> QED
        BY <4>1
    <3> QED
      BY <3>1, <3>2, <3>3, <1>2, <2>2 DEF p
  <2>6. n \in Nat
    BY <2>2 DEF n
  <2> HIDE DEF a, c
  <2> QED
    BY <2>3, <2>4, <2>5, <2>6, <1>2, <1>3
<1>11. b.len \in AllSizes
  BY <1>2 DEF AllSizes
<1> HIDE DEF a
<1> QED
  BY <1>3, <1>8, <1>9, <1>10, <1>11, ContractGives

(* ... and gives that back.                                                *)
LEMMA SeenPageTaken ==
  ASSUME PageTypes, which = "pages", which' = which, NEW u \in Users, Taken(u)
  PROVE  Contract!Next
<1>1. /\ Seen = [v \in Users |-> Paged!Flat(block[v])]
      /\ Seen' = [v \in Users |-> Paged!Flat(block'[v])]
  BY DEF Seen, Paged!Flat, Paged!PageSpace
<1>2. Paged!Flat(None) = None
  BY DEF Paged!Flat
<1>3. Seen[u] # None
  <2>1. block[u].page * Paged!PageSpace + block[u].offset \in Int /\ block[u].len \in Int
    <3>1. /\ block[u].page \in Nat /\ block[u].offset \in Nat /\ block[u].len \in PageSizes
      BY DEF Taken, PageTypes
    <3>2. Paged!PageSpace \in Nat
      BY PagesConstants DEF Paged!PageSpace, Space
    <3>3. block[u].page * Paged!PageSpace \in Nat
      BY <3>1, <3>2
    <3>4. block[u].len \in Nat
      BY <3>1, PagesConstants
    <3> QED
      BY <3>1, <3>3, <3>4
  <2>2. Paged!Flat(block[u]) # None
    BY <2>1, NoneDiffers DEF Taken, Paged!Flat
  <2> QED
    BY <1>1, <2>2
<1>4. Seen' = [Seen EXCEPT ![u] = None]
  <2>1. DOMAIN block = Users /\ block' = [block EXCEPT ![u] = None]
    BY DEF Taken, PageTypes
  <2> QED
    BY <1>1, <1>2, <2>1
<1> QED
  BY <1>3, <1>4, ContractTakes

----------------------------------------------------------------------------
(***************************************************************************)
(* All of them, each as the state machine that which names.                *)
(***************************************************************************)
AllInv ==
  /\ which \in {"cache", "arena", "pages", "pool"}
  /\ which = "cache" => CacheInv
  /\ which = "arena" => ArenaInv
  /\ which = "pages" => PagesInv
  /\ which = "pool" => PoolInv

(* The invariants hold at first.                                           *)
LEMMA AllStart == Init => AllInv
<1> SUFFICES ASSUME Init PROVE AllInv
  OBVIOUS
<1>1. which \in {"cache", "arena", "pages", "pool"} /\ Cache!Init /\ Arenas!Init /\ Paged!Init
      /\ Pool!Init
  BY DEF Init
<1> QED
  BY <1>1, CacheStart, ArenaStart, PagesStart, PoolStart DEF AllInv

(* Each step of the cache is one of the contract ...                       *)
LEMMA CacheGoes ==
  ASSUME CacheInv, Cache!Next, which = "cache", which' = which
  PROVE  CacheInv' /\ (Contract!Next \/ UNCHANGED block)
<1>1. CacheInv'
  BY CacheStep
<1>2. DOMAIN block = Users
  BY DEF CacheInv, CacheTypes
<1>3. \/ \E u \in Users : \/ \E n \in CacheSizes : \E a \in Int : Given(u, [addr |-> a, len |-> n])
                          \/ Taken(u)
      \/ UNCHANGED block
  BY <1>1, CacheImplements
<1>4. ASSUME NEW u \in Users, NEW n \in CacheSizes, NEW a \in Int,
             Given(u, [addr |-> a, len |-> n])
      PROVE  Contract!Next
  <2>1. n \in AllSizes
    BY DEF AllSizes
  <2> QED
    BY <1>2, <1>4, <2>1, SeenGiven
<1>5. ASSUME NEW u \in Users, Taken(u)
      PROVE  Contract!Next
  BY <1>5, SeenTaken
<1> QED
  BY <1>1, <1>3, <1>4, <1>5

(* ... and each of an arena ...                                            *)
LEMMA ArenaGoes ==
  ASSUME ArenaInv, Arenas!Next, which = "arena", which' = which
  PROVE  ArenaInv' /\ (Contract!Next \/ UNCHANGED block)
<1>1. DOMAIN block = Users
  BY DEF ArenaInv, ArenaTypes
<1>2. /\ ArenaInv'
      /\ \/ \E u \in Users : \/ \E n \in ArenaSizes : \E a \in Int : Given(u, [addr |-> a, len |-> n])
                             \/ Taken(u)
         \/ UNCHANGED block
  BY ArenaStep
<1>3. ASSUME NEW u \in Users, NEW n \in ArenaSizes, NEW a \in Int,
             Given(u, [addr |-> a, len |-> n])
      PROVE  Contract!Next
  <2>1. n \in AllSizes
    BY DEF AllSizes
  <2> QED
    BY <1>1, <1>3, <2>1, SeenGiven
<1>4. ASSUME NEW u \in Users, Taken(u)
      PROVE  Contract!Next
  BY <1>4, SeenTaken
<1> QED
  BY <1>2, <1>3, <1>4

(* ... and each of the pages, while no allocation has thrown ...           *)
LEMMA PagesGo ==
  ASSUME Paged!RequestsFit, PagesInv, Paged!Next, which = "pages", which' = which
  PROVE  PagesInv' /\ (~failed' => Contract!Next)
<1>1. PageTypes
  BY DEF PagesInv
<1>2. /\ PagesInv'
      /\ ~failed' => \E u \in Users :
           \/ \E b \in [page : Nat, offset : Nat, len : PageSizes] : PageGiven(u, b)
           \/ Taken(u)
  BY PagesStep
<1>3. ASSUME NEW u \in Users, NEW b \in [page : Nat, offset : Nat, len : PageSizes],
             PageGiven(u, b)
      PROVE  Contract!Next
  BY <1>1, <1>3, SeenPageGiven
<1>4. ASSUME NEW u \in Users, Taken(u)
      PROVE  Contract!Next
  BY <1>1, <1>4, SeenPageTaken
<1> QED
  BY <1>2, <1>3, <1>4

(* ... and each of the pool of blocks.                                     *)
LEMMA PoolGoes ==
  ASSUME PoolInv, Pool!Next, which = "pool", which' = which
  PROVE  PoolInv' /\ (Contract!Next \/ UNCHANGED block)
<1>1. DOMAIN block = Users
  BY DEF PoolInv, PoolTypes
<1>2. /\ PoolInv'
      /\ \/ UNCHANGED block
         \/ \E u \in Users : Taken(u)
              \/ \E b \in Pool!BlockIds : Given(u, [addr |-> b, len |-> 1])
  BY PoolStep
<1>3. ASSUME NEW u \in Users, NEW b \in Pool!BlockIds, Given(u, [addr |-> b, len |-> 1])
      PROVE  Contract!Next
  <2>1. b \in Int /\ 1 \in AllSizes
    BY DEF AllSizes, Pool!BlockIds
  <2> QED
    BY <1>1, <1>3, <2>1, SeenGiven
<1>4. ASSUME NEW u \in Users, Taken(u)
      PROVE  Contract!Next
  BY <1>4, SeenTaken
<1> QED
  BY <1>2, <1>3, <1>4

(* No step breaks the invariant of the allocator in use, and each step is  *)
(* one that the contract allows.                                           *)
LEMMA AllStep ==
  ASSUME Paged!RequestsFit, AllInv, Next
  PROVE  AllInv' /\ (UNCHANGED block \/ (~failed' => Contract!Next))
<1>1. which' = which /\ which \in {"cache", "arena", "pages", "pool"}
  BY DEF Next, AllInv
<1>2. CASE which = "cache"
  <2>1. CacheInv /\ Cache!Next
    BY <1>2 DEF Next, AllInv
  <2>2. CacheInv' /\ (Contract!Next \/ UNCHANGED block)
    BY <1>1, <1>2, <2>1, CacheGoes
  <2> QED
    BY <1>1, <1>2, <2>2 DEF AllInv
<1>3. CASE which = "arena"
  <2>1. ArenaInv /\ Arenas!Next
    BY <1>3 DEF Next, AllInv
  <2>2. ArenaInv' /\ (Contract!Next \/ UNCHANGED block)
    BY <1>1, <1>3, <2>1, ArenaGoes
  <2> QED
    BY <1>1, <1>3, <2>2 DEF AllInv
<1>4. CASE which = "pages"
  <2>1. PagesInv /\ Paged!Next
    BY <1>4 DEF Next, AllInv
  <2>2. PagesInv' /\ (~failed' => Contract!Next)
    BY <1>1, <1>4, <2>1, PagesGo
  <2> QED
    BY <1>1, <1>4, <2>2 DEF AllInv
<1>5. CASE which = "pool"
  <2>1. PoolInv /\ Pool!Next
    BY <1>5 DEF Next, AllInv
  <2>2. PoolInv' /\ (Contract!Next \/ UNCHANGED block)
    BY <1>1, <1>5, <2>1, PoolGoes
  <2> QED
    BY <1>1, <1>5, <2>2 DEF AllInv
<1> QED
  BY <1>1, <1>2, <1>3, <1>4, <1>5

(* The invariants hold on while nothing changes.                           *)
LEMMA AllStutter ==
  ASSUME AllInv, UNCHANGED vars
  PROVE  AllInv'
<1> USE DEF vars, cacheVars, arenaVars, pageVars, poolVars
<1>1. CacheInv => CacheInv'
  BY DEF CacheInv, CacheTypes, PiecesApart, PiecesLabelled, UsersKnown, CellsKnown, HoldersDiffer,
         PiecesHeld, Piece, UserHas, CellHas, Cache!Region, Cache!Slots, Cache!Addresses,
         Cache!Junk
<1>2. ArenaInv => ArenaInv'
  BY DEF ArenaInv, ArenaTypes, Stacked, HeapKnown, Counted, InUse, Weights, InBuffer, Top
<1>3. PagesInv => PagesInv'
  BY DEF PagesInv, PageTypes, PagesUsed, Space
<1>4. PoolInv => PoolInv'
  BY ListStays DEF PoolInv, PoolTypes, PoolThreads, PoolList, PoolBlocks, PoolAtEnd, Roles,
     Place, Once,
         Pool!BlockIds, Pool!dynamicallyAllocated, Pool!Resting, Heads, Links, PoolPoints
<1> QED
  BY <1>1, <1>2, <1>3, <1>4 DEF AllInv

(* The invariants of the four allocators hold (the inductive invariant).   *)
THEOREM InvariantHolds ==
  ASSUME Paged!RequestsFit
  PROVE  Spec => []AllInv
<1>1. Init => AllInv
  BY AllStart
<1>2. AllInv /\ [Next]_vars => AllInv'
  BY AllStep, AllStutter
<1> QED
  BY <1>1, <1>2, PTL DEF Spec

(* Every value has its type: no allocator's record of its memory is ever   *)
(* malformed, and the counts of the arena and the references to a block    *)
(* are never negative.                                                     *)
THEOREM TypeCorrect ==
  ASSUME Paged!RequestsFit
  PROVE  Spec => []TypeOK
<1>1. AllInv => TypeOK
  BY CacheTypeCorrect, ArenaTypeCorrect, PagesTypeCorrect, PoolTypeCorrect DEF AllInv, TypeOK
<1> QED
  BY <1>1, InvariantHolds, PTL

(* No memory is lost, has two holders, or goes back to the wrong place; the*)
(* sums from which dynamic_arena concludes that nobody has memory of an    *)
(* arena are right; no require() of page_allocator fails; no block of the  *)
(* queue is forgotten by the lock-free list (recycling_cache.hpp,          *)
(* stack_alloc.hpp, dynamic_stack_alloc.hpp, page_allocator.hpp,           *)
(* concurrentqueue.h).                                                     *)
THEOREM MemoryAccounted ==
  ASSUME Paged!RequestsFit
  PROVE  Spec => []Accounted
<1>1. AllInv => Accounted
  BY CacheAccounts, ArenaAccounts, PagesAccount, PoolAccounts DEF AllInv, Accounted
<1> QED
  BY <1>1, InvariantHolds, PTL

(* Each allocator implements the contract: what a user is given belongs to *)
(* nobody else until it is given back, whoever asks for what and when (of  *)
(* the pages, until an allocation throws half way).                        *)
THEOREM MemoryOfOnesOwn ==
  ASSUME Paged!RequestsFit
  PROVE  Spec => Allocates
<1>1. Init => Contract!Init
  <2> SUFFICES ASSUME Init PROVE Contract!Init
    OBVIOUS
  <2>1. block = [u \in Users |-> None]
    BY DEF Init, Cache!Init
  <2>2. Paged!Flat(None) = None
    BY DEF Paged!Flat
  <2>3. [u \in Users |-> Paged!Flat(block[u])] = [u \in Users |-> None]
    BY <2>1, <2>2
  <2> QED
    BY <2>1, <2>3 DEF Contract!Init
<1>2. AllInv /\ [Next]_vars => [~failed' => Contract!Next]_block
  <2>1. UNCHANGED vars => UNCHANGED block
    BY DEF vars
  <2> QED
    BY <2>1, AllStep
<1> QED
  BY <1>1, <1>2, InvariantHolds, PTL DEF Spec, Allocates
=============================================================================
