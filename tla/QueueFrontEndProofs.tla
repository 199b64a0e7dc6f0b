------------------------ MODULE QueueFrontEndProofs ------------------------
(***************************************************************************)
(* ProducersOwned is an invariant of QueueFrontEnd, for every number of    *)
(* threads, producers and hash tables: no producer is lost, none serves    *)
(* two threads, and whoever looks up its own finds that one.               *)
(*                                                                         *)
(* Two facts carry it.  A producer is owned from the step that creates it  *)
(* or marks it as active, not only once held names it, so Mine covers the  *)
(* steps between; and an entry of a hash table can be reached from its key *)
(* without an empty slot on the way, which no step takes back, since a     *)
(* slot never becomes Empty again.                                         *)
(***************************************************************************)
EXTENDS QueueFrontEnd, NumberLemmas, FiniteSetTheorems, TLAPS

Acquiring == {"walk", "create", "count", "push", "got"}
Resizing == {"resize", "grow", "unlock", "check"}
Choosing == Resizing \cup {"countSlot", "giveUp"}
Placing == {"copy", "insert"}
Found == {"uncount", "enqueue"}

TokenPoints == Acquiring \cup {"rest", "drop"}
ImplicitPoints == Acquiring \cup Choosing \cup Placing \cup Found \cup {"rest", "exit"}
ConsumerPoints == {"rest", "score", "list", "short", "best", "rotate", "place", "current", "circle"}

(* What a thread of role r remembers at point p.                           *)
Form(r, p) ==
  /\ "at" \in DOMAIN p
  /\ p.at = "rest" => p = Resting
  /\ p.at \in Acquiring =>
       DOMAIN p = {"at", "explicit", "ptr", "rest"} /\ p.explicit \in BOOLEAN
  /\ p.at = "countSlot" => DOMAIN p = {"at", "main"}
  /\ p.at \in Resizing =>
       DOMAIN p = {"at", "main", "newCount"} /\ p.newCount \in Int
  /\ p.at \in Placing => DOMAIN p = {"at", "ptr", "main", "slot"}
  /\ p.at \in Found => DOMAIN p = {"at", "ptr"}
  /\ p.at = "exit" => DOMAIN p = {"at", "table"}
  /\ r = "token" => p.at \in TokenPoints
  /\ r = "implicit" => p.at \in ImplicitPoints
  /\ r = "consumer" => p.at \in ConsumerPoints
  /\ r = "idle" => p.at = "rest"

PointsOK ==
  /\ setup \in Setups /\ alive \in BOOLEAN
  /\ DOMAIN pc = Threads
  /\ \A t \in Threads : Form(role[t], pc[t])
  /\ implicitProducerHashCount \in Int
  /\ ~alive => \A t \in Threads : pc[t] = Resting

(* The producers: what is in the list, what is on the way there.           *)
CreatedOK ==
  /\ \E n \in Nat : Created = 1 .. n
  /\ inactive \in [Created -> BOOLEAN] /\ isExplicit \in [Created -> BOOLEAN]
  /\ DOMAIN tokenOf = Created

ChainOK ==
  /\ DOMAIN next = {p \in Created : \A t \in Threads : ~(pc[t].at = "count" /\ pc[t].ptr = p)}
  /\ \A p \in DOMAIN next : next[p] \in DOMAIN next \cup {None}
  /\ producerListTail \in DOMAIN next \cup {None}
  /\ Listed = {p \in Created : ~Adding(p)}
  /\ IsFiniteSet(DOMAIN next) /\ producerCount = Cardinality(DOMAIN next)

(* The producer that a thread has, or is about to have.                    *)
Mine(t) == IF pc[t].at \in {"count", "push", "got"} THEN pc[t].ptr ELSE held[t]

(* What its point tells of what a thread has.                              *)
AtPoint(t) ==
  /\ pc[t].at \in Acquiring => (pc[t].explicit <=> role[t] = "token")
  /\ pc[t].at = "walk" => pc[t].ptr \in DOMAIN next \cup {None}
  /\ pc[t].at = "create" => pc[t].ptr = None
  /\ pc[t].at \in {"count", "push"} => pc[t].ptr # None
  /\ pc[t].at \in Acquiring \cup Choosing => held[t] = None
  /\ pc[t].at \in {"drop", "exit"} => held[t] # None
  /\ pc[t].at \in Placing \cup Found => held[t] # None /\ pc[t].ptr = held[t]
  /\ role[t] = "token" /\ pc[t].at = "rest" /\ held[t] # None => tokenOf[held[t]] = t

OwnersOK ==
  /\ DOMAIN held = Threads
  /\ \A t \in Threads :
       /\ AtPoint(t)
       /\ Mine(t) # None =>
            /\ alive
            /\ Mine(t) \in Created
            /\ inactive[Mine(t)] = FALSE
            /\ role[t] \in {"token", "implicit"}
            /\ isExplicit[Mine(t)] <=> role[t] = "token"
            /\ \A u \in Threads \ {t} : Mine(u) # Mine(t)

(* The hash tables.                                                        *)
Slots == [key : Nat \cup {Empty, Reusable}, value : Nat \cup {None}]
Tables == UNION {[0 .. c - 1 -> Slots] : c \in Nat \ {0, 1}}

(* Slot i of table T is one that a search for k comes to.                  *)
Reachable(T, i, k) ==
  LET c == Cardinality(DOMAIN T) IN
    \E d \in 0 .. c - 1 :
      i = (k + d) % c /\ \A e \in 0 .. d - 1 : T[(k + e) % c].key # Empty

NoEntry(T, k) == \A i \in DOMAIN T : T[i].key # k

Proper(T) ==
  \A i \in DOMAIN T : T[i].key \in Nat =>
    /\ Reachable(T, i, T[i].key)
    /\ \A j \in DOMAIN T : T[j].key = T[i].key => j = i

IdsOK ==
  /\ DOMAIN id = Threads
  /\ \A t \in Threads :
       /\ id[t] # None =>
            /\ id[t] \in setup.ids /\ role[t] = "implicit"
            /\ \A u \in Threads \ {t} : id[u] # id[t]
       /\ role[t] = "implicit" /\ (pc[t].at # "rest" \/ held[t] # None) => id[t] # None

TablesOK ==
  /\ implicitProducerHash \in Seq(Tables)
  /\ alive => mainHash > 0
  /\ \A n \in 1 .. mainHash : Proper(implicitProducerHash[n])
  /\ \A n \in 1 .. mainHash : \A i \in DOMAIN implicitProducerHash[n] :
       LET e == implicitProducerHash[n][i] IN
         e.key \in Nat => \E t \in Threads : id[t] = e.key /\ held[t] = e.value /\ held[t] # None

(* Where a thread stands in the tables.                                    *)
PlaceOf(t) ==
  /\ pc[t].at \in Choosing \ {"giveUp"} => pc[t].main \in 1 .. mainHash
  /\ pc[t].at \in Acquiring /\ role[t] = "implicit" => pc[t].rest \in 1 .. mainHash
  /\ pc[t].at \in Placing =>
       /\ pc[t].main \in 1 .. mainHash
       /\ pc[t].slot \in DOMAIN implicitProducerHash[pc[t].main]
       /\ Reachable(implicitProducerHash[pc[t].main], pc[t].slot, id[t])
       /\ NoEntry(implicitProducerHash[pc[t].main], id[t])
  /\ pc[t].at \in {"rest"} \cup Found /\ role[t] = "implicit" /\ held[t] # None =>
       \E n \in 1 .. mainHash : ~NoEntry(implicitProducerHash[n], id[t])
  /\ pc[t].at = "exit" =>
       /\ pc[t].table \in 0 .. mainHash
       /\ \A n \in pc[t].table + 1 .. mainHash : NoEntry(implicitProducerHash[n], id[t])

PlacesOK == \A t \in Threads : PlaceOf(t)

IInv == PointsOK /\ CreatedOK /\ ChainOK /\ OwnersOK /\ IdsOK /\ TablesOK /\ PlacesOK

----------------------------------------------------------------------------
(* The capacity of the next table.                                         *)

(* Tables of Doubled up to n.                                              *)
Upto(n) == {f \in [0 .. n -> Nat] : \A i \in 0 .. n : f[i] = IF i = 0 THEN 1 ELSE 2 * f[i - 1]}

(* There is a table of Doubled up to every n.                              *)
LEMMA UptoExists ==
  ASSUME NEW n \in Nat
  PROVE  Upto(n) # {}
<1> DEFINE Bad == {m \in Nat : Upto(m) = {}}
<1> SUFFICES ASSUME Bad # {} PROVE FALSE
  OBVIOUS
<1>1. PICK m \in Bad : \A k \in Bad : m <= k
  <2>1. Bad \in SUBSET Nat
    OBVIOUS
  <2> HIDE DEF Bad
  <2> QED
    BY <2>1, LeastNatural
<1>2. CASE m = 0
  <2>1. [i \in 0 .. 0 |-> 1] \in Upto(0)
    BY DEF Upto
  <2> QED
    BY <1>1, <1>2, <2>1
<1>3. CASE m # 0
  <2>1. m - 1 \in Nat /\ m - 1 \notin Bad
    BY <1>1, <1>3
  <2>2. PICK f \in Upto(m - 1) : TRUE
    BY <2>1
  <2> DEFINE g == [i \in 0 .. m |-> IF i = m THEN 2 * f[m - 1] ELSE f[i]]
  <2>3. f \in [0 .. m - 1 -> Nat] /\ \A i \in 0 .. m - 1 : f[i] = IF i = 0 THEN 1 ELSE 2 * f[i - 1]
    BY <2>2 DEF Upto
  <2>4. g \in [0 .. m -> Nat]
    BY <2>3, <2>1
  <2>5. ASSUME NEW i \in 0 .. m PROVE g[i] = IF i = 0 THEN 1 ELSE 2 * g[i - 1]
    BY <2>3, <2>1, <1>3
  <2>6. g \in Upto(m)
    BY <2>4, <2>5 DEF Upto
  <2> QED
    BY <2>6, <1>1
<1> QED
  BY <1>2, <1>3

(* Two tables agree where both are defined.                                *)
LEMMA UptoAgree ==
  ASSUME NEW n \in Nat, NEW m \in Nat, n <= m, NEW f \in Upto(n), NEW g \in Upto(m)
  PROVE  \A i \in 0 .. n : f[i] = g[i]
<1> DEFINE Bad == {i \in 0 .. n : f[i] # g[i]}
<1> SUFFICES ASSUME Bad # {} PROVE FALSE
  OBVIOUS
<1>1. PICK i \in Bad : \A k \in Bad : i <= k
  <2>1. Bad \in SUBSET Nat
    OBVIOUS
  <2> HIDE DEF Bad
  <2> QED
    BY <2>1, LeastNatural
<1>2. i \in 0 .. n /\ i \in 0 .. m /\ f[i] # g[i]
  OBVIOUS
<1>3. i # 0
  BY <1>2 DEF Upto
<1>4. i - 1 \in 0 .. n /\ i - 1 \notin Bad
  BY <1>1, <1>2, <1>3
<1>5. f[i] = 2 * f[i - 1] /\ g[i] = 2 * g[i - 1]
  BY <1>2, <1>3 DEF Upto
<1> QED
  BY <1>2, <1>4, <1>5

(* Doubled is what its definition says: the tables make a function, so     *)
(* that the definition has a solution.                                     *)
LEMMA DoubledUnfolds ==
  ASSUME NEW n \in Nat
  PROVE  Doubled[n] = IF n = 0 THEN 1 ELSE 2 * Doubled[n - 1]
<1> DEFINE at(k) == CHOOSE f \in Upto(k) : TRUE
           F == [k \in Nat |-> at(k)[k]]
<1>1. \A k \in Nat : at(k) \in Upto(k)
  BY UptoExists
<1>2. ASSUME NEW k \in Nat PROVE F[k] = IF k = 0 THEN 1 ELSE 2 * F[k - 1]
  <2>1. at(k) \in Upto(k)
    BY <1>1
  <2>2. at(k)[k] = IF k = 0 THEN 1 ELSE 2 * at(k)[k - 1]
    <3>1. \A f \in Upto(k) : f[k] = IF k = 0 THEN 1 ELSE 2 * f[k - 1]
      BY DEF Upto
    <3> HIDE DEF at
    <3> QED
      BY <2>1, <3>1
  <2>3. CASE k = 0
    BY <2>2, <2>3
  <2>4. CASE k # 0
    <3>1. k - 1 \in Nat /\ k - 1 <= k /\ k - 1 \in 0 .. k - 1
      BY <2>4
    <3>2. at(k - 1) \in Upto(k - 1)
      BY <1>1, <3>1
    <3> HIDE DEF at
    <3>3. at(k - 1)[k - 1] = at(k)[k - 1]
      BY <3>1, <3>2, <2>1, UptoAgree
    <3> QED
      BY <3>1, <3>3, <2>2, <2>4
  <2> QED
    BY <2>3, <2>4
<1>3. F = [i \in Nat |-> IF i = 0 THEN 1 ELSE 2 * F[i - 1]]
  <2> HIDE DEF F
  <2>1. F = [i \in Nat |-> F[i]]
    BY DEF F
  <2> QED
    BY <2>1, <1>2
<1> DEFINE Step(f) == [i \in Nat |-> IF i = 0 THEN 1 ELSE 2 * f[i - 1]]
<1>4. \E f : f = Step(f)
  <2> HIDE DEF F
  <2> QED
    BY <1>3
<1>5. Doubled = CHOOSE f : f = Step(f)
  BY DEF Doubled
<1>6. Doubled = Step(Doubled)
  <2> HIDE DEF Step
  <2> QED
    BY <1>4, <1>5
<1> QED
  BY <1>6

(* Doubling overtakes counting.                                            *)
LEMMA DoubledGrows ==
  ASSUME NEW n \in Nat
  PROVE  Doubled[n] \in Nat /\ Doubled[n] > n
<1> DEFINE Bad == {i \in Nat : ~(Doubled[i] \in Nat /\ Doubled[i] > i)}
<1> SUFFICES ASSUME Bad # {} PROVE FALSE
  OBVIOUS
<1>1. PICK i \in Bad : \A k \in Bad : i <= k
  <2>1. Bad \in SUBSET Nat
    OBVIOUS
  <2> HIDE DEF Bad
  <2> QED
    BY <2>1, LeastNatural
<1>2. i \in Nat /\ Doubled[i] = IF i = 0 THEN 1 ELSE 2 * Doubled[i - 1]
  BY DoubledUnfolds
<1>3. i # 0
  BY <1>1, <1>2
<1>4. i - 1 \in Nat /\ i - 1 \notin Bad
  BY <1>1, <1>2, <1>3
<1>5. Doubled[i - 1] \in Nat /\ Doubled[i - 1] > i - 1
  BY <1>4
<1>6. Doubled[i] \in Nat /\ Doubled[i] > i
  BY <1>2, <1>3, <1>5
<1> QED
  BY <1>1, <1>6

(* NewCapacity is a capacity.                                              *)
LEMMA CapacityGrows ==
  ASSUME NEW c \in Nat \ {0, 1}, NEW k \in Nat \ {0}
  PROVE  NewCapacity(c, k) \in Nat \ {0, 1}
<1> DEFINE powers == {c * Doubled[i] : i \in 1 .. k}
           large == {p \in powers : k < p \div 2}
<1>1. k \in Nat \ {0}
  OBVIOUS
<1>2. ASSUME NEW p \in powers PROVE p \in Nat \ {0, 1}
  <2>1. PICK i \in 1 .. k : p = c * Doubled[i]
    OBVIOUS
  <2>2. Doubled[i] \in Nat /\ Doubled[i] > i
    BY <1>1, DoubledGrows
  <2>3. c * Doubled[i] \in Nat /\ c * Doubled[i] >= c * 1
    BY <2>2
  <2> QED
    BY <2>1, <2>3
<1>3. c * Doubled[k] \in large
  <2>1. Doubled[k] \in Nat /\ Doubled[k] > k
    BY <1>1, DoubledGrows
  <2>2. c * Doubled[k] \in powers
    BY <1>1
  <2>3. c * Doubled[k] >= 2 * Doubled[k]
    BY <2>1
  <2>4. c * Doubled[k] \in Nat
    BY <2>1
  <2> QED
    BY <1>1, <2>1, <2>2, <2>3, <2>4
<1>4. PICK p \in large : \A r \in large : p <= r
  <2>1. large \in SUBSET Nat
    BY <1>2
  <2> HIDE DEF large
  <2> QED
    BY <1>3, <2>1, LeastNatural
<1>5. \E r \in powers : k < r \div 2 /\ \A s \in powers : k < s \div 2 => r <= s
  BY <1>4
<1>6. NewCapacity(c, k) \in powers
  <2> HIDE DEF powers
  <2>1. NewCapacity(c, k) =
          CHOOSE r \in powers : k < r \div 2 /\ \A s \in powers : k < s \div 2 => r <= s
    BY DEF NewCapacity, powers
  <2> QED
    BY <1>5, <2>1
<1> QED
  BY <1>2, <1>6

----------------------------------------------------------------------------
(* Searching a hash table.                                                 *)

(* The values that stand for no id and no producer differ from all that    *)
(* do.                                                                     *)
LEMMA Names ==
  ASSUME setup \in Setups
  PROVE  /\ setup.ids \subseteq Nat /\ role \in [Threads -> {"token", "implicit", "consumer", "idle"}]
         /\ None \notin Nat /\ None \notin Threads /\ Empty \notin Nat /\ Reusable \notin Nat
         /\ Empty # Reusable
BY QueueAssumption DEF role

(* A table has its slots 0 .. c - 1, at least two.                         *)
LEMMA TableForm ==
  ASSUME NEW T \in Tables
  PROVE  /\ Cardinality(DOMAIN T) \in Nat \ {0, 1}
         /\ DOMAIN T = 0 .. Cardinality(DOMAIN T) - 1
         /\ T \in [0 .. Cardinality(DOMAIN T) - 1 -> Slots]
<1>1. PICK c \in Nat \ {0, 1} : T \in [0 .. c - 1 -> Slots]
  BY DEF Tables
<1>2. DOMAIN T = 0 .. c - 1
  BY <1>1
<1>3. Cardinality(0 .. c - 1) = c
  BY FS_Interval
<1> QED
  BY <1>1, <1>2, <1>3

(* A remainder by the capacity is a slot.                                  *)
LEMMA SlotInTable ==
  ASSUME NEW T \in Tables, NEW a \in Nat
  PROVE  a % Cardinality(DOMAIN T) \in DOMAIN T
BY TableForm, ModDef

(* A search begins at the slot of the key, and goes on from a slot that is *)
(* not empty.                                                              *)
LEMMA SearchBegins ==
  ASSUME NEW T \in Tables, NEW k \in Nat
  PROVE  Reachable(T, k % Cardinality(DOMAIN T), k)
<1>1. Cardinality(DOMAIN T) \in Nat \ {0, 1} /\ k + 0 = k
  BY TableForm
<1> QED
  BY <1>1 DEF Reachable

(* From a slot that is not empty the search comes to the next one, round   *)
(* the end of the table if need be.                                        *)
LEMMA SearchGoesOn ==
  ASSUME NEW T \in Tables, NEW k \in Nat, NEW i \in DOMAIN T,
         Reachable(T, i, k), T[i].key # Empty
  PROVE  /\ (i + 1) % Cardinality(DOMAIN T) \in DOMAIN T
         /\ Reachable(T, (i + 1) % Cardinality(DOMAIN T), k)
<1> DEFINE c == Cardinality(DOMAIN T)
<1>1. c \in Nat \ {0, 1} /\ DOMAIN T = 0 .. c - 1
  BY TableForm
<1>2. PICK d \in 0 .. c - 1 :
        i = (k + d) % c /\ \A e \in 0 .. d - 1 : T[(k + e) % c].key # Empty
  BY DEF Reachable
<1>3. (i + 1) % c \in DOMAIN T
  <2>1. i + 1 \in Nat
    BY <1>1
  <2> QED
    BY <2>1, SlotInTable
<1>4. (i + 1) % c = (k + d + 1) % c
  BY <1>1, <1>2, ModNext, k + d \in Nat
<1>5. CASE d + 1 \in 0 .. c - 1
  <2>1. (k + (d + 1)) % c = (i + 1) % c
    BY <1>1, <1>2, <1>4, k + (d + 1) = k + d + 1
  <2>2. \A e \in 0 .. (d + 1) - 1 : T[(k + e) % c].key # Empty
    <3>1. (d + 1) - 1 = d
      OBVIOUS
    <3> HIDE DEF c
    <3> QED
      BY <1>2, <3>1
  <2> QED
    BY <1>3, <1>5, <2>1, <2>2 DEF Reachable
<1>6. CASE d + 1 = c
  <2>1. (i + 1) % c = k % c
    BY <1>1, <1>4, <1>6, ModRound, k + d + 1 = k + c
  <2> QED
    BY <1>3, <2>1, SearchBegins
<1> QED
  BY <1>1, <1>5, <1>6

(* What a search finds is in the table; and it finds what can be reached.  *)
LEMMA SearchSound ==
  ASSUME NEW n, implicitProducerHash[n] \in Tables, NEW k \in Nat, Has(n, k)
  PROVE  /\ SlotOf(n, k) \in DOMAIN implicitProducerHash[n]
         /\ implicitProducerHash[n][SlotOf(n, k)].key = k
<1>1. SlotOf(n, k) \in Probed(n, k) /\ implicitProducerHash[n][SlotOf(n, k)].key = k
  BY DEF Has, SlotOf
<1>2. \A i \in Probed(n, k) : \E d \in Nat : i = (k + d) % Cardinality(DOMAIN implicitProducerHash[n])
  BY DEF Probed, SlotAt, capacity
<1> QED
  BY <1>1, <1>2, SlotInTable

(* A key that is in the table is found: the slot where the search stops is *)
(* no later than the key's own, which it can come to.                      *)
LEMMA SearchFinds ==
  ASSUME NEW n, implicitProducerHash[n] \in Tables, Proper(implicitProducerHash[n]),
         NEW k \in Nat, ~NoEntry(implicitProducerHash[n], k)
  PROVE  Has(n, k)
<1>1. capacity(n) \in Nat \ {0, 1}
  BY TableForm DEF capacity
<1> DEFINE key(d) == implicitProducerHash[n][SlotAt(n, k + d)].key
           Stop(d) == key(d) \in {k, Empty} /\ \A e \in 0 .. d - 1 : key(e) \notin {k, Empty}
<1>2. PICK i \in DOMAIN implicitProducerHash[n] :
        /\ implicitProducerHash[n][i].key = k
        /\ Reachable(implicitProducerHash[n], i, k)
  BY DEF Proper, NoEntry
<1>3. PICK d \in 0 .. capacity(n) - 1 :
        i = SlotAt(n, k + d) /\ \A e \in 0 .. d - 1 : key(e) # Empty
  BY <1>2 DEF Reachable, SlotAt, capacity
<1>4. key(d) = k
  BY <1>2, <1>3
<1> DEFINE ends == {e \in Nat : e <= d /\ key(e) \in {k, Empty}}
<1> HIDE DEF key
<1>5. PICK s \in ends : \A e \in ends : s <= e
  <2>1. ends \in SUBSET Nat /\ d \in ends
    BY <1>1, <1>4
  <2> HIDE DEF ends
  <2> QED
    BY <2>1, LeastNatural
<1>6. s \in 0 .. capacity(n) - 1 /\ Stop(s)
  <2>1. \A e \in 0 .. s - 1 : e \in Nat /\ e <= d /\ e \notin ends
    BY <1>1, <1>5
  <2> QED
    BY <1>1, <1>5, <2>1
<1> DEFINE stop == CHOOSE x \in 0 .. capacity(n) - 1 : Stop(x)
<1>7. stop \in 0 .. capacity(n) - 1 /\ Stop(stop)
  <2> HIDE DEF Stop
  <2> QED
    BY <1>6
<1> HIDE DEF stop
<1>8. key(stop) = k
  BY <1>1, <1>3, <1>4, <1>7
<1>9. SlotAt(n, k + stop) \in Probed(n, k)
  <2>1. Probed(n, k) = {SlotAt(n, k + x) : x \in 0 .. stop}
    BY DEF Probed, stop, key
  <2> QED
    BY <1>7, <2>1, <1>1
<1> QED
  BY <1>8, <1>9 DEF Has, key

(* A slot is taken, or left for others.                                    *)
Put(T, i, k, v) == [T EXCEPT ![i] = [key |-> k, value |-> v]]

(* What setting a slot does to its table: it stays proper, and every slot  *)
(* that a search could come to it still comes to.                          *)
LEMMA SlotSet ==
  ASSUME NEW T \in Tables, NEW i \in DOMAIN T,
         NEW k \in Nat \cup {Reusable}, NEW v \in Nat \cup {None},
         Empty \notin Nat, Reusable \notin Nat, Empty # Reusable,
         Proper(T), k \in Nat => NoEntry(T, k) /\ Reachable(T, i, k)
  PROVE  /\ Put(T, i, k, v) \in Tables /\ Proper(Put(T, i, k, v)) /\ DOMAIN Put(T, i, k, v) = DOMAIN T
         /\ Put(T, i, k, v)[i] = [key |-> k, value |-> v]
         /\ \A j \in DOMAIN T \ {i} : Put(T, i, k, v)[j] = T[j]
         /\ \A j : \A q \in Nat : Reachable(T, j, q) => Reachable(Put(T, i, k, v), j, q)
<1> DEFINE c == Cardinality(DOMAIN T)
           U == Put(T, i, k, v)
<1>1. c \in Nat \ {0, 1} /\ DOMAIN T = 0 .. c - 1 /\ T \in [0 .. c - 1 -> Slots]
  BY TableForm
<1>2. /\ DOMAIN U = DOMAIN T /\ U[i] = [key |-> k, value |-> v]
      /\ \A j \in DOMAIN T \ {i} : U[j] = T[j]
  BY DEF Put
<1>3. U \in [0 .. c - 1 -> Slots]
  BY <1>1 DEF Slots, Put
<1> HIDE DEF U
<1>4. U \in Tables
  BY <1>1, <1>3 DEF Tables
<1>5. \A j \in DOMAIN T : T[j].key # Empty => U[j].key # Empty
  BY <1>2
<1>6. ASSUME NEW j, NEW q \in Nat, Reachable(T, j, q) PROVE Reachable(U, j, q)
  <2>1. PICK d \in 0 .. c - 1 :
          j = (q + d) % c /\ \A e \in 0 .. d - 1 : T[(q + e) % c].key # Empty
    BY <1>6 DEF Reachable
  <2>2. \A e \in 0 .. d - 1 : U[(q + e) % c].key # Empty
    BY <2>1, <1>5, SlotInTable
  <2> QED
    BY <2>1, <2>2, <1>2 DEF Reachable
<1>7. Proper(U)
  BY <1>2, <1>6 DEF Proper, NoEntry
<1> QED
  BY <1>2, <1>4, <1>6, <1>7 DEF U

(* A new table is empty.                                                   *)
LEMMA NewTableForm ==
  ASSUME NEW c \in Nat \ {0, 1}, Empty \notin Nat
  PROVE  /\ NewTable(c) \in Tables /\ Proper(NewTable(c))
         /\ \A k \in Nat : NoEntry(NewTable(c), k)
<1>1. NewTable(c) \in [0 .. c - 1 -> Slots]
  BY DEF NewTable, Slots
<1> QED
  BY <1>1 DEF NewTable, Tables, Proper, NoEntry

----------------------------------------------------------------------------
(* The list.                                                               *)

(* From, of any list.                                                      *)
Chain(f, tail) ==
  {p \in DOMAIN f :
     \A S \in SUBSET DOMAIN f :
       (tail \in S \cup {None} /\ \A q \in S : f[q] \in S \cup {None}) => p \in S}

Closed(f, tail) ==
  tail \in DOMAIN f \cup {None} /\ \A p \in DOMAIN f : f[p] \in DOMAIN f \cup {None}

(* Listed, before and after a step, by Chain.                              *)
LEMMA ListedIsChain ==
  Listed = Chain(next, producerListTail) /\ Listed' = Chain(next', producerListTail')
BY DEF Listed, From, Chain

(* The chain has its first producer, and with each the next one.           *)
LEMMA ChainClosed ==
  ASSUME NEW f, NEW tail, Closed(f, tail)
  PROVE  /\ Chain(f, tail) \subseteq DOMAIN f
         /\ tail \in Chain(f, tail) \cup {None}
         /\ \A p \in Chain(f, tail) : f[p] \in Chain(f, tail) \cup {None}
BY DEF Chain, Closed

(* It is in every set that does.                                           *)
LEMMA ChainLeast ==
  ASSUME NEW f, NEW tail, NEW S \in SUBSET DOMAIN f,
         tail \in S \cup {None}, \A q \in S : f[q] \in S \cup {None}
  PROVE  Chain(f, tail) \subseteq S
BY DEF Chain

(* What is not in the chain may change.                                    *)
LEMMA ChainSame ==
  ASSUME NEW f, NEW tail, Closed(f, tail), NEW g, Closed(g, tail),
         \A q \in Chain(f, tail) : q \in DOMAIN g /\ g[q] = f[q]
  PROVE  Chain(g, tail) = Chain(f, tail)
<1> DEFINE F == Chain(f, tail)
           G == Chain(g, tail)
<1>1. /\ F \subseteq DOMAIN f /\ tail \in F \cup {None}
      /\ \A p \in F : f[p] \in F \cup {None}
  BY ChainClosed
<1>2. /\ G \subseteq DOMAIN g /\ tail \in G \cup {None}
      /\ \A p \in G : g[p] \in G \cup {None}
  BY ChainClosed
<1> HIDE DEF F, G
<1>3. G \subseteq F
  <2>1. F \in SUBSET DOMAIN g /\ \A q \in F : g[q] \in F \cup {None}
    BY <1>1 DEF F
  <2> QED
    BY <1>1, <2>1, ChainLeast DEF G
<1>4. F \subseteq G
  <2>1. F \cap G \in SUBSET DOMAIN f /\ tail \in (F \cap G) \cup {None}
    BY <1>1, <1>2
  <2>2. \A q \in F \cap G : f[q] \in (F \cap G) \cup {None}
    BY <1>1, <1>2 DEF F
  <2>3. F \subseteq F \cap G
    BY <2>1, <2>2, ChainLeast DEF F
  <2> QED
    BY <2>3
<1> QED
  BY <1>3, <1>4 DEF F, G

(* The producer that is pushed comes before the others.                    *)
LEMMA ChainPushed ==
  ASSUME NEW f, NEW tail, Closed(f, tail), NEW p \in DOMAIN f, f[p] = tail, p # None
  PROVE  Chain(f, p) = Chain(f, tail) \cup {p}
<1> DEFINE F == Chain(f, tail)
           G == Chain(f, p)
<1>1. /\ F \subseteq DOMAIN f /\ tail \in F \cup {None}
      /\ \A q \in F : f[q] \in F \cup {None}
  BY ChainClosed
<1>2. Closed(f, p)
  BY DEF Closed
<1>3. /\ G \subseteq DOMAIN f /\ p \in G \cup {None}
      /\ \A q \in G : f[q] \in G \cup {None}
  BY <1>2, ChainClosed
<1> HIDE DEF F, G
<1>4. G \subseteq F \cup {p}
  <2>1. F \cup {p} \in SUBSET DOMAIN f /\ p \in (F \cup {p}) \cup {None}
    BY <1>1
  <2>2. \A q \in F \cup {p} : f[q] \in (F \cup {p}) \cup {None}
    BY <1>1
  <2> QED
    BY <2>1, <2>2, ChainLeast DEF G
<1>5. F \subseteq G
  <2>1. tail \in G \cup {None}
    BY <1>3
  <2> QED
    BY <1>3, <2>1, ChainLeast DEF F
<1> QED
  BY <1>3, <1>4, <1>5 DEF F, G

----------------------------------------------------------------------------
(* The invariant holds at first.                                           *)

(* Nothing is there yet: no producer, and one empty table.                 *)
LEMMA InitInvariant ==
  ASSUME Init
  PROVE  IInv
<1> USE DEF Init, ListInit, HashInit, EmptyFunction
<1>1. setup \in Setups /\ alive = TRUE /\ implicitProducerHashCount = 0
  OBVIOUS
<1>2. \A t \in Threads : pc[t] = Resting /\ held[t] = None /\ id[t] = None
  OBVIOUS
<1>3. PointsOK
  <2>1. \A t \in Threads : Form(role[t], pc[t])
    BY <1>2 DEF Form, Resting, Acquiring, Resizing, Choosing, Placing, Found, TokenPoints,
       ImplicitPoints, ConsumerPoints
  <2>2. DOMAIN pc = Threads
    OBVIOUS
  <2> QED
    BY <1>1, <2>1, <2>2 DEF PointsOK
<1>4. Created = 1 .. 0 /\ DOMAIN next = {} /\ producerListTail = None /\ producerCount = 0
  BY DEF Created
<1>5. CreatedOK
  BY <1>4 DEF CreatedOK, Created
<1>6. ChainOK
  <2>1. Listed = {}
    BY <1>4 DEF Listed, From
  <2>2. IsFiniteSet({}) /\ Cardinality({}) = 0
    BY FS_EmptySet
  <2> QED
    BY <1>4, <2>1, <2>2 DEF ChainOK
<1>7. OwnersOK
  BY <1>2 DEF OwnersOK, AtPoint, Mine, Resting, Acquiring, Resizing, Choosing, Placing, Found
<1>8. IdsOK
  BY <1>2 DEF IdsOK, Resting
<1>9. TablesOK
  <2>1. NewTable(INITIAL_IMPLICIT_PRODUCER_HASH_SIZE) \in Tables
    BY NewTableForm, QueueAssumption
  <2>2. Proper(NewTable(INITIAL_IMPLICIT_PRODUCER_HASH_SIZE))
    BY NewTableForm, QueueAssumption
  <2>3. implicitProducerHash = <<NewTable(INITIAL_IMPLICIT_PRODUCER_HASH_SIZE)>>
    OBVIOUS
  <2>4. \A i : i \in DOMAIN implicitProducerHash[1] => implicitProducerHash[1][i].key = Empty
    BY <2>3 DEF NewTable
  <2>5. Empty \notin Nat
    BY QueueAssumption
  <2> QED
    BY <2>1, <2>2, <2>3, <2>4, <2>5 DEF TablesOK, mainHash
<1>10. PlacesOK
  BY <1>2 DEF PlacesOK, PlaceOf, Resting, Acquiring, Resizing, Choosing, Placing, Found
<1> QED
  BY <1>3, <1>5, <1>6, <1>7, <1>8, <1>9, <1>10 DEF IInv

----------------------------------------------------------------------------
(* Where each thread is.                                                   *)

Roles == {"token", "implicit", "consumer", "idle"}

(* On the way to a producer only the point and the pointer change.         *)
LEMMA FormAcquiring ==
  ASSUME NEW r \in Roles, NEW p, Form(r, p), p.at \in Acquiring, NEW a \in Acquiring, NEW x
  PROVE  /\ Form(r, [p EXCEPT !.at = a])
         /\ Form(r, [p EXCEPT !.ptr = x])
         /\ Form(r, [p EXCEPT !.at = a, !.ptr = x])
BY DEF Form, Roles, Acquiring, Resizing, Choosing, Placing, Found, TokenPoints, ImplicitPoints,
       ConsumerPoints, Resting

(* The way to a producer begins.                                           *)
LEMMA FormBegins ==
  ASSUME NEW r \in {"token", "implicit"}, NEW k \in BOOLEAN, NEW x, NEW y
  PROVE  Form(r, [at |-> "walk", explicit |-> k, ptr |-> x, rest |-> y])
BY DEF Form, Acquiring, Resizing, Choosing, Placing, Found, TokenPoints, ImplicitPoints, ConsumerPoints,
       Resting

(* Points with nothing to remember.                                        *)
LEMMA FormSimple ==
  /\ \A r \in Roles : Form(r, Resting)
  /\ Form("token", [at |-> "drop"])
  /\ Form("implicit", [at |-> "giveUp"])
BY DEF Form, Roles, Acquiring, Resizing, Choosing, Placing, Found, TokenPoints, ImplicitPoints,
       ConsumerPoints, Resting

(* Points of get_or_add_implicit_producer() and of the exit of a thread.   *)
LEMMA FormImplicit ==
  ASSUME NEW x, NEW y, NEW z
  PROVE  /\ Form("implicit", [at |-> "countSlot", main |-> x])
         /\ \A c \in Int : Form("implicit", [at |-> "resize", main |-> x, newCount |-> c])
         /\ \A a \in Placing : Form("implicit", [at |-> a, ptr |-> x, main |-> y, slot |-> z])
         /\ \A a \in Found : Form("implicit", [at |-> a, ptr |-> x])
         /\ Form("implicit", [at |-> "exit", table |-> x])
BY DEF Form, Acquiring, Resizing, Choosing, Placing, Found, TokenPoints, ImplicitPoints, ConsumerPoints,
       Resting

(* Choosing a table: the point and the table change.                       *)
LEMMA FormChoosing ==
  ASSUME NEW p, Form("implicit", p), NEW x,
         p.at \in Resizing,
         NEW a \in Resizing
  PROVE  /\ Form("implicit", [p EXCEPT !.at = a])
         /\ Form("implicit", [p EXCEPT !.at = a, !.main = x])
BY DEF Form, Acquiring, Resizing, Choosing, Placing, Found, TokenPoints, ImplicitPoints, ConsumerPoints,
       Resting

(* Taking a slot, and forgetting: what changes is the slot, the point or   *)
(* the table.                                                              *)
LEMMA FormPlacing ==
  ASSUME NEW p, Form("implicit", p), NEW x
  PROVE  /\ p.at \in Placing => Form("implicit", [p EXCEPT !.slot = x])
         /\ p.at \in Found => \A a \in Found : Form("implicit", [p EXCEPT !.at = a])
         /\ p.at = "exit" => Form("implicit", [p EXCEPT !.table = x])
BY DEF Form, Acquiring, Resizing, Choosing, Placing, Found, TokenPoints, ImplicitPoints, ConsumerPoints,
       Resting

(* A consumer is asked for nothing but a point of its own.                 *)
LEMMA FormConsumer ==
  ASSUME NEW p, "at" \in DOMAIN p, p.at \in ConsumerPoints \ {"rest"}
  PROVE  Form("consumer", p)
BY DEF Form, Acquiring, Resizing, Choosing, Placing, Found, TokenPoints, ImplicitPoints, ConsumerPoints,
       Resting

(* A point tells the role of a thread that is there.                       *)
LEMMA RoleAt ==
  ASSUME NEW r \in Roles, NEW p, Form(r, p)
  PROVE  /\ p.at \in Acquiring => r \in {"token", "implicit"}
         /\ p.at = "drop" => r = "token"
         /\ p.at \in Choosing \cup Placing \cup Found \cup {"exit"} => r = "implicit"
         /\ p.at \in ConsumerPoints \ {"rest"} => r = "consumer"
BY DEF Form, Roles, Acquiring, Resizing, Choosing, Placing, Found, TokenPoints, ImplicitPoints,
       ConsumerPoints, Resting

(* A thread moves: the others stay where they are.                         *)
LEMMA PointsMove ==
  ASSUME PointsOK, alive, alive' = alive, setup' = setup, NEW t \in Threads, NEW where, Go(t, where),
         Form(role[t], where), implicitProducerHashCount' \in Int
  PROVE  PointsOK'
<1>1. DOMAIN pc' = Threads /\ \A u \in Threads \ {t} : pc'[u] = pc[u]
  BY DEF PointsOK, Go
<1>2. pc'[t] = where /\ role' = role
  BY DEF PointsOK, Go, role
<1> QED
  BY <1>1, <1>2 DEF PointsOK

(* Nobody moves.                                                           *)
LEMMA PointsStay ==
  ASSUME PointsOK, pc' = pc, setup' = setup, alive' = alive, implicitProducerHashCount' \in Int
  PROVE  PointsOK'
BY DEF PointsOK, role

(* Only a thread that is at rest meets the destructor.                     *)
LEMMA BusyAlive ==
  ASSUME PointsOK, NEW t \in Threads, pc[t].at # "rest"
  PROVE  alive
BY DEF PointsOK, Resting

(* What PointsOK says of one thread.                                       *)
LEMMA Basics ==
  ASSUME PointsOK, NEW t \in Threads
  PROVE  Form(role[t], pc[t]) /\ role[t] \in Roles /\ implicitProducerHashCount \in Int
BY Names DEF PointsOK, Roles

(* recycle_or_create_producer() keeps the forms.                           *)
LEMMA PointsProducer ==
  ASSUME PointsOK, UNCHANGED hashVars, NEW t \in Threads, RecycleOrCreate(t)
  PROVE  PointsOK'
<1> USE DEF hashVars
<1>1. Form(role[t], pc[t]) /\ role[t] \in Roles /\ implicitProducerHashCount' \in Int
  BY Basics
<1>2. pc[t].at \in Acquiring \ {"rest"} /\ alive
  BY BusyAlive DEF RecycleOrCreate, Walk, Create, Count, Push, Acquiring
<1>3. \A a \in Acquiring : \A x :
        /\ Form(role[t], [pc[t] EXCEPT !.at = a])
        /\ Form(role[t], [pc[t] EXCEPT !.ptr = x])
        /\ Form(role[t], [pc[t] EXCEPT !.at = a, !.ptr = x])
  BY <1>1, <1>2, FormAcquiring
<1>4. "create" \in Acquiring /\ "count" \in Acquiring /\ "push" \in Acquiring /\ "got" \in Acquiring
  BY DEF Acquiring
<1>5. CASE Walk(t)
  BY <1>1, <1>2, <1>3, <1>4, <1>5, PointsMove DEF Walk
<1>6. CASE Create(t)
  BY <1>1, <1>2, <1>3, <1>4, <1>6, PointsMove DEF Create
<1>7. CASE Count(t)
  BY <1>1, <1>2, <1>3, <1>4, <1>7, PointsMove DEF Count
<1>8. CASE Push(t)
  BY <1>1, <1>2, <1>3, <1>4, <1>8, PointsMove, PointsStay DEF Push
<1> QED
  BY <1>5, <1>6, <1>7, <1>8 DEF RecycleOrCreate

(* So do the steps of producers with tokens,                               *)
LEMMA PointsToken ==
  ASSUME PointsOK, OwnersOK, UNCHANGED hashVars, TokenNext
  PROVE  PointsOK'
<1> USE DEF hashVars
<1>1. implicitProducerHashCount' \in Int
  BY DEF PointsOK
<1>2. ASSUME NEW t \in Threads, NewToken(t) PROVE PointsOK'
  BY <1>1, <1>2, FormBegins, PointsMove DEF NewToken, Recycling
<1>3. ASSUME NEW t \in Threads, GotToken(t) PROVE PointsOK'
  BY <1>1, <1>3, FormSimple, BusyAlive, Basics, PointsMove DEF GotToken
<1>4. ASSUME NEW t \in Threads, EnqueueWithToken(t) PROVE PointsOK'
  BY <1>1, <1>4, PointsStay DEF EnqueueWithToken
<1>5. ASSUME NEW t \in Threads, DropToken(t) PROVE PointsOK'
  <2>1. alive
    BY <1>5 DEF DropToken, OwnersOK, Mine, Resting
  <2> QED
    BY <1>1, <1>5, <2>1, FormSimple, PointsMove DEF DropToken
<1>6. ASSUME NEW t \in Threads, Deactivate(t) PROVE PointsOK'
  BY <1>1, <1>6, FormSimple, BusyAlive, Basics, PointsMove DEF Deactivate
<1>7. ASSUME NEW t \in Threads, NEW u \in Threads, SwapTokens(t, u) PROVE PointsOK'
  BY <1>1, <1>7, PointsStay DEF SwapTokens
<1> QED
  BY <1>2, <1>3, <1>4, <1>5, <1>6, <1>7 DEF TokenNext

(* of threads that enqueue without one,                                    *)
LEMMA PointsImplicit ==
  ASSUME PointsOK, OwnersOK, NEW t \in Threads
  PROVE  /\ Find(t) => PointsOK'
         /\ Copy(t) \/ CountSlot(t) \/ LockResize(t) \/ Grow(t) \/ UnlockResize(t) => PointsOK'
         /\ CheckRoom(t) \/ GotProducer(t) \/ Insert(t) \/ Uncount(t) \/ EnqueueImplicitly(t) => PointsOK'
         /\ Exit(t) \/ Forget(t) \/ Release(t) => PointsOK'
<1> USE DEF hashVars, Choosing, Placing, Found, Acquiring
<1>1. implicitProducerHashCount \in Int
  BY Basics
<1>23. Form(role[t], pc[t]) /\ role[t] \in Roles
  BY Basics
<1>2. Form("implicit", Resting) /\ Form("implicit", [at |-> "giveUp"])
  BY FormSimple DEF Roles
<1>3. pc[t].at \in Choosing \cup Placing \cup Found \cup {"exit"} =>
        role[t] = "implicit" /\ alive /\ Form("implicit", pc[t])
  BY <1>23, RoleAt, BusyAlive DEF Resizing
<1>20. ASSUME NEW x, NEW y, NEW z
       PROVE  /\ Form("implicit", [at |-> "countSlot", main |-> x])
              /\ \A c \in Int : Form("implicit", [at |-> "resize", main |-> x, newCount |-> c])
              /\ Form("implicit", [at |-> "copy", ptr |-> x, main |-> y, slot |-> z])
              /\ Form("implicit", [at |-> "insert", ptr |-> x, main |-> y, slot |-> z])
              /\ Form("implicit", [at |-> "enqueue", ptr |-> x])
              /\ Form("implicit", [at |-> "uncount", ptr |-> x])
              /\ Form("implicit", [at |-> "exit", table |-> x])
              /\ Form("implicit", [at |-> "walk", explicit |-> FALSE, ptr |-> x, rest |-> y])
  BY FormImplicit, FormBegins
<1>24. pc[t].at \in Resizing => Form("implicit", pc[t])
  BY <1>3
<1>21. pc[t].at \in Resizing =>
         \A a \in Resizing : \A x :
           /\ Form("implicit", [pc[t] EXCEPT !.at = a])
           /\ Form("implicit", [pc[t] EXCEPT !.at = a, !.main = x])
  BY <1>24, FormChoosing
<1>22. \A x : /\ pc[t].at \in Placing => Form("implicit", [pc[t] EXCEPT !.slot = x])
              /\ pc[t].at = "uncount" => Form("implicit", [pc[t] EXCEPT !.at = "enqueue"])
              /\ pc[t].at = "exit" => Form("implicit", [pc[t] EXCEPT !.table = x])
  BY <1>3, FormPlacing
<1>4. ASSUME Find(t) PROVE PointsOK'
  <2>1. PICK k : LookUp(t, k)
    BY <1>4 DEF Find
  <2>2. PICK w : Go(t, w) /\ \/ \E x : w = [at |-> "countSlot", main |-> x]
                             \/ \E x : w = [at |-> "enqueue", ptr |-> x]
                             \/ \E x, y, z : w = [at |-> "copy", ptr |-> x, main |-> y, slot |-> z]
    BY <2>1 DEF LookUp
  <2>3. Form("implicit", w)
    BY <2>2, <1>20
  <2> QED
    BY <1>1, <1>4, <2>2, <2>3, PointsMove DEF Find
<1>5. ASSUME Copy(t) PROVE PointsOK'
  BY <1>1, <1>3, <1>5, <1>20, <1>22, PointsMove DEF Copy, TakeSlot
<1>6. ASSUME CountSlot(t) PROVE PointsOK'
  <2>1. implicitProducerHashCount' \in Int
    BY <1>1, <1>6 DEF CountSlot, Go
  <2> QED
    BY <1>3, <1>6, <1>20, <2>1, PointsMove DEF CountSlot
<1>7. ASSUME LockResize(t) PROVE PointsOK'
  BY <1>1, <1>3, <1>7, <1>21, PointsMove DEF LockResize, Resizing
<1>8. ASSUME Grow(t) PROVE PointsOK'
  <2>1. implicitProducerHashCount' \in Int
    BY <1>1, <1>8 DEF Grow
  <2> QED
    BY <1>2, <1>3, <1>8, <1>21, <2>1, PointsMove DEF Grow, Resizing
<1>9. ASSUME UnlockResize(t) PROVE PointsOK'
  BY <1>1, <1>2, <1>3, <1>9, <1>21, PointsMove DEF UnlockResize, Resizing
<1>10. ASSUME CheckRoom(t) PROVE PointsOK'
  BY <1>1, <1>3, <1>10, <1>20, <1>21, PointsMove DEF CheckRoom, Recycling, Resizing
<1>11. ASSUME GotProducer(t) PROVE PointsOK'
  <2>1. alive
    BY <1>11, BusyAlive DEF GotProducer
  <2>2. implicitProducerHashCount' \in Int
    BY <1>1, <1>11 DEF GotProducer
  <2> QED
    BY <1>2, <1>11, <1>20, <2>1, <2>2, PointsMove DEF GotProducer
<1>12. ASSUME Insert(t) PROVE PointsOK'
  BY <1>1, <1>3, <1>12, <1>20, <1>22, PointsMove DEF Insert, TakeSlot
<1>13. ASSUME Uncount(t) PROVE PointsOK'
  <2>1. implicitProducerHashCount' \in Int
    BY <1>1, <1>13 DEF Uncount
  <2> QED
    BY <1>3, <1>13, <1>22, <2>1, PointsMove DEF Uncount
<1>14. ASSUME EnqueueImplicitly(t) PROVE PointsOK'
  BY <1>1, <1>2, <1>3, <1>14, PointsMove DEF EnqueueImplicitly
<1>15. ASSUME Exit(t) PROVE PointsOK'
  <2>1. CASE held[t] = None
    BY <1>1, <1>15, <2>1, PointsStay DEF Exit
  <2>2. CASE held[t] # None
    <3>1. alive
      BY <1>15, <2>2 DEF Exit, OwnersOK, Mine, Resting
    <3> QED
      BY <1>1, <1>15, <1>20, <2>2, <3>1, PointsMove DEF Exit
  <2> QED
    BY <2>1, <2>2
<1>16. ASSUME Forget(t) PROVE PointsOK'
  BY <1>1, <1>3, <1>16, <1>22, PointsMove DEF Forget
<1>17. ASSUME Release(t) PROVE PointsOK'
  BY <1>1, <1>2, <1>3, <1>17, PointsMove DEF Release
<1> QED
  BY <1>4, <1>5, <1>6, <1>7, <1>8, <1>9, <1>10, <1>11, <1>12, <1>13, <1>14, <1>15, <1>16, <1>17

(* of consumers,                                                           *)
LEMMA PointsConsumer ==
  ASSUME PointsOK, UNCHANGED hashVars, ConsumerNext
  PROVE  PointsOK'
<1> USE DEF hashVars, ConsumerPoints
<1>1. implicitProducerHashCount' \in Int
  BY DEF PointsOK
<1>2. PICK t \in Threads :
        \/ NewConsumer(t) \/ Begin(t) \/ Leave(t)
        \/ Dequeue(t) \/ DequeueWithToken(t) \/ TakeFromProducer(t)
  BY DEF ConsumerNext
<1>3. Form(role[t], pc[t]) /\ role[t] \in Roles
  BY Basics
<1>4. Form("consumer", Resting) /\ Form("consumer", Short)
  <2>1. "at" \in DOMAIN Short /\ Short.at = "short"
    BY DEF Short
  <2> QED
    BY <2>1, FormSimple, FormConsumer DEF Roles
<1>5. pc[t].at \in ConsumerPoints \ {"rest"} =>
        role[t] = "consumer" /\ alive /\ Form("consumer", pc[t]) /\ "at" \in DOMAIN pc[t]
  BY <1>3, RoleAt, BusyAlive DEF Form
<1>6. CASE NewConsumer(t)
  BY <1>1, <1>6, PointsStay DEF NewConsumer, producerVars
<1>7. CASE Begin(t)
  <2>1. PICK call \in setup.calls : Go(t,
          CASE call.way = "scored" ->
                 [at |-> "score", ptr |-> producerListTail, nonEmpty |-> 0, best |-> None, bestSize |-> 0]
            [] call.way = "list" ->
                 [at |-> "list", ptr |-> producerListTail, max |-> call.max, best |-> None]
            [] call.way = "token" ->
                 [at |-> IF \/ consumer[t].desiredProducer = None
                            \/ consumer[t].lastKnownGlobalOffset # globalExplicitConsumerOffset
                         THEN "rotate" ELSE "current",
                  max |-> call.max, bulk |-> call.bulk])
    BY <1>7 DEF Begin
  <2>2. call.way \in {"scored", "list", "token"}
    BY QueueAssumption DEF PointsOK
  <2>3. PICK w : Go(t, w) /\ "at" \in DOMAIN w /\ w.at \in ConsumerPoints \ {"rest"}
    BY <2>1, <2>2
  <2> QED
    BY <1>1, <1>7, <2>3, FormConsumer, PointsMove DEF Begin
<1>8. CASE Leave(t)
  BY <1>1, <1>3, <1>4, <1>5, <1>8, PointsMove DEF Leave, Short
<1>9. CASE Score(t)
  BY <1>1, <1>4, <1>5, <1>9, FormConsumer, PointsMove DEF Score
<1>10. CASE TakeBest(t)
  BY <1>1, <1>4, <1>5, <1>10, FormConsumer, PointsMove DEF TakeBest
<1>11. CASE TakeFromList(t)
  BY <1>1, <1>4, <1>5, <1>11, FormConsumer, PointsMove DEF TakeFromList
<1>12. CASE TakeFromProducer(t)
  BY <1>1, <1>12, PointsStay DEF TakeFromProducer
<1>13. CASE Rotate(t)
  BY <1>1, <1>4, <1>5, <1>13, FormConsumer, PointsMove DEF Rotate
<1>14. CASE Place(t)
  BY <1>1, <1>4, <1>5, <1>14, FormConsumer, PointsMove DEF Place
<1>15. CASE TakeFromCurrent(t)
  BY <1>1, <1>4, <1>5, <1>15, FormConsumer, PointsMove DEF TakeFromCurrent
<1>16. CASE Circle(t)
  <2>1. PICK w : Go(t, w) /\ \/ w \in {Short, Resting}
                             \/ \E x, y : w = [pc[t] EXCEPT !.ptr = x, !.max = y]
    <3> DEFINE p == pc[t].ptr  max == pc[t].max
    <3>1. CASE p = consumer[t].currentProducer
      BY <1>16, <3>1 DEF Circle
    <3>2. CASE p # consumer[t].currentProducer
      <4>1. PICK n : Go(t, IF n = max THEN Resting
                           ELSE [pc[t] EXCEPT !.ptr = After(p, pc[t].tail, 1), !.max = max - n])
        BY <1>16, <3>2 DEF Circle
      <4> QED
        BY <4>1
    <3> QED
      BY <3>1, <3>2
  <2>2. Form("consumer", w)
    <3>1. \A x, y : LET v == [pc[t] EXCEPT !.ptr = x, !.max = y] IN
            "at" \in DOMAIN v /\ v.at \in ConsumerPoints \ {"rest"}
      BY <1>5, <1>16 DEF Circle
    <3> QED
      BY <1>4, <2>1, <3>1, FormConsumer
  <2> QED
    BY <1>1, <1>5, <1>16, <2>1, <2>2, PointsMove DEF Circle
<1> QED
  BY <1>2, <1>6, <1>7, <1>8, <1>9, <1>10, <1>11, <1>12, <1>13, <1>14, <1>15, <1>16
     DEF Dequeue, DequeueWithToken

(* and the destructor.                                                     *)
LEMMA PointsDestroy ==
  ASSUME PointsOK, Destroy
  PROVE  PointsOK'
BY DEF PointsOK, Destroy, role

(* Every step keeps the forms.                                             *)
LEMMA PointsNext ==
  ASSUME PointsOK, OwnersOK, Next
  PROVE  PointsOK'
BY PointsProducer, PointsToken, PointsImplicit, PointsConsumer, PointsDestroy
   DEF Next, ImplicitNext

----------------------------------------------------------------------------
(* What others leave alone.                                                *)

(* Consumers change no producer but its size.                              *)
LEMMA ConsumerFrame ==
  ASSUME PointsOK, ConsumerNext
  PROVE  /\ UNCHANGED <<setup, alive, producerListTail, producerCount, next, isExplicit, inactive,
                        tokenOf, held>>
         /\ \A u \in Threads : pc'[u] = pc[u] \/ role[u] = "consumer"
<1>1. DOMAIN pc = Threads
  BY DEF PointsOK
<1>2. PICK t \in Threads :
        \/ NewConsumer(t) \/ Begin(t) \/ Leave(t)
        \/ Dequeue(t) \/ DequeueWithToken(t) \/ TakeFromProducer(t)
  BY DEF ConsumerNext
<1>3. Form(role[t], pc[t]) /\ role[t] \in Roles
  BY Basics
<1>4. pc[t].at \in ConsumerPoints \ {"rest"} => role[t] = "consumer"
  BY <1>3, RoleAt
<1>5. CASE NewConsumer(t) \/ Begin(t) \/ TakeFromProducer(t)
  BY <1>1, <1>5 DEF NewConsumer, Begin, TakeFromProducer, Go, producerVars, listVars, tokenVars
<1>6. CASE Leave(t) \/ Dequeue(t) \/ DequeueWithToken(t)
  <2>1. role[t] = "consumer"
    <3>1. pc[t].at \in {"short", "score", "best", "list", "rotate", "place", "current", "circle"}
      <4>1. CASE Leave(t)
        BY <4>1 DEF Leave, Short
      <4>2. CASE Dequeue(t)
        BY <4>2 DEF Dequeue, Score, TakeBest, TakeFromList
      <4>3. CASE DequeueWithToken(t)
        BY <4>3 DEF DequeueWithToken, Rotate, Place, TakeFromCurrent, Circle
      <4> QED
        BY <1>6, <4>1, <4>2, <4>3
    <3> QED
      BY <1>4, <3>1 DEF ConsumerPoints
  <2>2. UNCHANGED <<setup, alive, producerListTail, producerCount, next, isExplicit, inactive,
                    tokenOf, held>>
    BY <1>6 DEF Leave, Dequeue, Score, TakeBest, TakeFromList, DequeueWithToken,
       Rotate, Place, TakeFromCurrent, Circle, listVars, tokenVars
  <2>3. \A u \in Threads \ {t} : pc'[u] = pc[u]
    BY <1>1, <1>6 DEF Leave, Dequeue, Score, TakeBest, TakeFromList, DequeueWithToken,
       Rotate, Place, TakeFromCurrent, Circle, Go
  <2> QED
    BY <2>1, <2>2, <2>3
<1> QED
  BY <1>2, <1>5, <1>6

----------------------------------------------------------------------------
(* The producers that there are.                                           *)

(* Producers are numbered as they are created, and none is destroyed       *)
(* before the queue is.                                                    *)
LEMMA CreatedNext ==
  ASSUME PointsOK, CreatedOK, Next
  PROVE  CreatedOK'
<1> USE DEF CreatedOK, Created
<1>1. ASSUME NEW t \in Threads, RecycleOrCreate(t) PROVE CreatedOK'
  <2>1. CASE Create(t) /\ isExplicit' # isExplicit
    <3> DEFINE p == Cardinality(Created) + 1
    <3>1. PICK n \in Nat : Created = 1 .. n
      OBVIOUS
    <3>2. p = n + 1
      BY <3>1, FS_Interval
    <3>3. /\ isExplicit' = Extended(isExplicit, p, pc[t].explicit)
          /\ inactive' = Extended(inactive, p, FALSE)
          /\ tokenOf' = Extended(tokenOf, p, None)
      BY <2>1 DEF Create
    <3>4. pc[t].explicit \in BOOLEAN
      BY <2>1, Basics DEF Create, Form, Acquiring
    <3>5. DOMAIN isExplicit' = 1 .. n + 1 /\ DOMAIN inactive' = 1 .. n + 1 /\ DOMAIN tokenOf' = 1 .. n + 1
      BY <3>1, <3>2, <3>3 DEF Extended
    <3>6. /\ isExplicit' \in [1 .. n + 1 -> BOOLEAN]
          /\ inactive' \in [1 .. n + 1 -> BOOLEAN]
      <4>1. 1 .. n \cup {n + 1} = 1 .. n + 1
        BY <3>1
      <4>2. /\ isExplicit' = [z \in 1 .. n + 1 |-> IF z = n + 1 THEN pc[t].explicit ELSE isExplicit[z]]
            /\ inactive' = [z \in 1 .. n + 1 |-> IF z = n + 1 THEN FALSE ELSE inactive[z]]
        BY <3>1, <3>2, <3>3, <4>1 DEF Extended
      <4>3. \A z \in 1 .. n + 1 : z # n + 1 => isExplicit[z] \in BOOLEAN /\ inactive[z] \in BOOLEAN
        BY <3>1
      <4> QED
        BY <4>2, <4>3, <3>4
    <3> QED
      BY SMTT(30), <3>5, <3>6
  <2>2. CASE Create(t) /\ isExplicit' = isExplicit
    <3>1. UNCHANGED <<isExplicit, inactive, tokenOf>>
      <4>1. CASE UNCHANGED <<isExplicit, inactive, tokenOf, size>>
        BY <4>1
      <4>2. CASE isExplicit' = Extended(isExplicit, Cardinality(Created) + 1, pc[t].explicit)
        <5>1. PICK n \in Nat : Created = 1 .. n
          OBVIOUS
        <5>2. Cardinality(Created) = n
          BY <5>1, FS_Interval
        <5>3. n + 1 \in DOMAIN isExplicit'
          BY <4>2, <5>2 DEF Extended
        <5> QED
          BY <2>2, <5>1, <5>3
      <4> QED
        BY <2>2, <4>1, <4>2 DEF Create
    <3> QED
      BY <3>1
  <2>3. CASE Walk(t) \/ Count(t) \/ Push(t)
    BY <2>3 DEF Walk, Count, Push, listVars, tokenVars
  <2> QED
    BY <1>1, <2>1, <2>2, <2>3 DEF RecycleOrCreate
<1>2. CASE TokenNext
  <2>1. ASSUME NEW t \in Threads, NewToken(t) \/ GotToken(t) \/ EnqueueWithToken(t) \/ DropToken(t)
        PROVE  CreatedOK'
    BY <2>1 DEF NewToken, GotToken, EnqueueWithToken, DropToken, listVars, tokenVars
  <2>2. ASSUME NEW t \in Threads, Deactivate(t)
        PROVE  CreatedOK'
    BY <2>2 DEF Deactivate
  <2>3. ASSUME NEW t \in Threads, NEW u \in Threads, SwapTokens(t, u)
        PROVE  CreatedOK'
    BY <2>3 DEF SwapTokens, listVars
  <2> QED
    BY <1>2, <2>1, <2>2, <2>3 DEF TokenNext
<1>3. CASE ImplicitNext
  BY <1>3 DEF ImplicitNext, Find, Copy, CountSlot, LockResize, Grow, UnlockResize, CheckRoom,
     GotProducer, Insert, Uncount, EnqueueImplicitly, Exit, Forget, Release, listVars, tokenVars
<1>4. CASE ConsumerNext
  BY ZenonT(30), <1>4 DEF ConsumerNext, NewConsumer, Begin, Leave, Dequeue, Score, TakeBest, TakeFromList,
     DequeueWithToken, Rotate, Place, TakeFromCurrent, Circle, TakeFromProducer, producerVars,
     listVars, tokenVars
<1>5. CASE Destroy
  BY SMTT(30), <1>5 DEF Destroy, EmptyFunction
<1> QED
  BY <1>1, <1>2, <1>3, <1>4, <1>5 DEF Next

----------------------------------------------------------------------------
(* The ids of the threads.                                                 *)

(* The ids stay as they are.                                               *)
LEMMA IdsStay ==
  ASSUME IdsOK, id' = id, setup' = setup,
         \A u \in Threads : role[u] = "implicit" /\ (pc'[u].at # "rest" \/ held'[u] # None)
                              => pc[u].at # "rest" \/ held[u] # None \/ id[u] # None
  PROVE  IdsOK'
BY DEF IdsOK, role

(* A thread takes an id that no other has, and gives it back only when it  *)
(* has no producer.                                                        *)
LEMMA IdsImplicit ==
  ASSUME PointsOK, PointsOK', OwnersOK, IdsOK, NEW t \in Threads
  PROVE  /\ Find(t) => IdsOK'
         /\ Copy(t) \/ CountSlot(t) \/ LockResize(t) \/ Grow(t) \/ UnlockResize(t) => IdsOK'
         /\ CheckRoom(t) \/ GotProducer(t) \/ Insert(t) \/ Uncount(t) \/ EnqueueImplicitly(t) => IdsOK'
         /\ Exit(t) \/ Forget(t) \/ Release(t) => IdsOK'
<1>1. DOMAIN pc = Threads /\ DOMAIN held = Threads /\ DOMAIN id = Threads
  BY DEF PointsOK, OwnersOK, IdsOK
<1>2. ASSUME Find(t) PROVE IdsOK'
  <2>1. PICK k : /\ id' = [id EXCEPT ![t] = k] /\ LookUp(t, k)
                 /\ k \in IF id[t] = None THEN setup.ids \ {id[u] : u \in Threads} ELSE {id[t]}
    BY <1>2 DEF Find
  <2>2. role[t] = "implicit" /\ held' = held /\ setup' = setup /\ role' = role
    BY <1>2 DEF Find, tokenVars, role
  <2>3. \A u \in Threads \ {t} : pc'[u] = pc[u] /\ id'[u] = id[u]
    BY <1>1, <2>1 DEF LookUp, Go
  <2>4. id'[t] = k /\ k # None /\ k \in setup.ids /\ \A u \in Threads \ {t} : id[u] # k
    <3>1. None \notin setup.ids
      BY Names DEF PointsOK
    <3> QED
      BY <1>1, <2>1, <3>1 DEF IdsOK
  <2>5. DOMAIN id' = Threads
    BY <1>1, <2>1
  <2> QED
    BY <2>2, <2>3, <2>4, <2>5 DEF IdsOK
<1>3. ASSUME Copy(t) \/ CountSlot(t) \/ LockResize(t) \/ Grow(t) \/ UnlockResize(t) PROVE IdsOK'
  <2>1. id' = id /\ setup' = setup /\ held' = held /\ pc[t].at # "rest"
    BY <1>3 DEF Copy, CountSlot, LockResize, Grow, UnlockResize, tokenVars
  <2>2. \A u \in Threads \ {t} : pc'[u] = pc[u]
    BY <1>1, <1>3 DEF Copy, TakeSlot, CountSlot, LockResize, Grow, UnlockResize, Go
  <2> QED
    BY <2>1, <2>2, IdsStay
<1>4. ASSUME CheckRoom(t) \/ GotProducer(t) \/ Insert(t) \/ Uncount(t) \/ EnqueueImplicitly(t)
      PROVE  IdsOK'
  <2>1. /\ id' = id /\ setup' = setup /\ pc[t].at # "rest"
        /\ \A u \in Threads \ {t} : held'[u] = held[u]
    BY <1>1, <1>4 DEF CheckRoom, GotProducer, Insert, Uncount, EnqueueImplicitly, hashVars, tokenVars
  <2>2. \A u \in Threads \ {t} : pc'[u] = pc[u]
    BY <1>1, <1>4 DEF CheckRoom, GotProducer, Insert, TakeSlot, Uncount, EnqueueImplicitly, Go
  <2> QED
    BY <2>1, <2>2, IdsStay
<1>5. ASSUME Exit(t) PROVE IdsOK'
  <2>1. CASE held[t] = None
    BY <1>1, <1>5, <2>1 DEF Exit, IdsOK, tokenVars, role, Resting
  <2>2. CASE held[t] # None
    <3>1. \A u \in Threads \ {t} : pc'[u] = pc[u]
      BY <1>1, <1>5, <2>2 DEF Exit, Go
    <3> QED
      BY <1>5, <2>2, <3>1, IdsStay DEF Exit, tokenVars
  <2> QED
    BY <2>1, <2>2
<1>6. ASSUME Forget(t) PROVE IdsOK'
  <2>1. \A u \in Threads \ {t} : pc'[u] = pc[u]
    BY <1>1, <1>6 DEF Forget, Go
  <2> QED
    BY <1>6, <2>1, IdsStay DEF Forget, tokenVars
<1>7. ASSUME Release(t) PROVE IdsOK'
  <2>1. /\ pc'[t] = Resting /\ held'[t] = None /\ id'[t] = None /\ role' = role /\ setup' = setup
        /\ \A u \in Threads \ {t} : pc'[u] = pc[u] /\ held'[u] = held[u] /\ id'[u] = id[u]
        /\ DOMAIN id' = Threads
    BY <1>1, <1>7 DEF Release, Go, role
  <2> QED
    BY <2>1 DEF IdsOK, Resting
<1> QED
  BY <1>2, <1>3, <1>4, <1>5, <1>6, <1>7

(* Every step keeps the ids apart.                                         *)
LEMMA IdsNext ==
  ASSUME PointsOK, PointsOK', OwnersOK, IdsOK, Next
  PROVE  IdsOK'
<1>1. DOMAIN pc = Threads /\ DOMAIN held = Threads
  BY DEF PointsOK, OwnersOK
<1>2. ASSUME UNCHANGED hashVars, NEW t \in Threads, RecycleOrCreate(t) PROVE IdsOK'
  <2>1. id' = id /\ setup' = setup /\ held' = held /\ pc[t].at # "rest"
    BY <1>2 DEF RecycleOrCreate, Walk, Create, Count, Push, tokenVars, hashVars
  <2>2. \A u \in Threads \ {t} : pc'[u] = pc[u]
    BY <1>1, <1>2 DEF RecycleOrCreate, Walk, Create, Count, Push, Go
  <2> QED
    BY <2>1, <2>2, IdsStay
<1>3. CASE UNCHANGED hashVars /\ TokenNext
  <2>1. id' = id /\ setup' = setup
    BY <1>3 DEF TokenNext, hashVars, NewToken, GotToken, EnqueueWithToken, DropToken, Deactivate,
       SwapTokens
  <2>2. \A u \in Threads : role[u] = "implicit" => pc'[u] = pc[u] /\ held'[u] = held[u]
    <3>1. ASSUME NEW t \in Threads, NEW u \in Threads, role[u] = "implicit",
                 NewToken(t) \/ GotToken(t) \/ EnqueueWithToken(t) \/ DropToken(t)
          PROVE  pc'[u] = pc[u] /\ held'[u] = held[u]
      BY <1>1, <3>1 DEF NewToken, GotToken, EnqueueWithToken, DropToken, Go, tokenVars
    <3>2. ASSUME NEW t \in Threads, NEW u \in Threads, role[u] = "implicit", Deactivate(t)
          PROVE  pc'[u] = pc[u] /\ held'[u] = held[u]
      <4>1. role[t] = "token"
        BY <3>2, Basics, RoleAt DEF Deactivate
      <4> QED
        BY <1>1, <3>2, <4>1 DEF Deactivate, Go
    <3>3. ASSUME NEW t \in Threads, NEW v \in Threads, NEW u \in Threads, role[u] = "implicit",
                 SwapTokens(t, v)
          PROVE  pc'[u] = pc[u] /\ held'[u] = held[u]
      BY <1>1, <3>3 DEF SwapTokens
    <3> QED
      BY <1>3, <3>1, <3>2, <3>3 DEF TokenNext
  <2> QED
    BY <2>1, <2>2, IdsStay
<1>4. CASE ImplicitNext
  BY <1>4, IdsImplicit DEF ImplicitNext
<1>5. CASE UNCHANGED hashVars /\ ConsumerNext
  <2>1. id' = id /\ setup' = setup /\ held' = held
    BY <1>5, ConsumerFrame DEF hashVars
  <2>2. \A u \in Threads : role[u] = "implicit" => pc'[u] = pc[u]
    BY <1>5, ConsumerFrame
  <2> QED
    BY <2>1, <2>2, IdsStay
<1>6. CASE Destroy
  <2>1. id' = id /\ setup' = setup /\ pc' = pc /\ \A u \in Threads : held'[u] = held[u] \/ held'[u] = None
    BY <1>6 DEF Destroy
  <2> QED
    BY <2>1, IdsStay
<1> QED
  BY <1>2, <1>3, <1>4, <1>5, <1>6 DEF Next

----------------------------------------------------------------------------
(* The list of the producers.                                              *)

(* The list stays, and nobody begins or ends to add to it.                 *)
LEMMA ChainStays ==
  ASSUME ChainOK, UNCHANGED <<producerListTail, producerCount, next, isExplicit>>,
         \A u \in Threads : pc'[u] = pc[u] \/ {pc[u].at, pc'[u].at} \cap {"count", "push"} = {}
  PROVE  ChainOK'
<1>1. Listed' = Listed /\ Created' = Created
  BY ListedIsChain DEF Created
<1>2. \A p : Adding(p)' <=> Adding(p)
  BY DEF Adding
<1>3. \A p : (\A t \in Threads : ~(pc'[t].at = "count" /\ pc'[t].ptr = p))
               <=> (\A t \in Threads : ~(pc[t].at = "count" /\ pc[t].ptr = p))
  OBVIOUS
<1> QED
  BY <1>1, <1>2, <1>3 DEF ChainOK

(* Tokens leave the list alone.                                            *)
LEMMA ChainToken ==
  ASSUME PointsOK, ChainOK, TokenNext
  PROVE  ChainOK'
<1>1. DOMAIN pc = Threads
  BY DEF PointsOK
<1>2. ASSUME NEW t \in Threads,
             NewToken(t) \/ GotToken(t) \/ EnqueueWithToken(t) \/ DropToken(t) \/ Deactivate(t)
      PROVE  ChainOK'
  <2>1. UNCHANGED <<producerListTail, producerCount, next, isExplicit>>
    BY <1>2 DEF NewToken, GotToken, EnqueueWithToken, DropToken, Deactivate, listVars
  <2>2. \A u \in Threads \ {t} : pc'[u] = pc[u]
    BY <1>1, <1>2 DEF NewToken, GotToken, EnqueueWithToken, DropToken, Deactivate, Go
  <2>3. pc'[t] = pc[t] \/ {pc[t].at, pc'[t].at} \cap {"count", "push"} = {}
    BY <1>1, <1>2 DEF NewToken, Recycling, GotToken, EnqueueWithToken, DropToken, Deactivate, Go,
       Resting
  <2> QED
    BY <2>1, <2>2, <2>3, ChainStays
<1>3. ASSUME NEW t \in Threads, NEW u \in Threads, SwapTokens(t, u) PROVE ChainOK'
  BY <1>3, ChainStays DEF SwapTokens, listVars
<1> QED
  BY <1>2, <1>3 DEF TokenNext

(* Where the steps of a thread without a token lead.                       *)
LEMMA ChoosingMoves ==
  ASSUME PointsOK, NEW t \in Threads
  PROVE  /\ CountSlot(t) \/ LockResize(t) \/ Grow(t) \/ UnlockResize(t) =>
              /\ \A u \in Threads \ {t} : pc'[u] = pc[u]
              /\ pc'[t].at \in Choosing \cup {"rest"}
         /\ CheckRoom(t) =>
              /\ \A u \in Threads \ {t} : pc'[u] = pc[u]
              /\ pc'[t].at \in Choosing \cup {"walk"}
<1> USE DEF Choosing, Resizing, Go
<1>1. DOMAIN pc = Threads /\ "at" \in DOMAIN pc[t]
  BY Basics DEF PointsOK, Form
<1>2. ASSUME CountSlot(t)
      PROVE  (\A u \in Threads \ {t} : pc'[u] = pc[u]) /\ pc'[t].at \in Choosing \cup {"rest"}
  BY <1>1, <1>2 DEF CountSlot
<1>3. ASSUME LockResize(t)
      PROVE  (\A u \in Threads \ {t} : pc'[u] = pc[u]) /\ pc'[t].at \in Choosing \cup {"rest"}
  BY <1>1, <1>3 DEF LockResize
<1>4. ASSUME Grow(t)
      PROVE  (\A u \in Threads \ {t} : pc'[u] = pc[u]) /\ pc'[t].at \in Choosing \cup {"rest"}
  <2>1. PICK w : Go(t, w) /\ w.at \in {"unlock", "giveUp"}
    <3>1. \A x : [pc[t] EXCEPT !.at = "unlock", !.main = x].at = "unlock"
      BY <1>1
    <3>2. [pc[t] EXCEPT !.at = "unlock"].at = "unlock"
      BY <1>1
    <3>3. [at |-> "giveUp"].at = "giveUp"
      OBVIOUS
    <3> HIDE DEF Go
    <3> QED
      BY <1>4, <3>1, <3>2, <3>3 DEF Grow
  <2> QED
    BY <1>1, <2>1
<1>5. ASSUME UnlockResize(t)
      PROVE  (\A u \in Threads \ {t} : pc'[u] = pc[u]) /\ pc'[t].at \in Choosing \cup {"rest"}
  BY <1>1, <1>5 DEF UnlockResize, Resting
<1>6. ASSUME CheckRoom(t)
      PROVE  (\A u \in Threads \ {t} : pc'[u] = pc[u]) /\ pc'[t].at \in Choosing \cup {"walk"}
  BY <1>1, <1>6 DEF CheckRoom, Recycling
<1> QED
  BY <1>2, <1>3, <1>4, <1>5, <1>6

(* What a step of a thread that enqueues without a token leaves alone.     *)
LEMMA ImplicitMoves ==
  ASSUME PointsOK, NEW t \in Threads,
         \/ Find(t) \/ Copy(t) \/ CountSlot(t) \/ LockResize(t) \/ Grow(t) \/ UnlockResize(t)
         \/ CheckRoom(t) \/ GotProducer(t) \/ Insert(t) \/ Uncount(t) \/ EnqueueImplicitly(t)
         \/ Exit(t) \/ Forget(t) \/ Release(t)
  PROVE  /\ role[t] = "implicit" /\ setup' = setup /\ alive' = alive /\ tokenOf' = tokenOf
         /\ UNCHANGED <<producerListTail, producerCount, next, isExplicit>>
         /\ \A u \in Threads \ {t} : pc'[u] = pc[u]
         /\ pc'[t] = pc[t] \/ {pc[t].at, pc'[t].at} \cap {"count", "push"} = {}
<1>1. DOMAIN pc = Threads /\ Form(role[t], pc[t]) /\ role[t] \in Roles
  BY Basics DEF PointsOK
<1>2. CASE Find(t)
  <2>1. PICK k : LookUp(t, k)
    BY <1>2 DEF Find
  <2>2. /\ \A u \in Threads \ {t} : pc'[u] = pc[u]
        /\ pc'[t].at \in {"countSlot", "enqueue", "copy"}
    BY <1>1, <2>1 DEF LookUp, Go
  <2> QED
    BY <1>2, <2>2 DEF Find, listVars, tokenVars, Resting
<1>3. CASE Copy(t) \/ Insert(t)
  <2>1. role[t] = "implicit" /\ pc[t].at \in {"copy", "insert"} /\ "at" \in DOMAIN pc[t]
    BY <1>1, <1>3, RoleAt DEF Copy, Insert, Placing, Form
  <2>2. /\ \A u \in Threads \ {t} : pc'[u] = pc[u]
        /\ pc'[t].at \in {"copy", "insert", "uncount", "enqueue"}
    BY <1>1, <1>3, <2>1 DEF Copy, Insert, TakeSlot, Go
  <2> QED
    BY <1>3, <2>1, <2>2 DEF Copy, Insert, listVars, tokenVars
<1>4. CASE CountSlot(t) \/ LockResize(t) \/ Grow(t) \/ UnlockResize(t) \/ CheckRoom(t)
  <2>1. /\ role[t] = "implicit" /\ pc[t].at \in Choosing /\ "at" \in DOMAIN pc[t]
    BY <1>1, <1>4, RoleAt DEF CountSlot, LockResize, Grow, UnlockResize, CheckRoom, Choosing, Resizing,
       Form
  <2>2. /\ \A u \in Threads \ {t} : pc'[u] = pc[u]
        /\ pc'[t].at \in Choosing \cup {"rest", "walk"}
    BY <1>4, ChoosingMoves
  <2> QED
    BY <1>4, <2>1, <2>2 DEF CountSlot, LockResize, Grow, UnlockResize, CheckRoom, Choosing, Resizing,
       listVars, tokenVars
<1>5. CASE GotProducer(t)
  BY <1>1, <1>5 DEF GotProducer, Go, Resting, listVars
<1>6. CASE Uncount(t) \/ EnqueueImplicitly(t)
  <2>1. role[t] = "implicit" /\ "at" \in DOMAIN pc[t]
    BY <1>1, <1>6, RoleAt DEF Uncount, EnqueueImplicitly, Found, Form
  <2> QED
    BY <1>1, <1>6, <2>1 DEF Uncount, EnqueueImplicitly, Go, Resting, listVars, tokenVars
<1>7. CASE Exit(t)
  BY <1>1, <1>7 DEF Exit, Go, Resting, listVars, tokenVars
<1>8. CASE Forget(t) \/ Release(t)
  <2>1. role[t] = "implicit" /\ "at" \in DOMAIN pc[t]
    BY <1>1, <1>8, RoleAt DEF Forget, Release, Form
  <2> QED
    BY <1>1, <1>8, <2>1 DEF Forget, Release, Go, Resting, listVars, tokenVars
<1> QED
  BY <1>2, <1>3, <1>4, <1>5, <1>6, <1>7, <1>8

(* A created producer is not in the list yet, and is being added.          *)
LEMMA ChainCreate ==
  ASSUME PointsOK, CreatedOK, ChainOK, OwnersOK, NEW t \in Threads, Create(t)
  PROVE  ChainOK'
<1>1. DOMAIN pc = Threads /\ Form(role[t], pc[t]) /\ pc[t].at = "create"
  BY Basics DEF PointsOK, Create
<1>2. /\ \A u \in Threads \ {t} : pc'[u] = pc[u]
      /\ UNCHANGED <<producerListTail, producerCount, next>>
  BY <1>1 DEF Create, Go
<1>3. CASE isExplicit' = isExplicit /\ pc'[t].at = "got"
  BY <1>1, <1>2, <1>3, ChainStays
<1>4. CASE \E n \in Nat : /\ Created = 1 .. n /\ Created' = 1 .. n + 1
                          /\ pc'[t].at = "count" /\ pc'[t].ptr = n + 1
  <2>1. PICK n \in Nat : /\ Created = 1 .. n /\ Created' = 1 .. n + 1
                         /\ pc'[t].at = "count" /\ pc'[t].ptr = n + 1
    BY <1>4
  <2>2. \A u \in Threads : pc[u].at \in {"count", "push"} => pc[u].ptr \in 1 .. n
    BY <2>1 DEF OwnersOK, AtPoint, Mine
  <2>3. Listed' = Listed
    BY <1>2, ListedIsChain
  <2>4. \A p \in 1 .. n : Adding(p)' <=> Adding(p)
    <3>1. \A p \in 1 .. n : p # n + 1
      OBVIOUS
    <3> QED
      BY <1>1, <1>2, <2>1, <3>1 DEF Adding
  <2>5. Adding(n + 1)'
    BY <2>1 DEF Adding
  <2>6. Listed' = {p \in Created' : ~Adding(p)'}
    BY <2>1, <2>3, <2>4, <2>5 DEF ChainOK
  <2>7. DOMAIN next' = {p \in Created' : \A u \in Threads : ~(pc'[u].at = "count" /\ pc'[u].ptr = p)}
    <3>1. \A p \in 1 .. n : p # n + 1
      OBVIOUS
    <3>2. \A p \in 1 .. n : (\A u \in Threads : ~(pc'[u].at = "count" /\ pc'[u].ptr = p))
                              <=> (\A u \in Threads : ~(pc[u].at = "count" /\ pc[u].ptr = p))
      BY <1>1, <1>2, <2>1, <3>1
    <3> QED
      BY <1>2, <2>1, <3>2 DEF ChainOK
  <2> QED
    BY <1>2, <2>6, <2>7 DEF ChainOK
<1> QED
  <2>1. PICK n \in Nat : Created = 1 .. n
    BY DEF CreatedOK
  <2>2. Cardinality(Created) = n
    BY <2>1, FS_Interval
  <2>3. CASE UNCHANGED isExplicit /\ Go(t, [pc[t] EXCEPT !.at = "got"])
    <3>1. pc'[t].at = "got"
      BY <1>1, <2>3 DEF Go, Form
    <3> QED
      BY <1>3, <2>3, <3>1
  <2>4. CASE /\ isExplicit' = Extended(isExplicit, n + 1, pc[t].explicit)
             /\ Go(t, [pc[t] EXCEPT !.at = "count", !.ptr = n + 1])
    <3>1. pc'[t].at = "count" /\ pc'[t].ptr = n + 1
      BY <1>1, <2>4 DEF Go, Form, Acquiring
    <3>2. Created' = 1 .. n + 1
      BY <2>1, <2>4 DEF Created, Extended
    <3> QED
      BY <1>4, <2>1, <3>1, <3>2
  <2> QED
    BY <2>2, <2>3, <2>4 DEF Create

(* Only one thread adds a producer.                                        *)
LEMMA AddsAlone ==
  ASSUME OwnersOK, NEW t \in Threads, pc[t].at \in {"count", "push"}
  PROVE  /\ pc[t].ptr # None /\ pc[t].ptr \in Created
         /\ \A u \in Threads \ {t} : pc[u].at \in {"count", "push"} => pc[u].ptr # pc[t].ptr
BY DEF OwnersOK, AtPoint, Mine

(* It is counted, and points to the producer that was added last.          *)
LEMMA ChainCount ==
  ASSUME PointsOK, ChainOK, OwnersOK, NEW t \in Threads, Count(t)
  PROVE  ChainOK'
<1> DEFINE p == pc[t].ptr
<1>1. DOMAIN pc = Threads /\ Form(role[t], pc[t]) /\ pc[t].at = "count"
  BY Basics DEF PointsOK, Count
<1>2. /\ \A u \in Threads \ {t} : pc'[u] = pc[u]
      /\ pc'[t].at = "push" /\ pc'[t].ptr = p
      /\ UNCHANGED <<producerListTail, isExplicit>>
      /\ producerCount' = producerCount + 1
      /\ next' = Extended(next, p, producerListTail)
  BY <1>1 DEF Count, Go, Form, Acquiring
<1>3. /\ p # None /\ p \in Created /\ p \notin DOMAIN next
      /\ \A u \in Threads \ {t} : pc[u].at \in {"count", "push"} => pc[u].ptr # p
  BY <1>1, AddsAlone DEF ChainOK
<1>4. /\ DOMAIN next' = DOMAIN next \cup {p} /\ next'[p] = producerListTail
      /\ \A q \in DOMAIN next : next'[q] = next[q]
  BY <1>2, <1>3 DEF Extended
<1>5. Closed(next, producerListTail) /\ Closed(next', producerListTail)
  BY <1>4 DEF Closed, ChainOK
<1>6. Listed' = Listed
  <2>1. Chain(next', producerListTail) = Chain(next, producerListTail)
    BY <1>4, <1>5, ChainSame, ChainClosed
  <2> QED
    BY <1>2, <2>1, ListedIsChain
<1>7. \A q : Adding(q)' <=> Adding(q)
  BY <1>1, <1>2 DEF Adding
<1>8. Created' = Created
  BY <1>2 DEF Created
<1>9. DOMAIN next' = {q \in Created' : \A u \in Threads : ~(pc'[u].at = "count" /\ pc'[u].ptr = q)}
  <2>1. \A q \in Created : q # p =>
          ((\A u \in Threads : ~(pc'[u].at = "count" /\ pc'[u].ptr = q))
             <=> (\A u \in Threads : ~(pc[u].at = "count" /\ pc[u].ptr = q)))
    BY <1>1, <1>2
  <2>2. \A u \in Threads : ~(pc'[u].at = "count" /\ pc'[u].ptr = p)
    BY <1>2, <1>3
  <2> QED
    BY <1>3, <1>4, <1>8, <2>1, <2>2 DEF ChainOK
<1>10. IsFiniteSet(DOMAIN next') /\ producerCount' = Cardinality(DOMAIN next')
  <2>1. /\ p \notin DOMAIN next /\ DOMAIN next' = DOMAIN next \cup {p}
        /\ IsFiniteSet(DOMAIN next) /\ producerCount = Cardinality(DOMAIN next)
    BY <1>3, <1>4 DEF ChainOK
  <2>2. /\ IsFiniteSet(DOMAIN next \cup {p})
        /\ Cardinality(DOMAIN next \cup {p}) = Cardinality(DOMAIN next) + 1
    BY <2>1, FS_AddElement
  <2> QED
    BY <1>2, <2>1, <2>2
<1> QED
  BY <1>2, <1>5, <1>6, <1>7, <1>8, <1>9, <1>10 DEF ChainOK, Closed

(* It is in the list, if no other came before; else it is pointed anew.    *)
LEMMA ChainPush ==
  ASSUME PointsOK, ChainOK, OwnersOK, None \notin Created, NEW t \in Threads, Push(t)
  PROVE  ChainOK'
<1> DEFINE p == pc[t].ptr
<1>1. DOMAIN pc = Threads /\ Form(role[t], pc[t]) /\ pc[t].at = "push"
  BY Basics DEF PointsOK, Push
<1>2. /\ p # None /\ p \in Created
      /\ \A u \in Threads \ {t} : pc[u].at \in {"count", "push"} => pc[u].ptr # p
  BY <1>1, AddsAlone
<1>3. p \in DOMAIN next /\ p \notin Listed
  BY <1>1, <1>2 DEF ChainOK, Adding
<1>4. Closed(next, producerListTail) /\ Created' = Created /\ producerCount' = producerCount
  BY DEF Closed, ChainOK, Push, Created
<1>5. CASE producerListTail = next[p]
  <2>1. /\ producerListTail' = p /\ next' = next /\ \A u \in Threads \ {t} : pc'[u] = pc[u]
        /\ pc'[t].at = "got"
    BY <1>1, <1>5 DEF Push, Go, Form
  <2>2. Listed' = Listed \cup {p}
    BY <1>2, <1>3, <1>4, <1>5, <2>1, ChainPushed, ListedIsChain
  <2>3. \A q : Adding(q)' <=> Adding(q) /\ q # p
    BY <1>1, <1>2, <2>1 DEF Adding
  <2>4. \A q : (\A u \in Threads : ~(pc'[u].at = "count" /\ pc'[u].ptr = q))
                 <=> (\A u \in Threads : ~(pc[u].at = "count" /\ pc[u].ptr = q))
    BY <1>1, <2>1
  <2> QED
    BY <1>2, <1>3, <1>4, <2>1, <2>2, <2>3, <2>4 DEF ChainOK
<1>6. CASE producerListTail # next[p]
  <2>1. /\ producerListTail' = producerListTail /\ pc' = pc
        /\ next' = [next EXCEPT ![p] = producerListTail]
    BY <1>6 DEF Push
  <2>2. /\ DOMAIN next' = DOMAIN next /\ next'[p] = producerListTail
        /\ \A q \in DOMAIN next : q # p => next'[q] = next[q]
    BY <1>3, <2>1
  <2>3. Closed(next', producerListTail)
    BY <1>4, <2>2 DEF Closed
  <2>4. Chain(next, producerListTail) \subseteq DOMAIN next /\ p \notin Chain(next, producerListTail)
    BY <1>3, <1>4, ChainClosed, ListedIsChain
  <2>5. \A q \in Chain(next, producerListTail) : q \in DOMAIN next' /\ next'[q] = next[q]
    BY <2>2, <2>4
  <2>6. Chain(next', producerListTail) = Chain(next, producerListTail)
    BY <1>4, <2>3, <2>5, ChainSame
  <2>7. Listed' = Listed
    BY <2>1, <2>6, ListedIsChain
  <2>8. \A q : Adding(q)' <=> Adding(q)
    BY <2>1 DEF Adding
  <2> QED
    BY <1>4, <2>1, <2>2, <2>3, <2>7, <2>8 DEF ChainOK, Closed
<1> QED
  BY <1>5, <1>6

(* Every step keeps the list whole.                                        *)
LEMMA ChainNext ==
  ASSUME PointsOK, PointsOK', CreatedOK, ChainOK, OwnersOK, Next
  PROVE  ChainOK'
<1>1. DOMAIN pc = Threads /\ None \notin Created
  BY Names DEF PointsOK, CreatedOK
<1>2. ASSUME NEW t \in Threads, RecycleOrCreate(t) PROVE ChainOK'
  <2>1. CASE Walk(t)
    <3>1. Form(role[t], pc[t])
      BY Basics
    <3>2. /\ \A u \in Threads \ {t} : pc'[u] = pc[u]
          /\ pc[t].at = "walk" /\ pc'[t].at \in {"walk", "create", "got"}
          /\ UNCHANGED <<producerListTail, producerCount, next, isExplicit>>
      BY <1>1, <2>1, <3>1 DEF Walk, Go, Form
    <3> QED
      BY <3>2, ChainStays
  <2> QED
    BY <1>1, <1>2, <2>1, ChainCreate, ChainCount, ChainPush DEF RecycleOrCreate
<1>3. CASE TokenNext
  BY <1>3, ChainToken
<1>4. CASE ImplicitNext
  <2>1. PICK t \in Threads :
          \/ Find(t) \/ Copy(t) \/ CountSlot(t) \/ LockResize(t) \/ Grow(t) \/ UnlockResize(t)
          \/ CheckRoom(t) \/ GotProducer(t) \/ Insert(t) \/ Uncount(t) \/ EnqueueImplicitly(t)
          \/ Exit(t) \/ Forget(t) \/ Release(t)
    BY <1>4 DEF ImplicitNext
  <2>2. /\ UNCHANGED <<producerListTail, producerCount, next, isExplicit>>
        /\ \A u \in Threads \ {t} : pc'[u] = pc[u]
        /\ pc'[t] = pc[t] \/ {pc[t].at, pc'[t].at} \cap {"count", "push"} = {}
    BY <2>1, ImplicitMoves
  <2> QED
    BY <2>2, ChainStays
<1>5. CASE ConsumerNext
  <2>1. /\ UNCHANGED <<setup, producerListTail, producerCount, next, isExplicit>>
        /\ \A u \in Threads : pc'[u] = pc[u] \/ role[u] = "consumer"
    BY <1>5, ConsumerFrame
  <2>2. ASSUME NEW u \in Threads, role[u] = "consumer"
        PROVE  {pc[u].at, pc'[u].at} \cap {"count", "push"} = {}
    <3>1. Form(role[u], pc[u]) /\ Form(role[u], pc'[u])
      BY <2>1 DEF PointsOK, role
    <3> QED
      BY <2>2, <3>1 DEF Form, ConsumerPoints
  <2> QED
    BY <2>1, <2>2, ChainStays
<1>6. CASE Destroy
  <2>1. DOMAIN next' = {} /\ Created' = {} /\ producerListTail' = None /\ producerCount' = 0
    BY <1>6 DEF Destroy, EmptyFunction, Created
  <2>2. Listed' = {}
    BY <2>1, ListedIsChain DEF Chain
  <2>3. IsFiniteSet({}) /\ Cardinality({}) = 0
    BY FS_EmptySet
  <2> QED
    BY <2>1, <2>2, <2>3 DEF ChainOK
<1> QED
  BY <1>2, <1>3, <1>4, <1>5, <1>6 DEF Next

----------------------------------------------------------------------------
(* Who has which producer.                                                 *)

(* A thread moves, and may let go of its producer or come to have another. *)
LEMMA OwnersMove ==
  ASSUME OwnersOK, NEW t \in Threads,
         alive' = alive, setup' = setup, DOMAIN held' = Threads,
         \A u \in Threads \ {t} : pc'[u] = pc[u] /\ held'[u] = held[u],
         \A q \in Created : q \in Created' /\ (isExplicit'[q] <=> isExplicit[q]),
         \A q \in Created : q # Mine(t) =>
           (inactive[q] = FALSE => inactive'[q] = FALSE) /\ tokenOf'[q] = tokenOf[q],
         DOMAIN next \subseteq DOMAIN next',
         AtPoint(t)',
         NEW m, m = Mine(t)',
         m # None =>
           /\ alive /\ m \in Created' /\ inactive'[m] = FALSE
           /\ role[t] \in {"token", "implicit"}
           /\ isExplicit'[m] <=> role[t] = "token"
           /\ \A u \in Threads \ {t} : Mine(u) # m
  PROVE  OwnersOK'
<1>1. role' = role
  BY DEF role
<1>2. \A u \in Threads \ {t} : Mine(u)' = Mine(u)
  BY DEF Mine
<1>3. ASSUME NEW u \in Threads \ {t} PROVE AtPoint(u)'
  <2>1. AtPoint(u)
    BY DEF OwnersOK
  <2>2. role[u] = "token" /\ pc[u].at = "rest" /\ held[u] # None => tokenOf'[held[u]] = tokenOf[held[u]]
    BY DEF OwnersOK, Mine
  <2> QED
    BY <1>1, <2>1, <2>2 DEF AtPoint
<1>4. ASSUME NEW u \in Threads \ {t}, Mine(u) # None
      PROVE  /\ alive' /\ Mine(u) \in Created' /\ inactive'[Mine(u)] = FALSE
             /\ role'[u] \in {"token", "implicit"} /\ (isExplicit'[Mine(u)] <=> role'[u] = "token")
             /\ \A v \in Threads \ {u} : Mine(v)' # Mine(u)
  <2>1. Mine(u) # Mine(t)
    BY <1>4 DEF OwnersOK
  <2>2. \A v \in Threads \ {u} : Mine(v)' # Mine(u)
    BY <1>2, <1>4 DEF OwnersOK
  <2> QED
    BY <1>1, <1>4, <2>1, <2>2 DEF OwnersOK
<1> QED
  BY <1>1, <1>2, <1>3, <1>4 DEF OwnersOK

(* A thread keeps its producer.                                            *)
LEMMA OwnersKeep ==
  ASSUME OwnersOK, NEW t \in Threads, alive' = alive, setup' = setup,
         UNCHANGED <<held, isExplicit, inactive, tokenOf>>, DOMAIN next \subseteq DOMAIN next',
         \A u \in Threads \ {t} : pc'[u] = pc[u],
         AtPoint(t)', Mine(t)' = Mine(t)
  PROVE  OwnersOK'
<1>1. Created' = Created
  BY DEF Created
<1>2. DOMAIN held = Threads
  BY DEF OwnersOK
<1>3. Mine(t) # None =>
           /\ alive /\ Mine(t) \in Created' /\ inactive'[Mine(t)] = FALSE
           /\ role[t] \in {"token", "implicit"}
           /\ isExplicit'[Mine(t)] <=> role[t] = "token"
           /\ \A u \in Threads \ {t} : Mine(u) # Mine(t)
  BY <1>1 DEF OwnersOK
<1> QED
  BY <1>1, <1>2, <1>3, OwnersMove

(* A producer is marked as active, or created, for one thread alone: the   *)
(* compare-and-swap takes it from all others.                              *)
LEMMA OwnersProducer ==
  ASSUME PointsOK, CreatedOK, ChainOK, OwnersOK, None \notin Created, NEW t \in Threads,
         RecycleOrCreate(t)
  PROVE  OwnersOK'
<1> USE DEF Acquiring, Resizing, Choosing, Placing, Found
<1>1. DOMAIN pc = Threads /\ Form(role[t], pc[t]) /\ role[t] \in Roles
  BY Basics DEF PointsOK
<1>2. pc[t].at \in Acquiring
  BY DEF RecycleOrCreate, Walk, Create, Count, Push
<1>3. /\ DOMAIN pc[t] = {"at", "explicit", "ptr", "rest"} /\ role[t] \in {"token", "implicit"}
      /\ alive
  BY <1>1, <1>2, RoleAt, BusyAlive DEF Form
<1>4. AtPoint(t) /\ held[t] = None /\ (pc[t].explicit <=> role[t] = "token") /\ DOMAIN held = Threads
  BY <1>2 DEF OwnersOK, AtPoint
<1>5. CASE Walk(t)
  <2> DEFINE p == pc[t].ptr
  <2>1. /\ \A u \in Threads \ {t} : pc'[u] = pc[u]
        /\ UNCHANGED <<setup, alive, next, isExplicit, tokenOf, held>>
    BY <1>1, <1>5 DEF Walk, Go, tokenVars
  <2>2. p \in DOMAIN next \cup {None} /\ Mine(t) = None
    BY <1>4, <1>5 DEF Walk, AtPoint, Mine
  <2>3. CASE p = None
    <3>1. pc'[t].at = "create" /\ pc'[t].ptr = None /\ pc'[t].explicit = pc[t].explicit /\ inactive' = inactive
      BY <1>1, <1>3, <1>5, <2>3 DEF Walk, Go
    <3>2. AtPoint(t)' /\ Mine(t)' = Mine(t)
      BY <1>4, <2>1, <2>2, <3>1 DEF AtPoint, Mine, role
    <3> QED
      BY <2>1, <3>1, <3>2, OwnersKeep
  <2>4. CASE p # None /\ inactive[p] /\ isExplicit[p] = pc[t].explicit
    <3>1. /\ pc'[t].at = "got" /\ pc'[t].ptr = p /\ pc'[t].explicit = pc[t].explicit
          /\ inactive' = [inactive EXCEPT ![p] = FALSE]
      BY <1>1, <1>3, <1>5, <2>4 DEF Walk, Go
    <3>2. AtPoint(t)' /\ Mine(t)' = p
      BY <1>4, <2>1, <2>2, <3>1 DEF AtPoint, Mine, role
    <3>3. p \in Created
      BY <2>2, <2>4 DEF ChainOK
    <3>4. \A u \in Threads \ {t} : Mine(u) # p
      BY <2>4 DEF OwnersOK
    <3>5. inactive'[p] = FALSE /\ \A q \in Created : inactive[q] = FALSE => inactive'[q] = FALSE
      BY <3>1, <3>3 DEF CreatedOK
    <3>6. Created' = Created
      BY <2>1 DEF Created
    <3> QED
      BY ZenonT(30), <1>3, <1>4, <2>1, <2>4, <3>2, <3>3, <3>4, <3>5, <3>6, OwnersMove
  <2>5. CASE p # None /\ ~(inactive[p] /\ isExplicit[p] = pc[t].explicit)
    <3>1. /\ pc'[t].at = "walk" /\ pc'[t].ptr = next[p] /\ pc'[t].explicit = pc[t].explicit
          /\ inactive' = inactive
      BY <1>1, <1>3, <1>5, <2>5 DEF Walk, Go
    <3>2. AtPoint(t)' /\ Mine(t)' = Mine(t)
      BY <1>4, <1>5, <2>1, <2>2, <2>5, <3>1 DEF AtPoint, Mine, role, ChainOK, Walk
    <3> QED
      BY <2>1, <3>1, <3>2, OwnersKeep
  <2> QED
    BY <2>3, <2>4, <2>5
<1>6. CASE Create(t)
  <2>1. PICK n \in Nat : Created = 1 .. n
    BY DEF CreatedOK
  <2>2. Cardinality(Created) = n
    BY <2>1, FS_Interval
  <2>3. pc[t].ptr = None /\ Mine(t) = None
    BY <1>4, <1>6 DEF Create, AtPoint, Mine
  <2>4. CASE /\ UNCHANGED <<isExplicit, inactive, tokenOf>>
             /\ Go(t, [pc[t] EXCEPT !.at = "got"])
    <3>1. /\ pc'[t].at = "got" /\ pc'[t].ptr = None /\ pc'[t].explicit = pc[t].explicit
          /\ \A u \in Threads \ {t} : pc'[u] = pc[u]
      BY <1>1, <1>3, <2>3, <2>4 DEF Go
    <3>2. UNCHANGED <<setup, alive, next, held>>
      BY <1>6 DEF Create
    <3>3. AtPoint(t)' /\ Mine(t)' = Mine(t)
      BY <1>4, <2>3, <3>1, <3>2 DEF AtPoint, Mine, role
    <3> QED
      BY <2>4, <3>1, <3>2, <3>3, OwnersKeep
  <2>5. CASE /\ isExplicit' = Extended(isExplicit, n + 1, pc[t].explicit)
             /\ inactive' = Extended(inactive, n + 1, FALSE)
             /\ tokenOf' = Extended(tokenOf, n + 1, None)
             /\ Go(t, [pc[t] EXCEPT !.at = "count", !.ptr = n + 1])
    <3>1. /\ pc'[t].at = "count" /\ pc'[t].ptr = n + 1 /\ pc'[t].explicit = pc[t].explicit
          /\ \A u \in Threads \ {t} : pc'[u] = pc[u]
      BY <1>1, <1>3, <2>5 DEF Go
    <3>2. UNCHANGED <<setup, alive, next, held>>
      BY <1>6 DEF Create
    <3>3. n + 1 # None /\ n + 1 \notin Created
      BY <2>1, Names DEF PointsOK
    <3>4. AtPoint(t)' /\ Mine(t)' = n + 1
      BY <1>4, <2>3, <3>1, <3>2, <3>3 DEF AtPoint, Mine, role
    <3>5. /\ n + 1 \in Created' /\ inactive'[n + 1] = FALSE /\ isExplicit'[n + 1] = pc[t].explicit
          /\ \A q \in Created : /\ q \in Created' /\ isExplicit'[q] = isExplicit[q]
                                /\ inactive'[q] = inactive[q] /\ tokenOf'[q] = tokenOf[q]
      BY <2>5, <3>3 DEF Extended, Created, CreatedOK
    <3>6. \A u \in Threads \ {t} : Mine(u) # n + 1
      BY <3>3 DEF OwnersOK
    <3> QED
      BY <1>3, <1>4, <3>1, <3>2, <3>4, <3>5, <3>6, OwnersMove
  <2> QED
    BY <1>6, <2>2, <2>4, <2>5 DEF Create
<1>7. CASE Count(t)
  <2>1. /\ pc'[t].at = "push" /\ pc'[t].ptr = pc[t].ptr /\ pc'[t].explicit = pc[t].explicit
        /\ \A u \in Threads \ {t} : pc'[u] = pc[u]
        /\ UNCHANGED <<setup, alive, isExplicit, inactive, tokenOf, held>>
        /\ DOMAIN next \subseteq DOMAIN next'
    BY <1>1, <1>3, <1>7 DEF Count, Go, tokenVars, Extended
  <2>2. AtPoint(t)' /\ Mine(t)' = Mine(t)
    BY <1>4, <1>7, <2>1 DEF AtPoint, Mine, role, Count
  <2> QED
    BY <2>1, <2>2, OwnersKeep
<1>8. CASE Push(t)
  <2>1. /\ pc'[t].at \in {"push", "got"} /\ pc'[t].ptr = pc[t].ptr /\ pc'[t].explicit = pc[t].explicit
        /\ \A u \in Threads \ {t} : pc'[u] = pc[u]
        /\ UNCHANGED <<setup, alive, isExplicit, inactive, tokenOf, held>>
        /\ DOMAIN next \subseteq DOMAIN next'
    BY <1>1, <1>3, <1>8 DEF Push, Go, tokenVars
  <2>2. AtPoint(t)' /\ Mine(t)' = Mine(t)
    BY <1>4, <1>8, <2>1 DEF AtPoint, Mine, role, Push
  <2> QED
    BY <2>1, <2>2, OwnersKeep
<1> QED
  BY <1>5, <1>6, <1>7, <1>8 DEF RecycleOrCreate

(* Tokens are made, dropped and swapped: the producers go with them.       *)
LEMMA OwnersToken ==
  ASSUME PointsOK, CreatedOK, ChainOK, OwnersOK, TokenNext
  PROVE  OwnersOK'
<1> USE DEF Acquiring, Resizing, Choosing, Placing, Found, Resting
<1>1. DOMAIN pc = Threads /\ DOMAIN held = Threads /\ DOMAIN tokenOf = Created /\ DOMAIN inactive = Created
  BY DEF PointsOK, OwnersOK, CreatedOK
<1>2. ASSUME NEW t \in Threads, NewToken(t) PROVE OwnersOK'
  <2>1. /\ pc'[t] = Recycling(TRUE, None)
        /\ \A u \in Threads \ {t} : pc'[u] = pc[u]
        /\ UNCHANGED <<setup, alive, next, isExplicit, inactive, tokenOf, held>>
    BY <1>1, <1>2 DEF NewToken, Go, listVars, tokenVars
  <2>2. AtPoint(t)' /\ Mine(t)' = Mine(t)
    BY <1>2, <2>1 DEF AtPoint, Mine, Recycling, ChainOK, NewToken, role
  <2> QED
    BY <2>1, <2>2, OwnersKeep
<1>3. ASSUME NEW t \in Threads, GotToken(t) PROVE OwnersOK'
  <2> DEFINE p == pc[t].ptr
  <2>1. /\ pc'[t] = Resting /\ held'[t] = p /\ DOMAIN held' = Threads
        /\ \A u \in Threads \ {t} : pc'[u] = pc[u] /\ held'[u] = held[u]
        /\ UNCHANGED <<setup, alive, next, isExplicit, inactive>>
    BY <1>1, <1>3 DEF GotToken, Go, listVars
  <2>2. Mine(t) = p /\ Mine(t)' = p
    BY <1>3, <2>1 DEF Mine, GotToken
  <2>3. /\ p # None => tokenOf'[p] = t
        /\ \A q \in Created : q # p => tokenOf'[q] = tokenOf[q]
    <3>1. p # None => p \in Created
      BY <2>2 DEF OwnersOK
    <3> QED
      BY <1>1, <1>3, <3>1 DEF GotToken
  <2>4. AtPoint(t)'
    BY <2>1, <2>3 DEF AtPoint
  <2>5. Created' = Created
    BY <2>1 DEF Created
  <2>6. p # None =>
           /\ alive /\ p \in Created /\ inactive[p] = FALSE
           /\ role[t] \in {"token", "implicit"}
           /\ isExplicit[p] <=> role[t] = "token"
           /\ \A u \in Threads \ {t} : Mine(u) # p
    BY <2>2 DEF OwnersOK
  <2> HIDE DEF p
  <2> QED
    BY <2>1, <2>2, <2>3, <2>4, <2>5, <2>6, OwnersMove
<1>4. ASSUME NEW t \in Threads, EnqueueWithToken(t) PROVE OwnersOK'
  <2>1. UNCHANGED <<pc, setup, alive, next, isExplicit, inactive, tokenOf, held>>
    BY <1>4 DEF EnqueueWithToken, listVars, tokenVars
  <2>2. AtPoint(t)' /\ Mine(t)' = Mine(t)
    BY <2>1 DEF OwnersOK, AtPoint, Mine, role
  <2> QED
    BY <2>1, <2>2, OwnersKeep
<1>5. ASSUME NEW t \in Threads, DropToken(t) PROVE OwnersOK'
  <2>1. /\ pc'[t] = [at |-> "drop"] /\ tokenOf' = [tokenOf EXCEPT ![held[t]] = None]
        /\ \A u \in Threads \ {t} : pc'[u] = pc[u]
        /\ UNCHANGED <<setup, alive, next, isExplicit, inactive, held>>
    BY <1>1, <1>5 DEF DropToken, Go, listVars
  <2>2. Mine(t) = held[t] /\ Mine(t)' = held[t] /\ held[t] # None
    BY <1>5, <2>1 DEF DropToken, Mine
  <2>3. \A q \in Created : q # held[t] => tokenOf'[q] = tokenOf[q]
    BY <1>1, <2>1
  <2>4. AtPoint(t)'
    BY <2>1, <2>2 DEF AtPoint
  <2>5. Created' = Created
    BY <2>1 DEF Created
  <2>6. /\ alive /\ held[t] \in Created /\ inactive[held[t]] = FALSE
        /\ role[t] \in {"token", "implicit"}
        /\ isExplicit[held[t]] <=> role[t] = "token"
        /\ \A u \in Threads \ {t} : Mine(u) # held[t]
    BY <2>2 DEF OwnersOK
  <2> QED
    BY ZenonT(30), <1>1, <2>1, <2>2, <2>3, <2>4, <2>5, <2>6, OwnersMove
<1>6. ASSUME NEW t \in Threads, Deactivate(t) PROVE OwnersOK'
  <2>1. /\ pc'[t] = Resting /\ held'[t] = None /\ DOMAIN held' = Threads
        /\ \A u \in Threads \ {t} : pc'[u] = pc[u] /\ held'[u] = held[u]
        /\ UNCHANGED <<setup, alive, next, isExplicit, tokenOf>>
        /\ inactive' = [inactive EXCEPT ![held[t]] = TRUE]
    BY <1>1, <1>6 DEF Deactivate, Go
  <2>2. Mine(t) = held[t] /\ Mine(t)' = None
    BY <1>6, <2>1 DEF Deactivate, Mine
  <2>3. \A q \in Created : q # held[t] => inactive'[q] = inactive[q]
    BY <1>1, <2>1
  <2>4. AtPoint(t)'
    BY <2>1 DEF AtPoint
  <2>5. Created' = Created
    BY <2>1 DEF Created
  <2> QED
    BY <2>1, <2>2, <2>3, <2>4, <2>5, OwnersMove
<1>7. ASSUME NEW t \in Threads, NEW u \in Threads, SwapTokens(t, u) PROVE OwnersOK'
  <2>1. /\ t # u /\ held[t] # None
        /\ role[t] = "token" /\ role[u] = "token" /\ pc[t] = Resting /\ pc[u] = Resting
        /\ held'[t] = held[u] /\ held'[u] = held[t] /\ DOMAIN held' = Threads
        /\ \A v \in Threads \ {t, u} : held'[v] = held[v]
        /\ UNCHANGED <<setup, alive, next, isExplicit, inactive, pc>>
        /\ tokenOf' = [p \in Created |->
             IF p = held[t] THEN u ELSE IF p = held[u] THEN t ELSE tokenOf[p]]
    BY <1>1, <1>7 DEF SwapTokens, listVars
  <2>2. /\ Mine(t) = held[t] /\ Mine(u) = held[u] /\ Mine(t)' = held[u] /\ Mine(u)' = held[t]
        /\ \A v \in Threads \ {t, u} : Mine(v)' = Mine(v)
    BY <2>1 DEF Mine
  <2>3. held[t] # held[u]
    BY <2>1, <2>2 DEF OwnersOK
  <2>4. Created' = Created /\ role' = role
    BY <2>1 DEF Created, role
  <2>5. AtPoint(t)' /\ AtPoint(u)'
    <3>1. held[t] \in Created /\ (held[u] # None => held[u] \in Created)
      BY <2>1, <2>2 DEF OwnersOK
    <3> QED
      BY <2>1, <2>3, <2>4, <3>1 DEF AtPoint
  <2>6. ASSUME NEW v \in Threads \ {t, u} PROVE AtPoint(v)'
    <3>1. AtPoint(v)
      BY DEF OwnersOK
    <3>2. pc[v].at = "rest" /\ held[v] # None => held[v] \in Created /\ held[v] # held[t] /\ held[v] # held[u]
      BY <2>1, <2>2 DEF OwnersOK, Mine
    <3> QED
      BY <2>1, <2>4, <3>1, <3>2 DEF AtPoint
  <2>7. ASSUME NEW v \in Threads, Mine(v)' # None
        PROVE  /\ alive' /\ Mine(v)' \in Created' /\ inactive'[Mine(v)'] = FALSE
               /\ role'[v] \in {"token", "implicit"} /\ (isExplicit'[Mine(v)'] <=> role'[v] = "token")
               /\ \A w \in Threads \ {v} : Mine(w)' # Mine(v)'
    <3>1. PICK x \in Threads : Mine(x) = Mine(v)' /\ role[x] = role[v] /\
                               \A w \in Threads \ {v} : \E y \in Threads \ {x} : Mine(w)' = Mine(y)
      <4>1. CASE v = t
        <5>1. \A w \in Threads \ {t} : \E y \in Threads \ {u} : Mine(w)' = Mine(y)
          BY <2>1, <2>2
        <5> QED
          BY <2>1, <2>2, <4>1, <5>1
      <4>2. CASE v = u
        <5>1. \A w \in Threads \ {u} : \E y \in Threads \ {t} : Mine(w)' = Mine(y)
          BY <2>1, <2>2
        <5> QED
          BY <2>1, <2>2, <4>2, <5>1
      <4>3. CASE v # t /\ v # u
        <5>1. \A w \in Threads \ {v} : \E y \in Threads \ {v} : Mine(w)' = Mine(y)
          BY <2>1, <2>2, <4>3
        <5> QED
          BY <2>2, <4>3, <5>1
      <4> QED
        BY <4>1, <4>2, <4>3
    <3> QED
      BY <2>1, <2>4, <2>7, <3>1 DEF OwnersOK
  <2> QED
    BY <2>1, <2>5, <2>6, <2>7 DEF OwnersOK
<1> QED
  BY <1>2, <1>3, <1>4, <1>5, <1>6, <1>7 DEF TokenNext

(* A thread finds its own producer, if it has one, and no other.           *)
LEMMA FindsOwn ==
  ASSUME PointsOK, OwnersOK, IdsOK, TablesOK, PlacesOK, NEW t \in Threads, Find(t)
  PROVE  /\ id'[t] \in Nat
         /\ held[t] # None => id'[t] = id[t]
         /\ \/ held[t] = None /\ pc'[t] = [at |-> "countSlot", main |-> mainHash]
            \/ held[t] # None /\ pc'[t] = [at |-> "enqueue", ptr |-> held[t]]
            \/ /\ held[t] # None /\ mainHash \in 1 .. mainHash
               /\ NoEntry(implicitProducerHash[mainHash], id'[t])
               /\ pc'[t] = [at |-> "copy", ptr |-> held[t], main |-> mainHash,
                            slot |-> SlotAt(mainHash, id'[t])]
<1>1. PICK k : /\ id' = [id EXCEPT ![t] = k] /\ LookUp(t, k)
               /\ k \in IF id[t] = None THEN setup.ids \ {id[u] : u \in Threads} ELSE {id[t]}
  BY DEF Find
<1>2. /\ DOMAIN id = Threads /\ DOMAIN pc = Threads /\ role[t] = "implicit" /\ pc[t] = Resting
      /\ mainHash \in Nat /\ setup.ids \subseteq Nat
  BY Names DEF IdsOK, PointsOK, Find, mainHash, TablesOK
<1>3. id'[t] = k /\ k \in Nat
  BY <1>1, <1>2 DEF IdsOK
<1>4. held[t] # None => k = id[t]
  BY <1>1, <1>2 DEF IdsOK
<1>5. \A u \in Threads : id[u] = k => u = t
  BY <1>1, <1>2, <1>3 DEF IdsOK
<1>6. \A n \in 1 .. mainHash : implicitProducerHash[n] \in Tables /\ Proper(implicitProducerHash[n])
  BY DEF TablesOK, mainHash
<1>7. \A n \in 1 .. mainHash : Has(n, k) <=> ~NoEntry(implicitProducerHash[n], k)
  <2>1. ASSUME NEW n \in 1 .. mainHash, Has(n, k) PROVE ~NoEntry(implicitProducerHash[n], k)
    BY <1>3, <1>6, <2>1, SearchSound DEF NoEntry
  <2>2. ASSUME NEW n \in 1 .. mainHash, ~NoEntry(implicitProducerHash[n], k) PROVE Has(n, k)
    BY <1>3, <1>6, <2>2, SearchFinds
  <2> QED
    BY <2>1, <2>2
<1> DEFINE tables == {n \in 1 .. mainHash : Has(n, k)}
           newest == CHOOSE n \in tables : \A m \in tables : m <= n
<1>8. CASE tables = {}
  <2>1. pc'[t] = [at |-> "countSlot", main |-> mainHash]
    BY <1>1, <1>2, <1>8 DEF LookUp, Go
  <2>2. held[t] = None
    BY <1>2, <1>4, <1>7, <1>8 DEF PlacesOK, PlaceOf, Resting
  <2> QED
    BY <1>3, <2>1, <2>2
<1>9. CASE tables # {}
  <2>1. newest \in tables /\ \A m \in tables : m <= newest
    <3>1. tables \in SUBSET (0 .. mainHash)
      BY <1>2
    <3> HIDE DEF tables
    <3>2. \E n \in tables : \A m \in tables : m <= n
      BY <1>2, <1>9, <3>1, GreatestNatural
    <3> QED
      BY <3>2
  <2> DEFINE e == implicitProducerHash[newest][SlotOf(newest, k)]
  <2>2. newest \in 1 .. mainHash /\ Has(newest, k)
    BY <2>1
  <2>3. pc'[t] = IF newest = mainHash THEN [at |-> "enqueue", ptr |-> e.value]
                 ELSE [at |-> "copy", ptr |-> e.value, main |-> mainHash, slot |-> SlotAt(mainHash, k)]
    BY <1>1, <1>2, <1>9 DEF LookUp, Go
  <2>4. newest # mainHash => mainHash \in 1 .. mainHash /\ NoEntry(implicitProducerHash[mainHash], k)
    BY <1>2, <1>7, <2>1, <2>2
  <2> HIDE DEF newest
  <2>5. SlotOf(newest, k) \in DOMAIN implicitProducerHash[newest] /\ e.key = k
    BY <1>3, <1>6, <2>2, SearchSound
  <2>6. PICK u \in Threads : id[u] = k /\ held[u] = e.value /\ held[u] # None
    BY <1>3, <2>2, <2>5 DEF TablesOK
  <2>7. e.value = held[t] /\ held[t] # None
    BY <1>5, <2>6
  <2> HIDE DEF e
  <2> QED
    BY <1>3, <1>4, <2>3, <2>4, <2>7
<1> QED
  BY <1>8, <1>9

(* A thread without a token finds its producer, gets one, or leaves it.    *)
LEMMA OwnersImplicit ==
  ASSUME PointsOK, CreatedOK, ChainOK, OwnersOK, IdsOK, TablesOK, PlacesOK, NEW t \in Threads,
         \/ Find(t) \/ Copy(t) \/ CountSlot(t) \/ LockResize(t) \/ Grow(t) \/ UnlockResize(t)
         \/ CheckRoom(t) \/ GotProducer(t) \/ Insert(t) \/ Uncount(t) \/ EnqueueImplicitly(t)
         \/ Exit(t) \/ Forget(t) \/ Release(t)
  PROVE  OwnersOK'
<1> USE DEF Acquiring, Resizing, Choosing, Placing, Found, Resting
<1>1. DOMAIN pc = Threads /\ DOMAIN held = Threads /\ DOMAIN inactive = Created /\ Form(role[t], pc[t])
  BY Basics DEF PointsOK, OwnersOK, CreatedOK
<1>2. /\ role[t] = "implicit" /\ setup' = setup /\ alive' = alive /\ tokenOf' = tokenOf
      /\ UNCHANGED <<producerListTail, producerCount, next, isExplicit>>
      /\ \A u \in Threads \ {t} : pc'[u] = pc[u]
  BY ImplicitMoves
<1>3. role' = role /\ Created' = Created /\ AtPoint(t)
  BY <1>2 DEF role, Created, OwnersOK
<1>4. ASSUME UNCHANGED <<held, inactive>>, AtPoint(t)', Mine(t)' = Mine(t)
      PROVE  OwnersOK'
  BY <1>2, <1>4, OwnersKeep
<1>5. CASE Find(t)
  <2>1. held' = held /\ inactive' = inactive /\ pc[t] = Resting
    BY <1>5 DEF Find, tokenVars, listVars
  <2>2. \/ pc'[t].at = "countSlot" /\ held[t] = None
        \/ pc'[t].at \in {"enqueue", "copy"} /\ held[t] # None /\ pc'[t].ptr = held[t]
    <3>1. CASE held[t] = None /\ pc'[t] = [at |-> "countSlot", main |-> mainHash]
      BY <3>1
    <3>2. CASE held[t] # None /\ pc'[t] = [at |-> "enqueue", ptr |-> held[t]]
      BY <3>2
    <3>3. CASE /\ held[t] # None
               /\ pc'[t] = [at |-> "copy", ptr |-> held[t], main |-> mainHash,
                            slot |-> SlotAt(mainHash, id'[t])]
      BY <3>3
    <3> QED
      BY <1>5, <3>1, <3>2, <3>3, FindsOwn
  <2>3. AtPoint(t)' /\ Mine(t)' = Mine(t)
    BY <1>2, <1>3, <2>1, <2>2 DEF AtPoint, Mine
  <2> QED
    BY <1>4, <2>1, <2>3
<1>6. CASE Copy(t) \/ Insert(t)
  <2>1. UNCHANGED <<held, inactive>>
    BY <1>6 DEF Copy, Insert, tokenVars, listVars
  <2>2. pc'[t].at \in Placing \cup Found /\ pc'[t].ptr = pc[t].ptr /\ pc[t].at \in Placing
    BY <1>1, <1>6 DEF Copy, Insert, TakeSlot, Go, Form
  <2>3. AtPoint(t)' /\ Mine(t)' = Mine(t)
    BY <1>2, <1>3, <2>1, <2>2 DEF AtPoint, Mine
  <2> QED
    BY <1>4, <2>1, <2>3
<1>7. CASE CountSlot(t) \/ LockResize(t) \/ Grow(t) \/ UnlockResize(t)
  <2>1. UNCHANGED <<held, inactive>> /\ pc[t].at \in Choosing
    BY <1>7 DEF CountSlot, LockResize, Grow, UnlockResize, tokenVars, listVars
  <2>2. pc'[t].at \in Choosing \cup {"rest"}
    BY <1>7, ChoosingMoves
  <2>3. AtPoint(t)' /\ Mine(t)' = Mine(t)
    BY <1>2, <1>3, <2>1, <2>2 DEF AtPoint, Mine
  <2> QED
    BY <1>4, <2>1, <2>3
<1>8. CASE CheckRoom(t)
  <2>1. UNCHANGED <<held, inactive>>
    BY <1>8 DEF CheckRoom, tokenVars, listVars
  <2>2. \/ pc'[t] = Recycling(FALSE, pc[t].main)
        \/ pc'[t].at = "resize"
    BY <1>1, <1>8 DEF CheckRoom, Go, Form
  <2>3. AtPoint(t)' /\ Mine(t)' = Mine(t)
    BY <1>2, <1>3, <1>8, <2>1, <2>2 DEF AtPoint, Mine, Recycling, CheckRoom, ChainOK
  <2> QED
    BY <1>4, <2>1, <2>3
<1>9. CASE GotProducer(t)
  <2> DEFINE p == pc[t].ptr
  <2>1. Mine(t) = p /\ held[t] = None /\ inactive' = inactive
    BY <1>3, <1>9 DEF GotProducer, Mine, AtPoint, listVars
  <2>2. CASE p = None
    <3>1. pc'[t] = Resting /\ held' = held
      BY <1>1, <1>9, <2>2 DEF GotProducer, Go
    <3>2. AtPoint(t)' /\ Mine(t)' = Mine(t)
      BY <1>2, <1>3, <2>1, <2>2, <3>1 DEF AtPoint, Mine
    <3> QED
      BY <1>4, <2>1, <3>1, <3>2
  <2>3. CASE p # None
    <3>1. /\ pc'[t].at = "insert" /\ pc'[t].ptr = p /\ held'[t] = p /\ DOMAIN held' = Threads
          /\ \A u \in Threads \ {t} : held'[u] = held[u]
      BY <1>1, <1>9, <2>3 DEF GotProducer, Go
    <3>2. AtPoint(t)' /\ p = Mine(t)'
      BY <1>2, <1>3, <2>3, <3>1 DEF AtPoint, Mine
    <3>3. /\ alive /\ p \in Created /\ inactive[p] = FALSE
          /\ isExplicit[p] <=> role[t] = "token"
          /\ \A u \in Threads \ {t} : Mine(u) # p
      BY <2>1, <2>3 DEF OwnersOK
    <3> HIDE DEF p
    <3> QED
      BY <1>2, <1>3, <2>1, <3>1, <3>2, <3>3, OwnersMove
  <2> QED
    BY <2>2, <2>3
<1>10. CASE Uncount(t) \/ EnqueueImplicitly(t)
  <2>1. UNCHANGED <<held, inactive>>
    BY <1>10 DEF Uncount, EnqueueImplicitly, tokenVars, listVars
  <2>2. pc[t].at \in Found /\ (pc'[t] = Resting \/ (pc'[t].at = "enqueue" /\ pc'[t].ptr = pc[t].ptr))
    BY <1>1, <1>10 DEF Uncount, EnqueueImplicitly, Go, Form
  <2>3. AtPoint(t)' /\ Mine(t)' = Mine(t)
    BY <1>2, <1>3, <2>1, <2>2 DEF AtPoint, Mine
  <2> QED
    BY <1>4, <2>1, <2>3
<1>11. CASE Exit(t)
  <2>1. UNCHANGED <<held, inactive>> /\ pc[t] = Resting
    BY <1>11 DEF Exit, tokenVars, listVars
  <2>2. \/ pc'[t] = Resting
        \/ pc'[t].at = "exit" /\ held[t] # None
    BY <1>1, <1>11 DEF Exit, Go
  <2>3. AtPoint(t)' /\ Mine(t)' = Mine(t)
    BY <1>2, <1>3, <2>1, <2>2 DEF AtPoint, Mine
  <2> QED
    BY <1>4, <2>1, <2>3
<1>12. CASE Forget(t)
  <2>1. UNCHANGED <<held, inactive>> /\ pc[t].at = "exit"
    BY <1>12 DEF Forget, tokenVars, listVars
  <2>2. pc'[t].at = "exit"
    BY <1>1, <1>12 DEF Forget, Go, Form
  <2>3. AtPoint(t)' /\ Mine(t)' = Mine(t)
    BY <1>2, <1>3, <2>1, <2>2 DEF AtPoint, Mine
  <2> QED
    BY <1>4, <2>1, <2>3
<1>13. CASE Release(t)
  <2>1. /\ pc[t].at = "exit" /\ pc'[t] = Resting /\ held'[t] = None /\ DOMAIN held' = Threads
        /\ \A u \in Threads \ {t} : held'[u] = held[u]
        /\ inactive' = [inactive EXCEPT ![held[t]] = TRUE]
    BY <1>1, <1>13 DEF Release, Go
  <2>2. Mine(t) = held[t] /\ Mine(t)' = None /\ AtPoint(t)'
    BY <1>2, <1>3, <2>1 DEF Mine, AtPoint
  <2>3. \A q \in Created : q # held[t] => inactive'[q] = inactive[q]
    BY <1>1, <2>1
  <2> QED
    BY <1>2, <1>3, <2>1, <2>2, <2>3, OwnersMove
<1> QED
  BY <1>5, <1>6, <1>7, <1>8, <1>9, <1>10, <1>11, <1>12, <1>13

(* Every step leaves each producer to at most one thread.                  *)
LEMMA OwnersNext ==
  ASSUME PointsOK, PointsOK', CreatedOK, ChainOK, OwnersOK, IdsOK, TablesOK, PlacesOK, Next
  PROVE  OwnersOK'
<1>1. None \notin Created
  BY Names DEF PointsOK, CreatedOK
<1>2. ASSUME NEW t \in Threads, RecycleOrCreate(t) PROVE OwnersOK'
  BY <1>1, <1>2, OwnersProducer
<1>3. CASE TokenNext
  BY <1>3, OwnersToken
<1>4. CASE ImplicitNext
  BY <1>4, OwnersImplicit DEF ImplicitNext
<1>5. CASE ConsumerNext
  <2>1. /\ UNCHANGED <<setup, alive, next, isExplicit, inactive, tokenOf, held>>
        /\ \A u \in Threads : pc'[u] = pc[u] \/ role[u] = "consumer"
    BY <1>5, ConsumerFrame
  <2>2. Created' = Created /\ role' = role
    BY <2>1 DEF Created, role
  <2>3. ASSUME NEW u \in Threads PROVE AtPoint(u)' /\ Mine(u)' = Mine(u)
    <3>1. CASE role[u] = "consumer"
      <4>1. Form("consumer", pc[u]) /\ Form("consumer", pc'[u])
        BY <2>2, <3>1 DEF PointsOK
      <4>2. {pc[u].at, pc'[u].at} \subseteq ConsumerPoints
        BY <4>1 DEF Form
      <4> QED
        BY <2>1, <2>2, <3>1, <4>2 DEF AtPoint, Mine, ConsumerPoints, Acquiring, Resizing, Choosing,
           Placing, Found
    <3>2. CASE pc'[u] = pc[u]
      BY <2>1, <2>2, <3>2 DEF OwnersOK, AtPoint, Mine
    <3> QED
      BY <2>1, <3>1, <3>2
  <2> QED
    BY <2>1, <2>2, <2>3 DEF OwnersOK
<1>6. CASE Destroy
  <2>1. \A t \in Threads : pc[t] = Resting /\ pc'[t] = Resting
    BY <1>6 DEF Destroy
  <2>2. Listed = Created
    BY <2>1 DEF ChainOK, Adding, Resting
  <2>3. ASSUME NEW t \in Threads PROVE held'[t] = None
    <3>1. held[t] # None =>
            /\ held[t] \in Created /\ inactive[held[t]] = FALSE
            /\ role[t] \in {"token", "implicit"}
            /\ role[t] = "token" => tokenOf[held[t]] = t
      BY <2>1 DEF OwnersOK, AtPoint, Mine, Resting
    <3> QED
      BY <1>6, <2>2, <3>1 DEF Destroy
  <2>4. DOMAIN held' = Threads
    BY <1>6 DEF Destroy
  <2> QED
    BY <2>1, <2>3, <2>4 DEF OwnersOK, AtPoint, Mine, Resting, Acquiring, Resizing, Choosing, Placing,
       Found
<1> QED
  BY <1>2, <1>3, <1>4, <1>5, <1>6 DEF Next

----------------------------------------------------------------------------
(* The hash tables.                                                        *)

(* One slot is set.                                                        *)
LEMMA HashSet ==
  ASSUME setup \in Setups, TablesOK, NEW n \in 1 .. mainHash, NEW i \in DOMAIN implicitProducerHash[n],
         NEW k \in Nat \cup {Reusable}, NEW v \in Nat \cup {None}, SetSlot(n, i, k, v),
         k \in Nat => NoEntry(implicitProducerHash[n], k) /\ Reachable(implicitProducerHash[n], i, k)
  PROVE  /\ implicitProducerHash' \in Seq(Tables) /\ mainHash' = mainHash
         /\ \A m \in 1 .. mainHash :
              /\ Proper(implicitProducerHash'[m])
              /\ DOMAIN implicitProducerHash'[m] = DOMAIN implicitProducerHash[m]
              /\ \A j : \A q \in Nat :
                   Reachable(implicitProducerHash[m], j, q) => Reachable(implicitProducerHash'[m], j, q)
              /\ \A j \in DOMAIN implicitProducerHash[m] :
                   <<m, j>> # <<n, i>> => implicitProducerHash'[m][j] = implicitProducerHash[m][j]
         /\ implicitProducerHash'[n][i] = [key |-> k, value |-> v]
<1> DEFINE T == implicitProducerHash[n]
           U == Put(T, i, k, v)
<1>1. /\ implicitProducerHash \in Seq(Tables) /\ T \in Tables /\ Proper(T)
      /\ mainHash \in Nat /\ DOMAIN implicitProducerHash = 1 .. mainHash
  BY DEF TablesOK, mainHash
<1>2. implicitProducerHash' = [implicitProducerHash EXCEPT ![n] = U]
  BY <1>1 DEF SetSlot, Put
<1> HIDE DEF T
<1>3. /\ U \in Tables /\ Proper(U) /\ DOMAIN U = DOMAIN T
      /\ U[i] = [key |-> k, value |-> v]
      /\ \A j \in DOMAIN T \ {i} : U[j] = T[j]
      /\ \A j : \A q \in Nat : Reachable(T, j, q) => Reachable(U, j, q)
  <2>1. i \in DOMAIN T /\ (k \in Nat => NoEntry(T, k) /\ Reachable(T, i, k))
    BY DEF T
  <2>2. Empty \notin Nat /\ Reusable \notin Nat /\ Empty # Reusable
    BY Names
  <2> QED
    BY <1>1, <2>1, <2>2, SlotSet
<1> HIDE DEF U
<1>4. implicitProducerHash' \in Seq(Tables) /\ Len(implicitProducerHash') = Len(implicitProducerHash)
  BY <1>1, <1>2, <1>3
<1>5. \A m \in 1 .. mainHash : implicitProducerHash'[m] = IF m = n THEN U ELSE implicitProducerHash[m]
  BY <1>1, <1>2
<1> QED
  BY <1>3, <1>4, <1>5 DEF mainHash, T, TablesOK

(* A thread takes a slot for its id, or goes on.                           *)
LEMMA SlotTaken ==
  ASSUME PointsOK, CreatedOK, OwnersOK, IdsOK, TablesOK, PlacesOK, NEW t \in Threads,
         Copy(t) \/ Insert(t)
  PROVE  \/ /\ UNCHANGED implicitProducerHash
            /\ pc'[t].at = pc[t].at /\ pc'[t].main = pc[t].main
            /\ pc'[t].slot \in DOMAIN implicitProducerHash[pc[t].main]
            /\ Reachable(implicitProducerHash[pc[t].main], pc'[t].slot, id[t])
         \/ /\ SetSlot(pc[t].main, pc[t].slot, id[t], held[t])
            /\ implicitProducerHash[pc[t].main][pc[t].slot].key \notin Nat
            /\ pc'[t].at \in Found
<1>1. DOMAIN pc = Threads /\ Form(role[t], pc[t]) /\ role[t] \in Roles
  BY Basics DEF PointsOK
<1>2. pc[t].at \in Placing /\ DOMAIN pc[t] = {"at", "ptr", "main", "slot"} /\ role[t] = "implicit"
  BY <1>1, RoleAt DEF Copy, Insert, Placing, Form
<1> DEFINE n == pc[t].main  i == pc[t].slot  T == implicitProducerHash[n]
<1>3. n \in 1 .. mainHash /\ i \in DOMAIN T /\ Reachable(T, i, id[t]) /\ T \in Tables
  BY <1>2 DEF PlacesOK, PlaceOf, TablesOK, mainHash
<1>4. id[t] \in Nat /\ pc[t].ptr = held[t]
  <2>1. pc[t].at # "rest"
    BY <1>2 DEF Placing
  <2> QED
    BY <1>2, <2>1, Names DEF IdsOK, PointsOK, OwnersOK, AtPoint
<1>5. CASE T[i].key \in {Empty, Reusable}
  <2>1. T[i].key \notin Nat
    BY <1>5, Names DEF PointsOK
  <2> QED
    BY <1>1, <1>4, <1>5, <2>1 DEF Copy, Insert, TakeSlot, Go, Found
<1>6. CASE T[i].key \notin {Empty, Reusable}
  <2>1. /\ UNCHANGED implicitProducerHash
        /\ pc'[t] = [pc[t] EXCEPT !.slot = SlotAt(n, i + 1)]
    BY <1>1, <1>6 DEF Copy, Insert, TakeSlot, Go
  <2>2. /\ SlotAt(n, i + 1) \in DOMAIN T
        /\ Reachable(T, SlotAt(n, i + 1), id[t])
    BY <1>3, <1>4, <1>6, SearchGoesOn DEF SlotAt, capacity
  <2> QED
    BY <1>2, <2>1, <2>2
<1> QED
  BY <1>5, <1>6

(* What a step of a thread does to the tables.                             *)
LEMMA HashChanges ==
  ASSUME PointsOK, CreatedOK, OwnersOK, IdsOK, TablesOK, PlacesOK, NEW t \in Threads,
         \/ Find(t) \/ Copy(t) \/ CountSlot(t) \/ LockResize(t) \/ Grow(t) \/ UnlockResize(t)
         \/ CheckRoom(t) \/ GotProducer(t) \/ Insert(t) \/ Uncount(t) \/ EnqueueImplicitly(t)
         \/ Exit(t) \/ Forget(t) \/ Release(t)
  PROVE  \/ UNCHANGED implicitProducerHash
         \/ /\ Copy(t) \/ Insert(t)
            /\ pc'[t].at \in Found
            /\ \E n \in 1 .. mainHash : \E i \in DOMAIN implicitProducerHash[n] :
                 /\ SetSlot(n, i, id[t], held[t])
                 /\ implicitProducerHash[n][i].key \notin Nat
                 /\ NoEntry(implicitProducerHash[n], id[t])
                 /\ Reachable(implicitProducerHash[n], i, id[t])
         \/ /\ Forget(t)
            /\ \E i \in DOMAIN implicitProducerHash[pc[t].table] :
                 /\ SetSlot(pc[t].table, i, Reusable, None)
                 /\ implicitProducerHash[pc[t].table][i].key = id[t]
         \/ /\ Grow(t)
            /\ \E c \in Nat \ {0, 1} : implicitProducerHash' = Append(implicitProducerHash, NewTable(c))
<1>1. Form(role[t], pc[t]) /\ role[t] \in Roles /\ setup \in Setups
  BY Basics DEF PointsOK
<1>2. \A n \in 1 .. mainHash : implicitProducerHash[n] \in Tables
  BY DEF TablesOK, mainHash
<1>3. CASE Copy(t) \/ Insert(t)
  <2>1. pc[t].at \in Placing
    BY <1>3 DEF Copy, Insert, Placing
  <2>2. /\ pc[t].main \in 1 .. mainHash
        /\ pc[t].slot \in DOMAIN implicitProducerHash[pc[t].main]
        /\ Reachable(implicitProducerHash[pc[t].main], pc[t].slot, id[t])
        /\ NoEntry(implicitProducerHash[pc[t].main], id[t])
    BY <2>1 DEF PlacesOK, PlaceOf
  <2> QED
    BY <1>3, <2>2, SlotTaken
<1>4. CASE Forget(t)
  <2>1. pc[t].at = "exit" /\ pc[t].table > 0
    BY <1>4 DEF Forget
  <2>2. role[t] = "implicit" /\ pc[t].table \in 0 .. mainHash /\ mainHash \in Nat
    BY <1>1, <2>1, RoleAt DEF PlacesOK, PlaceOf, mainHash, TablesOK
  <2>3. implicitProducerHash[pc[t].table] \in Tables
    BY <1>2, <2>1, <2>2
  <2>4. id[t] \in Nat
    BY <1>1, <2>1, <2>2, Names DEF IdsOK
  <2>5. CASE Has(pc[t].table, id[t])
    <3>1. SetSlot(pc[t].table, SlotOf(pc[t].table, id[t]), Reusable, None)
      BY <1>4, <2>5 DEF Forget
    <3>2. /\ SlotOf(pc[t].table, id[t]) \in DOMAIN implicitProducerHash[pc[t].table]
          /\ implicitProducerHash[pc[t].table][SlotOf(pc[t].table, id[t])].key = id[t]
      BY <2>3, <2>4, <2>5, SearchSound
    <3> QED
      BY <1>4, <3>1, <3>2
  <2>6. CASE ~Has(pc[t].table, id[t])
    BY <1>4, <2>6 DEF Forget
  <2> QED
    BY <2>5, <2>6
<1>5. CASE Grow(t)
  <2>1. pc[t].at = "grow"
    BY <1>5 DEF Grow
  <2>2. role[t] = "implicit" /\ pc[t].main \in 1 .. mainHash /\ pc[t].newCount \in Int
    BY <1>1, <2>1, RoleAt DEF PlacesOK, PlaceOf, Choosing, Resizing, Form
  <2>3. capacity(mainHash) \in Nat \ {0, 1} /\ capacity(pc[t].main) \in Nat \ {0, 1}
    <3>1. implicitProducerHash[mainHash] \in Tables /\ implicitProducerHash[pc[t].main] \in Tables
      <4>1. implicitProducerHash \in Seq(Tables) /\ mainHash = Len(implicitProducerHash)
        BY <1>2 DEF TablesOK, mainHash
      <4> HIDE DEF mainHash
      <4> QED
        BY <4>1, <2>2
    <3> QED
      BY <3>1, TableForm DEF capacity
  <2>4. HalfFull(pc[t].main, pc[t].newCount) => pc[t].newCount \in Nat \ {0}
    BY <2>2, <2>3 DEF HalfFull
  <2>5. HalfFull(pc[t].main, pc[t].newCount) =>
          NewCapacity(capacity(mainHash), pc[t].newCount) \in Nat \ {0, 1}
    BY <2>3, <2>4, CapacityGrows
  <2> QED
    BY <1>5, <2>5 DEF Grow
<1>6. CASE \/ Find(t) \/ CountSlot(t) \/ LockResize(t) \/ UnlockResize(t) \/ CheckRoom(t)
           \/ GotProducer(t) \/ Uncount(t) \/ EnqueueImplicitly(t) \/ Exit(t) \/ Release(t)
  BY <1>6 DEF Find, CountSlot, LockResize, UnlockResize, CheckRoom, GotProducer, Uncount,
     EnqueueImplicitly, Exit, Release, hashVars
<1> QED
  BY <1>3, <1>4, <1>5, <1>6

(* The tables stay, or one slot is set, or there is a new table.           *)
LEMMA TablesStay ==
  ASSUME TablesOK, UNCHANGED implicitProducerHash, alive' => alive,
         \A n \in 1 .. mainHash : \A u \in Threads :
           id[u] # None /\ held[u] # None /\ ~NoEntry(implicitProducerHash[n], id[u])
             => id'[u] = id[u] /\ held'[u] = held[u],
         None \notin Nat
  PROVE  TablesOK'
<1>1. mainHash' = mainHash
  BY DEF mainHash
<1>2. ASSUME NEW n \in 1 .. mainHash, NEW i \in DOMAIN implicitProducerHash[n],
             implicitProducerHash[n][i].key \in Nat
      PROVE  \E t \in Threads : /\ id'[t] = implicitProducerHash[n][i].key
                                /\ held'[t] = implicitProducerHash[n][i].value /\ held'[t] # None
  <2>1. PICK u \in Threads : /\ id[u] = implicitProducerHash[n][i].key
                             /\ held[u] = implicitProducerHash[n][i].value /\ held[u] # None
    BY <1>2 DEF TablesOK
  <2>2. ~NoEntry(implicitProducerHash[n], id[u])
    BY <2>1 DEF NoEntry
  <2> QED
    BY <1>2, <2>1, <2>2
<1> QED
  BY <1>1, <1>2 DEF TablesOK

(* A slot is set, for the thread whose id and producer it names or for     *)
(* nobody.                                                                 *)
LEMMA TablesSet ==
  ASSUME setup \in Setups, TablesOK, NEW n \in 1 .. mainHash, NEW i \in DOMAIN implicitProducerHash[n],
         NEW k \in Nat \cup {Reusable}, NEW v \in Nat \cup {None}, SetSlot(n, i, k, v),
         k \in Nat => NoEntry(implicitProducerHash[n], k) /\ Reachable(implicitProducerHash[n], i, k),
         k \in Nat => \E t \in Threads : id[t] = k /\ held[t] = v /\ held[t] # None,
         UNCHANGED <<alive, id, held>>
  PROVE  TablesOK'
<1>1. /\ implicitProducerHash' \in Seq(Tables) /\ mainHash' = mainHash
      /\ \A m \in 1 .. mainHash :
           /\ Proper(implicitProducerHash'[m])
           /\ DOMAIN implicitProducerHash'[m] = DOMAIN implicitProducerHash[m]
           /\ \A j \in DOMAIN implicitProducerHash[m] :
                <<m, j>> # <<n, i>> => implicitProducerHash'[m][j] = implicitProducerHash[m][j]
      /\ implicitProducerHash'[n][i] = [key |-> k, value |-> v]
  BY HashSet
<1>2. ASSUME NEW m \in 1 .. mainHash, NEW j \in DOMAIN implicitProducerHash[m],
             implicitProducerHash'[m][j].key \in Nat
      PROVE  \E t \in Threads : /\ id[t] = implicitProducerHash'[m][j].key
                                /\ held[t] = implicitProducerHash'[m][j].value /\ held[t] # None
  <2>1. CASE <<m, j>> = <<n, i>>
    BY <1>1, <1>2, <2>1
  <2>2. CASE <<m, j>> # <<n, i>>
    <3>1. implicitProducerHash'[m][j] = implicitProducerHash[m][j]
      BY <1>1, <2>2
    <3> QED
      BY <1>2, <3>1 DEF TablesOK
  <2> QED
    BY <2>1, <2>2
<1> QED
  BY <1>1, <1>2 DEF TablesOK

(* A new table comes after the others, which stay.                         *)
LEMMA HashGrows ==
  ASSUME setup \in Setups, TablesOK, NEW c \in Nat \ {0, 1},
         implicitProducerHash' = Append(implicitProducerHash, NewTable(c))
  PROVE  /\ mainHash \in Nat /\ mainHash' = mainHash + 1
         /\ \A m \in 1 .. mainHash : implicitProducerHash'[m] = implicitProducerHash[m]
         /\ implicitProducerHash'[mainHash'] = NewTable(c)
         /\ implicitProducerHash' \in Seq(Tables) /\ Proper(NewTable(c))
         /\ \A k \in Nat : NoEntry(NewTable(c), k)
<1>1. NewTable(c) \in Tables /\ Proper(NewTable(c)) /\ \A k \in Nat : NoEntry(NewTable(c), k)
  BY NewTableForm, Names
<1>2. implicitProducerHash \in Seq(Tables)
  BY DEF TablesOK
<1> QED
  BY <1>1, <1>2 DEF mainHash

(* A new table names nobody.                                               *)
LEMMA TablesGrow ==
  ASSUME setup \in Setups, TablesOK, NEW c \in Nat \ {0, 1},
         implicitProducerHash' = Append(implicitProducerHash, NewTable(c)),
         UNCHANGED <<alive, id, held>>
  PROVE  TablesOK'
<1>1. /\ mainHash \in Nat /\ mainHash' = mainHash + 1
      /\ \A m \in 1 .. mainHash : implicitProducerHash'[m] = implicitProducerHash[m]
      /\ implicitProducerHash'[mainHash'] = NewTable(c)
      /\ implicitProducerHash' \in Seq(Tables) /\ Proper(NewTable(c))
      /\ \A k \in Nat : NoEntry(NewTable(c), k)
  BY HashGrows
<1>2. \A m \in 1 .. mainHash' : m \in 1 .. mainHash \/ m = mainHash'
  BY <1>1
<1>3. \A i \in DOMAIN NewTable(c) : NewTable(c)[i].key \notin Nat
  BY <1>1 DEF NoEntry
<1>4. \A m \in 1 .. mainHash' : Proper(implicitProducerHash'[m])
  BY <1>1, <1>2 DEF TablesOK
<1>5. ASSUME NEW m \in 1 .. mainHash', NEW i \in DOMAIN implicitProducerHash'[m],
             implicitProducerHash'[m][i].key \in Nat
      PROVE  \E t \in Threads : /\ id[t] = implicitProducerHash'[m][i].key
                                /\ held[t] = implicitProducerHash'[m][i].value /\ held[t] # None
  <2>1. CASE m \in 1 .. mainHash
    <3>1. implicitProducerHash'[m] = implicitProducerHash[m]
      BY <1>1, <2>1
    <3> QED
      BY <1>5, <2>1, <3>1 DEF TablesOK
  <2>2. CASE m = mainHash'
    <3>1. implicitProducerHash'[m] = NewTable(c)
      BY <1>1, <2>2
    <3> QED
      BY <1>3, <1>5, <3>1
  <2> QED
    BY <1>2, <2>1, <2>2
<1>6. mainHash' > 0
  BY <1>1
<1> QED
  BY ZenonT(30), <1>1, <1>4, <1>5, <1>6 DEF TablesOK

(* Threads without a token are met by nothing but their own steps.         *)
LEMMA OthersFrame ==
  ASSUME PointsOK, OwnersOK, UNCHANGED hashVars,
         \/ \E t \in Threads : RecycleOrCreate(t)
         \/ TokenNext
         \/ ConsumerNext
  PROVE  /\ UNCHANGED <<setup, alive, id, implicitProducerHash>>
         /\ \A u \in Threads : role[u] = "implicit" =>
              /\ held'[u] = held[u]
              /\ \/ pc'[u] = pc[u]
                 \/ pc[u].at \in Acquiring /\ pc'[u].at \in Acquiring /\ pc'[u].rest = pc[u].rest
<1>1. DOMAIN pc = Threads /\ DOMAIN held = Threads
  BY DEF PointsOK, OwnersOK
<1>2. id' = id /\ implicitProducerHash' = implicitProducerHash
  BY DEF hashVars
<1>3. ASSUME NEW t \in Threads, RecycleOrCreate(t)
      PROVE  /\ setup' = setup /\ alive' = alive /\ held' = held
             /\ \A u \in Threads \ {t} : pc'[u] = pc[u]
             /\ \/ pc'[t] = pc[t]
                \/ pc[t].at \in Acquiring /\ pc'[t].at \in Acquiring /\ pc'[t].rest = pc[t].rest
  <2>1. pc[t].at \in Acquiring /\ DOMAIN pc[t] = {"at", "explicit", "ptr", "rest"}
    BY <1>3, Basics DEF RecycleOrCreate, Walk, Create, Count, Push, Acquiring, Form
  <2> QED
    BY ZenonT(30), <1>1, <1>3, <2>1 DEF RecycleOrCreate, Walk, Create, Count, Push, Go, Acquiring, tokenVars
<1>4. ASSUME NEW t \in Threads,
             NewToken(t) \/ GotToken(t) \/ EnqueueWithToken(t) \/ DropToken(t) \/ Deactivate(t)
      PROVE  /\ setup' = setup /\ alive' = alive
             /\ \A u \in Threads : role[u] = "implicit" => held'[u] = held[u] /\ pc'[u] = pc[u]
  <2>1. role[t] = "token"
    BY <1>4, Basics, RoleAt DEF NewToken, GotToken, EnqueueWithToken, DropToken, Deactivate
  <2> QED
    BY <1>1, <1>4, <2>1 DEF NewToken, GotToken, EnqueueWithToken, DropToken, Deactivate, Go, tokenVars
<1>5. ASSUME NEW t \in Threads, NEW v \in Threads, SwapTokens(t, v)
      PROVE  /\ setup' = setup /\ alive' = alive
             /\ \A u \in Threads : role[u] = "implicit" => held'[u] = held[u] /\ pc'[u] = pc[u]
  BY <1>1, <1>5 DEF SwapTokens
<1>6. CASE \E t \in Threads : RecycleOrCreate(t)
  BY <1>2, <1>3, <1>6
<1>7. CASE TokenNext
  BY <1>2, <1>4, <1>5, <1>7 DEF TokenNext
<1>8. CASE ConsumerNext
  BY <1>2, <1>8, ConsumerFrame
<1> QED
  BY <1>6, <1>7, <1>8

(* Every step keeps the tables proper and their entries true.              *)
LEMMA TablesNext ==
  ASSUME PointsOK, CreatedOK, OwnersOK, IdsOK, TablesOK, PlacesOK, Next
  PROVE  TablesOK'
<1>1. /\ setup \in Setups /\ None \notin Nat /\ Reusable \notin Nat
      /\ DOMAIN held = Threads /\ DOMAIN id = Threads
  BY Names DEF PointsOK, OwnersOK, IdsOK
<1>2. CASE \/ \E t \in Threads : RecycleOrCreate(t) /\ UNCHANGED hashVars
           \/ TokenNext /\ UNCHANGED hashVars
           \/ ConsumerNext /\ UNCHANGED hashVars
  <2>1. /\ UNCHANGED <<setup, alive, id, implicitProducerHash>>
        /\ \A u \in Threads : role[u] = "implicit" => held'[u] = held[u]
    BY <1>2, OthersFrame
  <2>2. \A u \in Threads : id[u] # None => id'[u] = id[u] /\ held'[u] = held[u]
    BY <2>1 DEF IdsOK
  <2> QED
    BY <1>1, <2>1, <2>2, TablesStay
<1>3. ASSUME NEW t \in Threads,
             \/ Find(t) \/ Copy(t) \/ CountSlot(t) \/ LockResize(t) \/ Grow(t) \/ UnlockResize(t)
             \/ CheckRoom(t) \/ GotProducer(t) \/ Insert(t) \/ Uncount(t) \/ EnqueueImplicitly(t)
             \/ Exit(t) \/ Forget(t) \/ Release(t)
      PROVE  TablesOK'
  <2>1. role[t] = "implicit" /\ alive' = alive /\ AtPoint(t)
    BY <1>3, ImplicitMoves DEF OwnersOK
  <2>2. CASE UNCHANGED implicitProducerHash
    <3>1. ASSUME NEW n \in 1 .. mainHash, NEW u \in Threads, id[u] # None, held[u] # None,
                 ~NoEntry(implicitProducerHash[n], id[u])
          PROVE  id'[u] = id[u] /\ held'[u] = held[u]
      <4>1. CASE Find(t)
        <5>1. held' = held
          BY <4>1 DEF Find, tokenVars
        <5>2. u = t => id'[u] = id[u]
          BY <3>1, <4>1, FindsOwn
        <5>3. u # t => id'[u] = id[u]
          BY <1>1, <4>1 DEF Find
        <5> QED
          BY <5>1, <5>2, <5>3
      <4>2. CASE \/ Copy(t) \/ CountSlot(t) \/ LockResize(t) \/ Grow(t) \/ UnlockResize(t) \/ CheckRoom(t)
                 \/ Insert(t) \/ Uncount(t) \/ EnqueueImplicitly(t) \/ Forget(t)
        BY <4>2 DEF Copy, CountSlot, LockResize, Grow, UnlockResize, CheckRoom, Insert, Uncount,
           EnqueueImplicitly, Forget, tokenVars, hashVars
      <4>3. CASE GotProducer(t)
        <5>1. held[t] = None
          BY <2>1, <4>3 DEF GotProducer, AtPoint, Acquiring
        <5> QED
          BY <1>1, <3>1, <4>3, <5>1 DEF GotProducer
      <4>4. CASE Exit(t)
        BY <1>1, <3>1, <4>4 DEF Exit, tokenVars
      <4>5. CASE Release(t)
        <5>1. u # t
          <6>1. pc[t].at = "exit" /\ pc[t].table = 0
            BY <4>5 DEF Release
          <6>2. NoEntry(implicitProducerHash[n], id[t])
            BY <6>1 DEF PlacesOK, PlaceOf
          <6> QED
            BY <3>1, <6>2
        <5> QED
          BY <1>1, <4>5, <5>1 DEF Release
      <4> QED
        BY <1>3, <4>1, <4>2, <4>3, <4>4, <4>5
    <3> QED
      BY <1>1, <2>1, <2>2, <3>1, TablesStay
  <2>3. CASE /\ Copy(t) \/ Insert(t)
             /\ \E n \in 1 .. mainHash : \E i \in DOMAIN implicitProducerHash[n] :
                  /\ SetSlot(n, i, id[t], held[t])
                  /\ NoEntry(implicitProducerHash[n], id[t])
                  /\ Reachable(implicitProducerHash[n], i, id[t])
    <3>1. UNCHANGED <<alive, id, held>> /\ pc[t].at \in Placing
      BY <2>3 DEF Copy, Insert, tokenVars, Placing
    <3>2. held[t] # None /\ Mine(t) = held[t] /\ pc[t].at # "rest"
      BY <2>1, <3>1 DEF AtPoint, Mine, Placing
    <3>3. held[t] \in Nat
      BY <3>2 DEF OwnersOK, CreatedOK
    <3>4. id[t] \in Nat
      BY <1>1, <2>1, <3>2, Names DEF IdsOK
    <3>5. PICK n \in 1 .. mainHash :
            \E i \in DOMAIN implicitProducerHash[n] :
              /\ SetSlot(n, i, id[t], held[t])
              /\ NoEntry(implicitProducerHash[n], id[t])
              /\ Reachable(implicitProducerHash[n], i, id[t])
      BY <2>3
    <3>6. PICK i \in DOMAIN implicitProducerHash[n] :
            /\ SetSlot(n, i, id[t], held[t])
            /\ NoEntry(implicitProducerHash[n], id[t])
            /\ Reachable(implicitProducerHash[n], i, id[t])
      BY <3>5
    <3> QED
      BY <1>1, <3>1, <3>2, <3>3, <3>4, <3>6, TablesSet
  <2>4. CASE Forget(t) /\ \E i \in DOMAIN implicitProducerHash[pc[t].table] :
                            SetSlot(pc[t].table, i, Reusable, None)
    <3>1. UNCHANGED <<alive, id, held>> /\ pc[t].at = "exit" /\ pc[t].table > 0
      BY <2>4 DEF Forget, tokenVars
    <3>2. pc[t].table \in 1 .. mainHash
      BY <3>1 DEF PlacesOK, PlaceOf, mainHash, TablesOK
    <3>3. PICK i \in DOMAIN implicitProducerHash[pc[t].table] : SetSlot(pc[t].table, i, Reusable, None)
      BY <2>4
    <3> QED
      BY <1>1, <3>1, <3>2, <3>3, TablesSet
  <2>5. CASE Grow(t) /\ \E c \in Nat \ {0, 1} :
                          implicitProducerHash' = Append(implicitProducerHash, NewTable(c))
    <3>1. UNCHANGED <<alive, id, held>>
      BY <2>5 DEF Grow, tokenVars
    <3> QED
      BY <1>1, <2>5, <3>1, TablesGrow
  <2> QED
    BY <1>3, <2>2, <2>3, <2>4, <2>5, HashChanges
<1>4. CASE Destroy
  <2>1. implicitProducerHash' = <<>> /\ alive' = FALSE
    BY <1>4 DEF Destroy
  <2> QED
    BY <2>1 DEF TablesOK, mainHash
<1> QED
  BY <1>2, <1>3, <1>4 DEF Next, ImplicitNext

----------------------------------------------------------------------------
(* Where the threads stand in the tables.                                  *)

(* A step leaves alone what a search for k meets.                          *)
Keeps(k) ==
  /\ mainHash \in Nat /\ mainHash' \in Nat /\ mainHash <= mainHash'
  /\ \A m \in 1 .. mainHash :
       /\ DOMAIN implicitProducerHash'[m] = DOMAIN implicitProducerHash[m]
       /\ \A i : Reachable(implicitProducerHash[m], i, k) => Reachable(implicitProducerHash'[m], i, k)
       /\ NoEntry(implicitProducerHash'[m], k) <=> NoEntry(implicitProducerHash[m], k)
  /\ \A m \in 1 .. mainHash' : m \in 1 .. mainHash \/ NoEntry(implicitProducerHash'[m], k)

(* The tables stay.                                                        *)
LEMMA KeepsStay ==
  ASSUME TablesOK, UNCHANGED implicitProducerHash, NEW k
  PROVE  Keeps(k)
BY DEF Keeps, TablesOK, mainHash

(* A slot is set that was not k's, and is not now.                         *)
LEMMA KeepsSet ==
  ASSUME setup \in Setups, TablesOK, NEW n \in 1 .. mainHash, NEW i \in DOMAIN implicitProducerHash[n],
         NEW k \in Nat \cup {Reusable}, NEW v \in Nat \cup {None}, SetSlot(n, i, k, v),
         k \in Nat => NoEntry(implicitProducerHash[n], k) /\ Reachable(implicitProducerHash[n], i, k),
         NEW q \in Nat, q # k, implicitProducerHash[n][i].key # q
  PROVE  Keeps(q)
<1>1. /\ implicitProducerHash' \in Seq(Tables) /\ mainHash' = mainHash
      /\ \A m \in 1 .. mainHash :
           /\ DOMAIN implicitProducerHash'[m] = DOMAIN implicitProducerHash[m]
           /\ \A j : Reachable(implicitProducerHash[m], j, q) => Reachable(implicitProducerHash'[m], j, q)
           /\ \A j \in DOMAIN implicitProducerHash[m] :
                <<m, j>> # <<n, i>> => implicitProducerHash'[m][j] = implicitProducerHash[m][j]
      /\ implicitProducerHash'[n][i] = [key |-> k, value |-> v]
  BY ZenonT(30), HashSet
<1>2. mainHash \in Nat
  BY DEF TablesOK, mainHash
<1>3. ASSUME NEW m \in 1 .. mainHash
      PROVE  NoEntry(implicitProducerHash'[m], q) <=> NoEntry(implicitProducerHash[m], q)
  <2>1. \A j \in DOMAIN implicitProducerHash[m] :
          implicitProducerHash'[m][j].key = q <=> implicitProducerHash[m][j].key = q
    <3>1. ASSUME NEW j \in DOMAIN implicitProducerHash[m]
          PROVE  implicitProducerHash'[m][j].key = q <=> implicitProducerHash[m][j].key = q
      <4>1. CASE <<m, j>> = <<n, i>>
        BY <1>1, <4>1
      <4>2. CASE <<m, j>> # <<n, i>>
        <5>1. implicitProducerHash'[m][j] = implicitProducerHash[m][j]
          BY <1>1, <4>2
        <5> QED
          BY <5>1
      <4> QED
        BY <4>1, <4>2
    <3> QED
      BY <3>1
  <2> QED
    BY <1>1, <2>1 DEF NoEntry
<1>4. mainHash' \in Nat /\ mainHash <= mainHash' /\ \A m \in 1 .. mainHash' : m \in 1 .. mainHash
  BY <1>1, <1>2
<1>5. \A m \in 1 .. mainHash :
        /\ DOMAIN implicitProducerHash'[m] = DOMAIN implicitProducerHash[m]
        /\ \A j : Reachable(implicitProducerHash[m], j, q) => Reachable(implicitProducerHash'[m], j, q)
  BY <1>1
<1> QED
  BY <1>2, <1>3, <1>4, <1>5 DEF Keeps

(* There is a new table.                                                   *)
LEMMA KeepsGrow ==
  ASSUME setup \in Setups, TablesOK, NEW c \in Nat \ {0, 1},
         implicitProducerHash' = Append(implicitProducerHash, NewTable(c)), NEW q \in Nat
  PROVE  Keeps(q)
<1>1. /\ mainHash \in Nat /\ mainHash' = mainHash + 1
      /\ \A m \in 1 .. mainHash : implicitProducerHash'[m] = implicitProducerHash[m]
      /\ implicitProducerHash'[mainHash'] = NewTable(c)
      /\ NoEntry(NewTable(c), q)
  BY HashGrows
<1>2. \A m \in 1 .. mainHash' : m \in 1 .. mainHash \/ m = mainHash'
  BY <1>1
<1>3. \A m \in 1 .. mainHash :
        /\ DOMAIN implicitProducerHash'[m] = DOMAIN implicitProducerHash[m]
        /\ \A i : Reachable(implicitProducerHash[m], i, q) => Reachable(implicitProducerHash'[m], i, q)
        /\ NoEntry(implicitProducerHash'[m], q) <=> NoEntry(implicitProducerHash[m], q)
  BY <1>1
<1>4. mainHash' \in Nat /\ mainHash <= mainHash'
  BY <1>1
<1>5. \A m \in 1 .. mainHash' : m \in 1 .. mainHash \/ NoEntry(implicitProducerHash'[m], q)
  BY <1>1, <1>2
<1> QED
  BY <1>1, <1>3, <1>4, <1>5 DEF Keeps

(* A thread that does nothing stands where it stood.                       *)
LEMMA PlaceStays ==
  ASSUME NEW u \in Threads, PlaceOf(u), role' = role, id'[u] = id[u], Keeps(id[u]),
         held'[u] = held[u],
         \/ pc'[u] = pc[u]
         \/ pc[u].at \in Acquiring /\ pc'[u].at \in Acquiring /\ pc'[u].rest = pc[u].rest
  PROVE  PlaceOf(u)'
<1> DEFINE H == implicitProducerHash
<1>1. /\ mainHash \in Nat /\ mainHash' \in Nat /\ mainHash <= mainHash'
      /\ \A n \in 1 .. mainHash : n \in 1 .. mainHash'
  BY DEF Keeps
<1>2. CASE pc'[u] = pc[u]
  <2>1. pc'[u].at \in Choosing \ {"giveUp"} => pc'[u].main \in 1 .. mainHash'
    BY <1>1, <1>2 DEF PlaceOf
  <2>2. pc'[u].at \in Acquiring /\ role'[u] = "implicit" => pc'[u].rest \in 1 .. mainHash'
    BY <1>1, <1>2 DEF PlaceOf
  <2>3. pc'[u].at \in Placing =>
          /\ pc'[u].main \in 1 .. mainHash'
          /\ pc'[u].slot \in DOMAIN H'[pc'[u].main]
          /\ Reachable(H'[pc'[u].main], pc'[u].slot, id'[u])
          /\ NoEntry(H'[pc'[u].main], id'[u])
    BY <1>1, <1>2 DEF PlaceOf, Keeps
  <2>4. pc'[u].at \in {"rest"} \cup Found /\ role'[u] = "implicit" /\ held'[u] # None =>
          \E n \in 1 .. mainHash' : ~NoEntry(H'[n], id'[u])
    BY <1>1, <1>2 DEF PlaceOf, Keeps
  <2>5. pc'[u].at = "exit" =>
          /\ pc'[u].table \in 0 .. mainHash'
          /\ \A n \in pc'[u].table + 1 .. mainHash' : NoEntry(H'[n], id'[u])
    <3> SUFFICES ASSUME pc[u].at = "exit"
                 PROVE  /\ pc[u].table \in 0 .. mainHash'
                        /\ \A n \in pc[u].table + 1 .. mainHash' : NoEntry(H'[n], id[u])
      BY <1>2
    <3>1. /\ pc[u].table \in 0 .. mainHash
          /\ \A n \in pc[u].table + 1 .. mainHash : NoEntry(H[n], id[u])
      BY DEF PlaceOf
    <3>2. ASSUME NEW n \in pc[u].table + 1 .. mainHash' PROVE NoEntry(H'[n], id[u])
      BY <1>1, <3>1 DEF Keeps
    <3> QED
      BY <1>1, <3>1, <3>2
  <2> QED
    BY <2>1, <2>2, <2>3, <2>4, <2>5 DEF PlaceOf
<1>3. CASE pc[u].at \in Acquiring /\ pc'[u].at \in Acquiring /\ pc'[u].rest = pc[u].rest
  <2>1. pc'[u].at \notin Choosing \cup Placing \cup Found \cup {"rest", "exit"}
    BY <1>3 DEF Acquiring, Choosing, Resizing, Placing, Found
  <2>2. role'[u] = "implicit" => pc'[u].rest \in 1 .. mainHash'
    BY <1>1, <1>3 DEF PlaceOf
  <2> QED
    BY <2>1, <2>2 DEF PlaceOf
<1> QED
  BY <1>2, <1>3

(* Only threads without a token stand in the tables.                       *)
LEMMA PlaceOther ==
  ASSUME PointsOK', NEW u \in Threads, role'[u] # "implicit"
  PROVE  PlaceOf(u)'
<1>1. Form(role'[u], pc'[u]) /\ role'[u] \in Roles
  BY QueueAssumption DEF PointsOK, role, Roles
<1>2. pc'[u].at \notin Choosing \cup Placing \cup Found \cup {"exit"}
  BY <1>1, RoleAt
<1> QED
  BY <1>2 DEF PlaceOf

(* A slot that is left is not its thread's any more.                       *)
LEMMA SlotFreed ==
  ASSUME setup \in Setups, TablesOK, NEW n \in 1 .. mainHash, NEW i \in DOMAIN implicitProducerHash[n],
         NEW k \in {Reusable}, NEW v \in {None}, SetSlot(n, i, k, v), Reusable \notin Nat,
         NEW q \in Nat, implicitProducerHash[n][i].key = q
  PROVE  /\ mainHash' = mainHash /\ NoEntry(implicitProducerHash'[n], q)
         /\ \A m \in 1 .. mainHash :
              NoEntry(implicitProducerHash[m], q) => NoEntry(implicitProducerHash'[m], q)
<1> DEFINE H == implicitProducerHash
<1>1. /\ mainHash' = mainHash
      /\ \A m \in 1 .. mainHash :
           /\ DOMAIN H'[m] = DOMAIN H[m]
           /\ \A j \in DOMAIN H[m] : <<m, j>> # <<n, i>> => H'[m][j] = H[m][j]
      /\ H'[n][i] = [key |-> k, value |-> v]
  BY HashSet
<1>2. \A j \in DOMAIN H[n] : H[n][j].key = q => j = i
  BY DEF TablesOK, Proper
<1>3. ASSUME NEW j \in DOMAIN H[n] PROVE H'[n][j].key # q
  <2>1. CASE j = i
    BY <1>1, <2>1
  <2>2. CASE j # i
    <3>1. H'[n][j] = H[n][j]
      BY <1>1, <2>2
    <3> QED
      BY <1>2, <2>2, <3>1
  <2> QED
    BY <2>1, <2>2
<1>4. NoEntry(H'[n], q)
  BY <1>1, <1>3 DEF NoEntry
<1>5. ASSUME NEW m \in 1 .. mainHash, NoEntry(H[m], q) PROVE NoEntry(H'[m], q)
  <2>1. m # n
    BY <1>5 DEF NoEntry
  <2>2. DOMAIN H'[m] = DOMAIN H[m] /\ \A j \in DOMAIN H[m] : H'[m][j] = H[m][j]
    BY <1>1, <2>1
  <2> QED
    BY <1>5, <2>2 DEF NoEntry
<1> QED
  BY <1>1, <1>4, <1>5

(* The thread that moves.                                                  *)
LEMMA PlaceMoves ==
  ASSUME PointsOK, CreatedOK, OwnersOK, IdsOK, TablesOK, PlacesOK, NEW t \in Threads,
         \/ Find(t) \/ Copy(t) \/ CountSlot(t) \/ LockResize(t) \/ Grow(t) \/ UnlockResize(t)
         \/ CheckRoom(t) \/ GotProducer(t) \/ Insert(t) \/ Uncount(t) \/ EnqueueImplicitly(t)
         \/ Exit(t) \/ Forget(t) \/ Release(t)
  PROVE  PlaceOf(t)'
<1> USE DEF Acquiring, Resizing, Choosing, Placing, Found, Resting
<1> DEFINE H == implicitProducerHash
<1>1. /\ DOMAIN pc = Threads /\ DOMAIN held = Threads /\ DOMAIN id = Threads
      /\ Form(role[t], pc[t]) /\ setup \in Setups
  BY Basics DEF PointsOK, OwnersOK, IdsOK
<1>2. role[t] = "implicit" /\ role' = role /\ alive' = alive
  BY ImplicitMoves DEF role
<1>3. AtPoint(t) /\ PlaceOf(t)
  BY DEF OwnersOK, PlacesOK
<1>4. /\ mainHash \in Nat /\ (alive => mainHash \in 1 .. mainHash)
      /\ \A n \in 1 .. mainHash : H[n] \in Tables
  BY DEF TablesOK, mainHash
<1>5. pc[t].at # "rest" => id[t] \in Nat /\ alive
  BY <1>1, <1>2, BusyAlive, Names DEF IdsOK
<1>6. CASE Find(t)
  <2>1. held' = held /\ H' = H /\ mainHash' = mainHash /\ alive
    BY <1>6 DEF Find, tokenVars, mainHash
  <2>2. CASE held[t] = None /\ pc'[t] = [at |-> "countSlot", main |-> mainHash]
    BY <1>4, <2>1, <2>2 DEF PlaceOf
  <2>3. CASE held[t] # None /\ pc'[t] = [at |-> "enqueue", ptr |-> held[t]]
    <3>1. id'[t] = id[t] /\ pc[t] = Resting
      BY <1>6, <2>3, FindsOwn DEF Find
    <3>2. \E n \in 1 .. mainHash : ~NoEntry(H[n], id[t])
      BY <1>2, <1>3, <2>3, <3>1 DEF PlaceOf
    <3> QED
      BY <2>1, <2>3, <3>1, <3>2 DEF PlaceOf
  <2>4. CASE /\ held[t] # None /\ mainHash \in 1 .. mainHash
             /\ NoEntry(H[mainHash], id'[t])
             /\ pc'[t] = [at |-> "copy", ptr |-> held[t], main |-> mainHash,
                          slot |-> SlotAt(mainHash, id'[t])]
    <3>1. id'[t] \in Nat
      BY <1>6, FindsOwn
    <3>2. SlotAt(mainHash, id'[t]) \in DOMAIN H[mainHash]
      BY <1>4, <2>4, <3>1, SlotInTable DEF SlotAt, capacity
    <3>3. Reachable(H[mainHash], SlotAt(mainHash, id'[t]), id'[t])
      BY <1>4, <2>4, <3>1, SearchBegins DEF SlotAt, capacity
    <3> QED
      BY <2>1, <2>4, <3>2, <3>3 DEF PlaceOf
  <2> QED
    BY <1>6, <2>2, <2>3, <2>4, FindsOwn
<1>7. CASE Copy(t) \/ Insert(t)
  <2>1. id' = id /\ held' = held /\ pc[t].at \in Placing
    BY <1>7 DEF Copy, Insert, tokenVars
  <2>2. CASE /\ H' = H
             /\ pc'[t].at = pc[t].at /\ pc'[t].main = pc[t].main
             /\ pc'[t].slot \in DOMAIN H[pc[t].main]
             /\ Reachable(H[pc[t].main], pc'[t].slot, id[t])
    BY <1>3, <2>1, <2>2 DEF PlaceOf, mainHash
  <2>3. CASE SetSlot(pc[t].main, pc[t].slot, id[t], held[t]) /\ pc'[t].at \in Found
    <3>1. pc[t].main \in 1 .. mainHash /\ pc[t].slot \in DOMAIN H[pc[t].main]
      BY <1>3, <2>1 DEF PlaceOf
    <3>2. DOMAIN H = 1 .. mainHash
      BY DEF TablesOK, mainHash
    <3>3. /\ H'[pc[t].main][pc[t].slot].key = id[t] /\ DOMAIN H' = DOMAIN H
          /\ DOMAIN H'[pc[t].main] = DOMAIN H[pc[t].main]
      BY <2>3, <3>1, <3>2 DEF SetSlot
    <3>4. mainHash' = mainHash
      BY <2>3, <1>4, <3>2 DEF SetSlot, mainHash, TablesOK
    <3>5. ~NoEntry(H'[pc[t].main], id[t])
      BY <3>1, <3>3 DEF NoEntry
    <3> QED
      BY <2>1, <2>3, <3>1, <3>4, <3>5 DEF PlaceOf
  <2> QED
    BY <1>7, <2>2, <2>3, SlotTaken
<1>8. CASE CountSlot(t) \/ LockResize(t) \/ UnlockResize(t)
  <2>1. /\ H' = H /\ mainHash' = mainHash /\ held' = held /\ pc[t].at \in Choosing
    BY <1>8 DEF CountSlot, LockResize, UnlockResize, mainHash, tokenVars
  <2>2. held[t] = None
    BY <1>3, <2>1 DEF AtPoint
  <2>3. \/ pc'[t].at \in Resizing /\ pc'[t].main \in {pc[t].main, mainHash} /\ pc[t].at # "giveUp"
        \/ pc'[t] = Resting
    <3>1. pc[t].at \in Resizing => DOMAIN pc[t] = {"at", "main", "newCount"}
      BY <1>1 DEF Form
    <3>2. CASE CountSlot(t)
      <4>1. pc[t].at = "countSlot"
            /\ pc'[t] = [at |-> "resize", main |-> pc[t].main, newCount |-> implicitProducerHashCount']
        BY <1>1, <3>2 DEF CountSlot, Go
      <4> QED
        BY <4>1
    <3>3. CASE LockResize(t)
      <4>1. /\ pc[t].at = "resize"
            /\ \/ pc'[t] = [pc[t] EXCEPT !.at = "grow", !.main = mainHash]
               \/ pc'[t] = [pc[t] EXCEPT !.at = "check"]
        BY <1>1, <3>3 DEF LockResize, Go
      <4> QED
        BY <3>1, <4>1
    <3>4. CASE UnlockResize(t)
      <4>1. \/ pc[t].at = "unlock" /\ pc'[t] = [pc[t] EXCEPT !.at = "check"]
            \/ pc'[t] = Resting
        BY <1>1, <3>4 DEF UnlockResize, Go
      <4> QED
        BY <3>1, <4>1
    <3> QED
      BY <1>8, <3>2, <3>3, <3>4
  <2>4. CASE pc'[t].at \in Resizing /\ pc'[t].main \in {pc[t].main, mainHash} /\ pc[t].at # "giveUp"
    <3>1. pc'[t].main \in 1 .. mainHash
      BY <1>3, <1>4, <1>5, <2>1, <2>4 DEF PlaceOf
    <3> QED
      BY <2>1, <2>4, <3>1 DEF PlaceOf
  <2>5. CASE pc'[t] = Resting
    BY <2>1, <2>2, <2>5 DEF PlaceOf
  <2> QED
    BY <2>3, <2>4, <2>5
<1>9. CASE Grow(t)
  <2>1. pc[t].at = "grow" /\ pc[t].main \in 1 .. mainHash
    BY <1>3, <1>9 DEF Grow, PlaceOf
  <2>2. \/ pc'[t].at = "giveUp"
        \/ pc'[t].at = "unlock" /\ pc'[t].main = pc[t].main /\ H' = H
        \/ /\ pc'[t].at = "unlock" /\ pc'[t].main = mainHash + 1
           /\ H' = Append(H, NewTable(NewCapacity(capacity(mainHash), pc[t].newCount)))
    <3>1. DOMAIN pc[t] = {"at", "main", "newCount"}
      BY <1>1, <2>1 DEF Form
    <3>2. \/ pc'[t] = [at |-> "giveUp"]
          \/ pc'[t] = [pc[t] EXCEPT !.at = "unlock"] /\ H' = H
          \/ /\ pc'[t] = [pc[t] EXCEPT !.at = "unlock", !.main = mainHash + 1]
             /\ H' = Append(H, NewTable(NewCapacity(capacity(mainHash), pc[t].newCount)))
      BY <1>1, <1>9 DEF Grow, Go
    <3>3. ASSUME pc'[t] = [pc[t] EXCEPT !.at = "unlock", !.main = mainHash + 1]
          PROVE  pc'[t].at = "unlock" /\ pc'[t].main = mainHash + 1
      BY <3>1, <3>3
    <3>4. ASSUME pc'[t] = [pc[t] EXCEPT !.at = "unlock"]
          PROVE  pc'[t].at = "unlock" /\ pc'[t].main = pc[t].main
      BY <3>1, <3>4
    <3>5. pc'[t] = [at |-> "giveUp"] => pc'[t].at = "giveUp"
      OBVIOUS
    <3> QED
      BY <3>2, <3>3, <3>4, <3>5
  <2>3. CASE pc'[t].at = "giveUp"
    BY <2>3 DEF PlaceOf
  <2>4. CASE pc'[t].at = "unlock" /\ pc'[t].main = pc[t].main /\ H' = H
    <3>1. mainHash' = mainHash
      BY <2>4 DEF mainHash
    <3> QED
      BY <2>1, <2>4, <3>1 DEF PlaceOf
  <2>5. CASE /\ pc'[t].at = "unlock" /\ pc'[t].main = mainHash + 1
             /\ H' = Append(H, NewTable(NewCapacity(capacity(mainHash), pc[t].newCount)))
    <3>1. mainHash' = mainHash + 1
      BY <2>5 DEF mainHash, TablesOK
    <3>2. pc'[t].main \in 1 .. mainHash'
      BY <1>4, <2>5, <3>1
    <3> QED
      BY <2>5, <3>2 DEF PlaceOf
  <2> QED
    BY <2>2, <2>3, <2>4, <2>5
<1>10. CASE CheckRoom(t)
  <2>1. /\ H' = H /\ mainHash' = mainHash /\ pc[t].main \in 1 .. mainHash /\ pc[t].at = "check"
    BY <1>3, <1>10 DEF CheckRoom, hashVars, mainHash, PlaceOf
  <2>2. \/ pc'[t] = Recycling(FALSE, pc[t].main)
        \/ pc'[t].at = "resize" /\ pc'[t].main = mainHash
    BY <1>1, <1>10 DEF CheckRoom, Go, Form
  <2>3. CASE pc'[t] = Recycling(FALSE, pc[t].main)
    <3>1. pc'[t].at = "walk" /\ pc'[t].rest = pc[t].main
      BY <2>3 DEF Recycling
    <3> QED
      BY <2>1, <3>1 DEF PlaceOf
  <2>4. CASE pc'[t].at = "resize" /\ pc'[t].main = mainHash
    BY <1>4, <1>5, <2>1, <2>4 DEF PlaceOf
  <2> QED
    BY <2>2, <2>3, <2>4
<1>11. CASE GotProducer(t)
  <2>1. /\ H' = H /\ mainHash' = mainHash /\ id' = id /\ pc[t].at = "got"
        /\ pc[t].rest \in 1 .. mainHash /\ held[t] = None
    BY <1>2, <1>3, <1>11 DEF GotProducer, mainHash, PlaceOf, AtPoint
  <2>2. CASE pc[t].ptr = None
    <3>1. pc'[t] = Resting /\ held'[t] = None
      BY <1>1, <1>11, <2>1, <2>2 DEF GotProducer, Go
    <3> QED
      BY <3>1 DEF PlaceOf
  <2>3. CASE pc[t].ptr # None
    <3> DEFINE n == pc[t].rest
    <3>1. pc'[t] = [at |-> "insert", ptr |-> pc[t].ptr, main |-> n, slot |-> SlotAt(n, id[t])]
      BY <1>1, <1>11, <2>3 DEF GotProducer, Go
    <3>2. id[t] \in Nat /\ H[n] \in Tables
      BY <1>4, <1>5, <2>1
    <3>3. SlotAt(n, id[t]) \in DOMAIN H[n] /\ Reachable(H[n], SlotAt(n, id[t]), id[t])
      BY <3>2, SlotInTable, SearchBegins DEF SlotAt, capacity
    <3>4. NoEntry(H[n], id[t])
      <4>1. ASSUME NEW i \in DOMAIN H[n], H[n][i].key = id[t] PROVE FALSE
        <5>1. PICK u \in Threads : id[u] = id[t] /\ held[u] # None
          BY <2>1, <3>2, <4>1 DEF TablesOK
        <5>2. id[t] # None
          BY <1>1, <3>2, Names
        <5>3. u = t
          BY <5>1, <5>2 DEF IdsOK
        <5> QED
          BY <2>1, <5>1, <5>3
      <4> QED
        BY <4>1 DEF NoEntry
    <3> HIDE DEF n
    <3> QED
      BY <2>1, <3>1, <3>3, <3>4 DEF PlaceOf, n
  <2> QED
    BY <2>2, <2>3
<1>12. CASE Uncount(t) \/ EnqueueImplicitly(t)
  <2>1. H' = H /\ mainHash' = mainHash /\ id' = id /\ held' = held /\ pc[t].at \in Found
    BY <1>12 DEF Uncount, EnqueueImplicitly, hashVars, tokenVars, mainHash
  <2>2. pc'[t].at \in Found \cup {"rest"}
    BY <1>1, <1>12 DEF Uncount, EnqueueImplicitly, Go, Form
  <2>3. held[t] # None => \E n \in 1 .. mainHash : ~NoEntry(H[n], id[t])
    BY <1>2, <1>3, <2>1 DEF PlaceOf
  <2> QED
    BY <2>1, <2>2, <2>3 DEF PlaceOf
<1>13. CASE Exit(t)
  <2>1. H' = H /\ mainHash' = mainHash /\ held' = held
    BY <1>13 DEF Exit, tokenVars, mainHash
  <2>2. CASE held[t] = None
    <3>1. pc'[t] = Resting
      BY <1>13, <2>2 DEF Exit
    <3> QED
      BY <2>1, <2>2, <3>1 DEF PlaceOf
  <2>3. CASE held[t] # None
    <3>1. pc'[t] = [at |-> "exit", table |-> mainHash]
      BY <1>1, <1>13, <2>3 DEF Exit, Go
    <3>2. mainHash \in 0 .. mainHash /\ mainHash + 1 .. mainHash = {}
      BY <1>4
    <3> QED
      BY <2>1, <3>1, <3>2 DEF PlaceOf
  <2> QED
    BY <2>2, <2>3
<1>14. CASE Forget(t)
  <2> DEFINE n == pc[t].table
  <2>1. /\ id' = id /\ held' = held /\ pc[t].at = "exit" /\ n \in 1 .. mainHash
        /\ \A m \in n + 1 .. mainHash : NoEntry(H[m], id[t])
    BY <1>3, <1>4, <1>14 DEF Forget, PlaceOf, tokenVars
  <2>2. pc'[t].at = "exit" /\ pc'[t].table = n - 1
    BY <1>1, <1>14, <2>1 DEF Forget, Go, Form
  <2>3. id[t] \in Nat /\ H[n] \in Tables /\ Proper(H[n])
    BY <1>4, <1>5, <2>1 DEF TablesOK
  <2>4. mainHash' = mainHash /\ \A m \in n .. mainHash : NoEntry(H'[m], id[t])
    <3>1. CASE Has(n, id[t])
      <4> DEFINE i == SlotOf(n, id[t])
      <4>1. i \in DOMAIN H[n] /\ H[n][i].key = id[t]
        BY <2>1, <2>3, <3>1, SearchSound
      <4>2. SetSlot(n, i, Reusable, None)
        BY <1>14, <3>1 DEF Forget
      <4> HIDE DEF i
      <4>3. Reusable \notin Nat
        BY <1>1, Names
      <4>4. /\ mainHash' = mainHash /\ NoEntry(H'[n], id[t])
            /\ \A m \in 1 .. mainHash : NoEntry(H[m], id[t]) => NoEntry(H'[m], id[t])
        <5> HIDE DEF n
        <5> QED
          BY <1>1, <2>1, <2>3, <4>1, <4>2, <4>3, SlotFreed
      <4>5. \A m \in n .. mainHash : m = n \/ (m \in n + 1 .. mainHash /\ m \in 1 .. mainHash)
        BY <1>4, <2>1
      <4> QED
        BY <2>1, <4>4, <4>5
    <3>2. CASE ~Has(n, id[t])
      <4>1. H' = H
        BY <1>14, <3>2 DEF Forget
      <4>2. NoEntry(H[n], id[t])
        BY <2>1, <2>3, <3>2, SearchFinds
      <4>3. \A m \in n .. mainHash : m = n \/ m \in n + 1 .. mainHash
        BY <1>4, <2>1
      <4> QED
        BY <2>1, <4>1, <4>2, <4>3 DEF mainHash
    <3> QED
      BY <3>1, <3>2
  <2>5. n - 1 \in 0 .. mainHash /\ n - 1 + 1 = n
    BY <1>4, <2>1
  <2> HIDE DEF n
  <2> QED
    BY <2>1, <2>2, <2>4, <2>5 DEF PlaceOf
<1>15. CASE Release(t)
  <2>1. pc'[t] = Resting /\ held'[t] = None
    BY <1>1, <1>15 DEF Release, Go
  <2> QED
    BY <2>1 DEF PlaceOf
<1> QED
  BY <1>6, <1>7, <1>8, <1>9, <1>10, <1>11, <1>12, <1>13, <1>14, <1>15

(* Steps of threads without tokens: the others keep their places.          *)
LEMMA PlacesImplicit ==
  ASSUME PointsOK, PointsOK', CreatedOK, OwnersOK, IdsOK, TablesOK, PlacesOK, NEW t \in Threads,
         \/ Find(t) \/ Copy(t) \/ CountSlot(t) \/ LockResize(t) \/ Grow(t) \/ UnlockResize(t)
         \/ CheckRoom(t) \/ GotProducer(t) \/ Insert(t) \/ Uncount(t) \/ EnqueueImplicitly(t)
         \/ Exit(t) \/ Forget(t) \/ Release(t)
  PROVE  PlacesOK'
<1>1. /\ DOMAIN held = Threads /\ DOMAIN id = Threads /\ setup \in Setups
      /\ setup.ids \subseteq Nat /\ None \notin Nat /\ Reusable \notin Nat
  BY Names DEF PointsOK, OwnersOK, IdsOK
<1>2. role[t] = "implicit" /\ role' = role /\ \A u \in Threads \ {t} : pc'[u] = pc[u]
  BY ImplicitMoves DEF role
<1>3. \A u \in Threads \ {t} : held'[u] = held[u] /\ id'[u] = id[u]
  <2>1. CASE Find(t)
    BY <1>1, <2>1 DEF Find, tokenVars
  <2>2. CASE \/ Copy(t) \/ CountSlot(t) \/ LockResize(t) \/ Grow(t) \/ UnlockResize(t) \/ CheckRoom(t)
             \/ Insert(t) \/ Uncount(t) \/ EnqueueImplicitly(t) \/ Forget(t)
    BY <2>2 DEF Copy, CountSlot, LockResize, Grow, UnlockResize, CheckRoom, Insert, Uncount,
       EnqueueImplicitly, Forget, tokenVars, hashVars
  <2>3. CASE GotProducer(t) \/ Exit(t) \/ Release(t)
    BY <1>1, <2>3 DEF GotProducer, Exit, Release, tokenVars
  <2> QED
    BY <2>1, <2>2, <2>3
<1>4. ASSUME NEW q \in Nat, q # id[t] PROVE Keeps(q)
  <2>1. CASE UNCHANGED implicitProducerHash
    BY <2>1, KeepsStay
  <2>2. CASE /\ Copy(t) \/ Insert(t)
             /\ \E n \in 1 .. mainHash : \E i \in DOMAIN implicitProducerHash[n] :
                  /\ SetSlot(n, i, id[t], held[t])
                  /\ implicitProducerHash[n][i].key \notin Nat
                  /\ NoEntry(implicitProducerHash[n], id[t])
                  /\ Reachable(implicitProducerHash[n], i, id[t])
    <3>1. pc[t].at \in Placing /\ AtPoint(t)
      BY <2>2 DEF Copy, Insert, Placing, OwnersOK
    <3>2. held[t] # None /\ Mine(t) = held[t] /\ pc[t].at # "rest"
      BY <3>1 DEF AtPoint, Mine, Placing
    <3>3. held[t] \in Nat
      BY <3>2 DEF OwnersOK, CreatedOK
    <3>4. id[t] \in Nat
      BY <1>1, <1>2, <3>2 DEF IdsOK
    <3>5. PICK n \in 1 .. mainHash :
            \E i \in DOMAIN implicitProducerHash[n] :
              /\ SetSlot(n, i, id[t], held[t])
              /\ implicitProducerHash[n][i].key \notin Nat
              /\ NoEntry(implicitProducerHash[n], id[t])
              /\ Reachable(implicitProducerHash[n], i, id[t])
      BY <2>2
    <3>6. PICK i \in DOMAIN implicitProducerHash[n] :
            /\ SetSlot(n, i, id[t], held[t])
            /\ implicitProducerHash[n][i].key \notin Nat
            /\ NoEntry(implicitProducerHash[n], id[t])
            /\ Reachable(implicitProducerHash[n], i, id[t])
      BY <3>5
    <3>7. implicitProducerHash[n][i].key # q
      BY <3>6
    <3> QED
      BY <1>1, <1>4, <3>3, <3>4, <3>6, <3>7, KeepsSet
  <2>3. CASE Forget(t) /\ \E i \in DOMAIN implicitProducerHash[pc[t].table] :
                            /\ SetSlot(pc[t].table, i, Reusable, None)
                            /\ implicitProducerHash[pc[t].table][i].key = id[t]
    <3>1. pc[t].at = "exit" /\ pc[t].table > 0
      BY <2>3 DEF Forget
    <3>2. pc[t].table \in 1 .. mainHash
      BY <3>1 DEF PlacesOK, PlaceOf, mainHash, TablesOK
    <3>3. PICK i \in DOMAIN implicitProducerHash[pc[t].table] :
            /\ SetSlot(pc[t].table, i, Reusable, None)
            /\ implicitProducerHash[pc[t].table][i].key = id[t]
      BY <2>3
    <3>4. implicitProducerHash[pc[t].table][i].key # q /\ q # Reusable
      BY <1>1, <1>4, <3>3
    <3> QED
      BY <1>1, <3>2, <3>3, <3>4, KeepsSet
  <2>4. CASE Grow(t) /\ \E c \in Nat \ {0, 1} :
                          implicitProducerHash' = Append(implicitProducerHash, NewTable(c))
    BY <1>1, <2>4, KeepsGrow
  <2> QED
    BY <2>1, <2>2, <2>3, <2>4, HashChanges
<1>5. ASSUME NEW u \in Threads \ {t} PROVE PlaceOf(u)'
  <2>1. PlaceOf(u) /\ role'[u] = role[u] /\ pc'[u] = pc[u] /\ held'[u] = held[u] /\ id'[u] = id[u]
    BY <1>2, <1>3 DEF PlacesOK
  <2>2. CASE role[u] # "implicit"
    BY <2>1, <2>2, PlaceOther
  <2>3. CASE role[u] = "implicit" /\ id[u] = None
    <3>1. pc'[u].at = "rest" /\ held'[u] = None
      BY <2>1, <2>3 DEF IdsOK
    <3> QED
      BY <3>1 DEF PlaceOf, Acquiring, Choosing, Resizing, Placing, Found
  <2>4. CASE role[u] = "implicit" /\ id[u] # None
    <3>1. id[u] \in Nat /\ id[u] # id[t]
      BY <1>1, <2>4 DEF IdsOK
    <3> QED
      BY <1>2, <1>4, <2>1, <3>1, PlaceStays
  <2> QED
    BY <2>2, <2>3, <2>4
<1> QED
  BY <1>5, PlaceMoves DEF PlacesOK

(* Every step leaves the threads where their searches need them.           *)
LEMMA PlacesNext ==
  ASSUME PointsOK, PointsOK', CreatedOK, OwnersOK, OwnersOK', IdsOK, TablesOK, PlacesOK, Next
  PROVE  PlacesOK'
<1>1. CASE \/ \E t \in Threads : RecycleOrCreate(t) /\ UNCHANGED hashVars
           \/ TokenNext /\ UNCHANGED hashVars
           \/ ConsumerNext /\ UNCHANGED hashVars
  <2>1. /\ UNCHANGED <<setup, alive, id, implicitProducerHash>>
        /\ \A u \in Threads : role[u] = "implicit" =>
             /\ held'[u] = held[u]
             /\ \/ pc'[u] = pc[u]
                \/ pc[u].at \in Acquiring /\ pc'[u].at \in Acquiring /\ pc'[u].rest = pc[u].rest
    BY <1>1, OthersFrame
  <2>2. role' = role
    BY <2>1 DEF role
  <2>3. ASSUME NEW u \in Threads PROVE PlaceOf(u)'
    <3>1. CASE role[u] # "implicit"
      BY <2>2, <3>1, PlaceOther
    <3>2. CASE role[u] = "implicit"
      <4>1. Keeps(id[u]) /\ PlaceOf(u)
        BY <2>1, KeepsStay DEF PlacesOK
      <4> QED
        BY <2>1, <2>2, <3>2, <4>1, PlaceStays
    <3> QED
      BY <3>1, <3>2
  <2> QED
    BY <2>3 DEF PlacesOK
<1>2. CASE ImplicitNext
  BY <1>2, PlacesImplicit DEF ImplicitNext
<1>3. CASE Destroy
  <2>1. alive' = FALSE /\ \A u \in Threads : pc'[u] = Resting
    BY <1>3 DEF Destroy
  <2>2. \A u \in Threads : held'[u] = None
    BY <2>1 DEF OwnersOK, Mine, Resting
  <2> QED
    BY <2>1, <2>2 DEF PlacesOK, PlaceOf, Resting, Acquiring, Choosing, Resizing, Placing, Found
<1> QED
  BY <1>1, <1>2, <1>3 DEF Next

----------------------------------------------------------------------------
(* The invariant, and what follows.                                        *)

(* A step that changes nothing.                                            *)
LEMMA Stutter ==
  ASSUME IInv, UNCHANGED vars
  PROVE  IInv'
<1> USE DEF vars, producerVars, hashVars, listVars, tokenVars
<1>1. role' = role /\ Created' = Created /\ mainHash' = mainHash /\ Listed' = Listed
  BY DEF role, Created, mainHash, Listed, From
<1>2. PointsOK' /\ CreatedOK'
  BY <1>1 DEF IInv, PointsOK, CreatedOK
<1>3. ChainOK'
  BY <1>1 DEF IInv, ChainOK, Adding
<1>4. OwnersOK' /\ IdsOK'
  BY <1>1 DEF IInv, OwnersOK, AtPoint, Mine, IdsOK
<1>5. TablesOK'
  BY <1>1 DEF IInv, TablesOK
<1>6. PlacesOK'
  BY <1>1 DEF IInv, PlacesOK, PlaceOf
<1> QED
  BY <1>2, <1>3, <1>4, <1>5, <1>6 DEF IInv

(* Every step of the queue keeps the invariant.                            *)
LEMMA NextInvariant ==
  ASSUME IInv, Next
  PROVE  IInv'
<1>1. PointsOK /\ CreatedOK /\ ChainOK /\ OwnersOK /\ IdsOK /\ TablesOK /\ PlacesOK
  BY DEF IInv
<1>2. PointsOK'
  BY <1>1, PointsNext
<1>3. CreatedOK'
  BY <1>1, CreatedNext
<1>4. ChainOK'
  BY <1>1, <1>2, ChainNext
<1>5. OwnersOK'
  BY <1>1, <1>2, OwnersNext
<1>6. IdsOK'
  BY <1>1, <1>2, IdsNext
<1>7. TablesOK'
  BY <1>1, TablesNext
<1>8. PlacesOK'
  BY <1>1, <1>2, <1>5, PlacesNext
<1> QED
  BY <1>2, <1>3, <1>4, <1>5, <1>6, <1>7, <1>8 DEF IInv

(* The invariant says more than ProducersOwned.                            *)
LEMMA InvariantOwned ==
  ASSUME IInv
  PROVE  ProducersOwned
<1> USE DEF IInv
<1>1. AllListed
  <2>1. Listed \subseteq DOMAIN next
    BY DEF Listed, From
  <2>2. Cardinality(Listed) <= Cardinality(DOMAIN next)
    BY <2>1, FS_Subset DEF ChainOK
  <2> QED
    BY <2>2 DEF ChainOK, AllListed
<1>2. EntriesMatch
  <2>1. \A t \in Threads : pc[t].at = "enqueue" => pc[t].ptr = held[t]
    BY DEF OwnersOK, AtPoint, Found
  <2>2. setup.ids \subseteq Nat
    BY Names DEF PointsOK
  <2> QED
    BY <2>1, <2>2 DEF EntriesMatch, TablesOK
<1>3. ASSUME NEW t \in Threads, held[t] # None
      PROVE  /\ alive
             /\ ~inactive[held[t]]
             /\ \A u \in Threads \ {t} : held[u] # held[t]
             /\ isExplicit[held[t]] = (role[t] = "token")
             /\ role[t] = "token" /\ pc[t] = Resting => tokenOf[held[t]] = t
  <2>1. ASSUME NEW u \in Threads, held[u] # None PROVE Mine(u) = held[u]
    <3>1. AtPoint(u)
      BY DEF OwnersOK
    <3> QED
      BY <2>1, <3>1 DEF AtPoint, Mine, Acquiring
  <2>2. /\ alive /\ held[t] \in Created /\ inactive[held[t]] = FALSE
        /\ isExplicit[held[t]] <=> role[t] = "token"
        /\ \A u \in Threads \ {t} : Mine(u) # held[t]
    BY <1>3, <2>1 DEF OwnersOK
  <2>3. \A u \in Threads \ {t} : held[u] # held[t]
    BY <1>3, <2>1, <2>2
  <2>4. isExplicit[held[t]] = (role[t] = "token")
    BY <2>2 DEF CreatedOK
  <2>5. role[t] = "token" /\ pc[t] = Resting => tokenOf[held[t]] = t
    BY <1>3 DEF OwnersOK, AtPoint, Resting
  <2> QED
    BY <2>2, <2>3, <2>4, <2>5
<1> QED
  BY <1>1, <1>2, <1>3 DEF ProducersOwned

(* However many threads make, move and drop tokens, enqueue without one,   *)
(* exit and consume: a producer is in the list or on its way there, and    *)
(* counted; a thread that has one has it alone, active and of its kind; it *)
(* finds it again, and a hash table leads nobody else to it.               *)
THEOREM OwnedInvariant == Spec => []ProducersOwned
<1>1. Init => IInv
  BY InitInvariant
<1>2. IInv /\ [Next]_vars => IInv'
  BY Stutter, NextInvariant
<1>3. IInv => ProducersOwned
  BY InvariantOwned
<1> QED
  BY <1>1, <1>2, <1>3, PTL DEF Spec
=============================================================================
