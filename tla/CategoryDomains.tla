-------------------------- MODULE CategoryDomains --------------------------
(***************************************************************************)
(* std_error_code_domain_from_category() of                                *)
(* src/include/nie/system_error2.hpp: the first use of a category of       *)
(* std::error_code makes a domain for it, in a table of fixed size behind  *)
(* a spin lock.  Every code of the category refers to that domain.         *)
(***************************************************************************)
EXTENDS Naturals, Sequences, FiniteSets

CONSTANTS
  Threads,
  Categories,
  MaxItems     \* max_items

VARIABLES
  items,    \* the domains made, by their category: items[1 .. count]
  locked,   \* _lock
  adding,   \* where each thread is in add()
  asked,    \* the category that each thread has a code of
  ret,      \* the domain found or made for it, or 0
  made,     \* the codes that were made: <<category, domain>>
  aborted

domainVars == <<items, locked, adding, asked, ret, made, aborted>>

DomainsInit ==
  /\ items = <<>> /\ locked = FALSE
  /\ adding = [t \in Threads |-> "no"]
  /\ asked = [t \in Threads |-> CHOOSE c \in Categories : TRUE]
  /\ ret = [t \in Threads |-> 0]
  /\ made = {} /\ aborted = FALSE

Step(t, from, to) ==
  /\ adding[t] = from /\ adding' = [adding EXCEPT ![t] = to]

(* A code of category c is made, or converted.                             *)
MakeCode(t, c) ==
  /\ Step(t, "no", "lock")
  /\ asked' = [asked EXCEPT ![t] = c]
  /\ ret' = [ret EXCEPT ![t] = 0]
  /\ UNCHANGED <<items, locked, made, aborted>>

(* Mutant: the lock does not wait.                                         *)
EnterAnyway(t) ==
  /\ Step(t, "lock", "search")
  /\ locked' = TRUE
  /\ UNCHANGED <<items, asked, ret, made, aborted>>

(* lock(): the exchange that finds 0 in _lock.                             *)
Enter(t) ==
  /\ Step(t, "lock", "search")
  /\ ~locked /\ locked' = TRUE
  /\ UNCHANGED <<items, asked, ret, made, aborted>>

(* The domain's id is that of its category.                                *)
Search(t) ==
  /\ Step(t, "search", "append")
  /\ \/ \E n \in DOMAIN items : items[n] = asked[t] /\ ret' = [ret EXCEPT ![t] = n]
     \/ asked[t] \notin {items[n] : n \in DOMAIN items} /\ UNCHANGED ret
  /\ UNCHANGED <<items, locked, asked, made, aborted>>

(* Mutant: a full table is taken for one with room.                        *)
AppendBeyond(t) ==
  /\ Step(t, "append", "unlock")
  /\ IF ret[t] = 0 /\ Len(items) <= MaxItems
       THEN /\ items' = Append(items, asked[t])
            /\ ret' = [ret EXCEPT ![t] = Len(items')]
       ELSE UNCHANGED <<items, ret>>
  /\ UNCHANGED <<locked, asked, made, aborted>>

AddItem(t) ==
  /\ Step(t, "append", "unlock")
  /\ IF ret[t] = 0 /\ Len(items) < MaxItems
       THEN /\ items' = Append(items, asked[t])
            /\ ret' = [ret EXCEPT ![t] = Len(items')]
       ELSE UNCHANGED <<items, ret>>
  /\ UNCHANGED <<locked, asked, made, aborted>>

Leave(t) ==
  /\ Step(t, "unlock", "get")
  /\ locked' = FALSE
  /\ UNCHANGED <<items, asked, ret, made, aborted>>

(* get(): no domain is the end of the process.                             *)
GetDomain(t) ==
  /\ Step(t, "get", "no")
  /\ IF ret[t] = 0 THEN aborted' = TRUE /\ UNCHANGED made
                   ELSE made' = made \cup {<<asked[t], ret[t]>>} /\ UNCHANGED aborted
  /\ UNCHANGED <<items, locked, asked, ret>>

DomainsNext ==
  /\ ~aborted
  /\ \E t \in Threads :
       \/ \E c \in Categories : MakeCode(t, c)
       \/ Enter(t) \/ Search(t) \/ AddItem(t) \/ Leave(t) \/ GetDomain(t)

----------------------------------------------------------------------------
DomainsTypeOK ==
  /\ items \in Seq(Categories) /\ Len(items) <= MaxItems
  /\ locked \in BOOLEAN
  /\ adding \in [Threads -> {"no", "lock", "search", "append", "unlock", "get"}]
  /\ asked \in [Threads -> Categories]
  /\ ret \in [Threads -> 0 .. MaxItems]
  /\ made \subseteq Categories \X (1 .. MaxItems)
  /\ aborted \in BOOLEAN

(* A code is "exactly a `std::error_code`" (system_error2.hpp:4887): two codes have   *)
(* the same domain exactly if they have the same category, so no category  *)
(* has two domains, whichever threads use it first; and the process ends   *)
(* only for a category that found the table full.                          *)
DomainsMatch ==
  /\ \A c, d \in made : c[1] = d[1] <=> c[2] = d[2]
  /\ \A c \in made : items[c[2]] = c[1]
  /\ \A i, j \in DOMAIN items : items[i] = items[j] => i = j
  /\ aborted => Len(items) = MaxItems /\ Cardinality(Categories) > MaxItems
=============================================================================
