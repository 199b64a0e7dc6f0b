----------------------------- MODULE Registries -----------------------------
(***************************************************************************)
(* What a process of nielib fills as it goes and looks up ever after:      *)
(* interned strings (StringIntern), a value per thread (ThreadLocal), the  *)
(* interfaces of classes (FancyCast); and what it keeps of an error: the   *)
(* message (StringRef), the status code (StatusCode) and the domain of its *)
(* category (CategoryDomains); and queues that move with the producers     *)
(* that threads have in them (QueueSwap).  They share nothing: a behaviour *)
(* is one of any of the seven.                                             *)
(***************************************************************************)
EXTENDS StringIntern, ThreadLocal

CONSTANTS Hierarchies, Names, Loaders,   \* FancyCast
          Refs, Messages,                \* StringRef
          Slots, Errored, Payloads, Codes, Large, Mappings, Condition,  \* StatusCode
          Categories, MaxItems,          \* CategoryDomains
          Queues, FirstCapacity, MaxTables, MaxConsumers  \* QueueSwap

VARIABLES
  which,   \* the registry that is in use
  parents, tables, enabled, startup_funcs, ran, running, variations, objects, dead,
  ref, temp, count, doomed,
  code, payload, lost, terminated,
  items, locked, adding, asked, ret, made, aborted,
  queue, entries, parent, promise

classVars == <<parents, tables, enabled, startup_funcs, ran, running, variations, objects, dead>>
messageVars == <<ref, temp, count, doomed>>
statusVars == <<code, payload, lost, terminated>>
categoryVars == <<items, locked, adding, asked, ret, made, aborted>>
swapVars == <<queue, entries, parent, promise>>
allVars == <<which, vars, valueVars, classVars, messageVars, statusVars, categoryVars,
             swapVars>>

Fancy == INSTANCE FancyCast
Message == INSTANCE StringRef
Status == INSTANCE StatusCode
Domains == INSTANCE CategoryDomains
Swapping == INSTANCE QueueSwap

ASSUME RegistriesAssumption == Fancy!HierarchyAssumption

(* Who has the objects, and what the classes are, is left open in their    *)
(* own registry only.                                                      *)
RegistriesInit ==
  /\ which \in {"strings", "values", "classes", "messages", "codes", "domains", "queues"}
  /\ Init /\ ValuesInit /\ Fancy!FancyInit
  /\ Message!RefInit /\ Status!CodeInit /\ Domains!DomainsInit /\ Swapping!SwapInit
  /\ which # "values" => hand = CHOOSE h \in [Ids -> {{}, Objects}] :
                                  \E t \in Ids : \A u \in Ids : h[u] = {} <=> u # t
  /\ which # "classes" => parents = CHOOSE h \in Hierarchies : TRUE

RegistriesNext ==
  /\ UNCHANGED which
  /\ \/ which = "strings" /\ Next
     \/ which # "strings" /\ UNCHANGED vars
  /\ \/ which = "values" /\ ValuesNext
     \/ which # "values" /\ UNCHANGED valueVars
  /\ \/ which = "classes" /\ Fancy!FancyNext
     \/ which # "classes" /\ UNCHANGED classVars
  /\ \/ which = "messages" /\ Message!RefNext
     \/ which # "messages" /\ UNCHANGED messageVars
  /\ \/ which = "codes" /\ Status!CodeNext
     \/ which # "codes" /\ UNCHANGED statusVars
  /\ \/ which = "domains" /\ Domains!DomainsNext
     \/ which # "domains" /\ UNCHANGED categoryVars
  /\ \/ which = "queues" /\ Swapping!SwapNext
     \/ which # "queues" /\ UNCHANGED swapVars

RegistriesSpec == RegistriesInit /\ [][RegistriesNext]_allVars /\ Fairness

----------------------------------------------------------------------------
(* Properties: EqualityIsText and AddressesStay are those of StringIntern; *)
(* OneOwner, SomebodyProceeds, IterationUndisturbed and KnownThreadsReturn *)
(* those of ThreadLocal; the others are explained where they are defined.  *)

(* The registries keep their types.                                        *)
EveryTypeOK ==
  /\ TypeOK /\ ValuesTypeOK /\ Fancy!FancyTypeOK /\ Message!RefTypeOK
  /\ Status!CodeTypeOK /\ Domains!DomainsTypeOK /\ Swapping!SwapTypeOK

(* The payload of a nested status code has one owner                       *)
(* (system_error2.hpp:1481); the owners of a message are counted           *)
(* (system_error2.hpp:835).  Queues that have been swapped share nothing   *)
(* (concurrentqueue.h:1014).                                               *)
OwnersCounted ==
  Status!PayloadsOwned /\ Message!MessagesCounted /\ Swapping!NothingShared

(* Casts find what C++ says is there (fancy_cast.hpp:205-216); a code has *)
(* the domain of its category (system_error2.hpp:4887), an errored code is *)
(* no success (system_error2.hpp:2361), and a nested code compares as the  *)
(* one it holds (system_error2.hpp:4778); a thread finds its producer      *)
(* where its queue has moved to (concurrentqueue.h:970).                   *)
LookUpsMatch ==
  /\ Fancy!CastsMatch /\ Domains!DomainsMatch
  /\ Status!NeverSuccessful /\ Status!NestingTransparent
  /\ Swapping!PromisesKept

(* What is equivalent to the same is equivalent (system_error2.hpp:1244).  *)
Transitive == Status!Transitive
=============================================================================
