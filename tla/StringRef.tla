----------------------------- MODULE StringRef -----------------------------
(***************************************************************************)
(* string_ref and atomic_refcounted_string_ref of                          *)
(* src/include/nie/system_error2.hpp: references to the message of a       *)
(* status code.  A message that was made for the occasion is in memory     *)
(* from malloc(), and beside it is the count of its references; these may  *)
(* be in different threads.  What each thread does to the count is one     *)
(* step; nobody else uses an object that is assigned to or destroyed.      *)
(***************************************************************************)
EXTENDS Integers, FiniteSets

CONSTANTS
  Refs,      \* objects of type string_ref, in any thread
  Messages   \* the messages there may be in memory

VARIABLES
  ref,     \* what each object is: a reference to a message; "literal", one that
           \* has no handler; "disabled", one whose handler has nothing to do;
           \* "null", one that was moved from; or "gone"
  temp,    \* what an assignment has moved out of the object, or "gone"
  count,   \* _allocated_msg::count
  doomed   \* messages without references that are about to be freed

refVars == <<ref, temp, count, doomed>>

RefInit ==
  /\ ref = [r \in Refs |-> "gone"] /\ temp = [r \in Refs |-> "gone"]
  /\ count = [m \in Messages |-> 0] /\ doomed = {}

Allocated == {m \in Messages : count[m] > 0} \cup doomed
Exists(r) == ref[r] # "gone" /\ temp[r] = "gone"

(* _refcounted_string_thunk(): copy and destruct; the last one frees.      *)
Add(m) == count' = IF m \in Messages THEN [count EXCEPT ![m] = @ + 1] ELSE count
Drop(m) ==
  /\ count' = IF m \in Messages THEN [count EXCEPT ![m] = @ - 1] ELSE count
  /\ doomed' = IF m \in Messages /\ count[m] = 1 THEN doomed \cup {m} ELSE doomed

(* What is left where a reference was moved from.                          *)
Moved(v) == IF v = "literal" THEN "literal" ELSE "null"

(* _make_string_ref(), in status_code::message() and in the constructor of *)
(* a status_error: there may be no memory for the text, or for its count.  *)
Message(r) ==
  /\ ref[r] = "gone"
  /\ \/ \E m \in Messages \ Allocated :
          ref' = [ref EXCEPT ![r] = m] /\ count' = [count EXCEPT ![m] = 1]
     \/ \E v \in {"literal", "disabled"} :
          ref' = [ref EXCEPT ![r] = v] /\ UNCHANGED count
  /\ UNCHANGED <<temp, doomed>>

Copy(r, s) ==
  /\ ref[r] = "gone" /\ Exists(s)
  /\ ref' = [ref EXCEPT ![r] = ref[s]]
  /\ Add(ref[s])
  /\ UNCHANGED <<temp, doomed>>

Move(r, s) ==
  /\ ref[r] = "gone" /\ Exists(s)
  /\ ref' = [ref EXCEPT ![r] = ref[s], ![s] = Moved(ref[s])]
  /\ UNCHANGED <<temp, count, doomed>>

(* Copy assignment: the old value is moved away, and dropped at the end.   *)
CopyAssign(r, s) ==
  /\ Exists(r) /\ Exists(s) /\ r # s
  /\ temp' = [temp EXCEPT ![r] = ref[r]]
  /\ ref' = [ref EXCEPT ![r] = ref[s]]
  /\ Add(ref[s])
  /\ UNCHANGED doomed

EndAssign(r) ==
  /\ temp[r] # "gone"
  /\ temp' = [temp EXCEPT ![r] = "gone"]
  /\ Drop(temp[r])
  /\ UNCHANGED ref

(* Mutant: an object may be moved to itself.                               *)
MoveAssignSelf(r, s) ==
  /\ Exists(r) /\ Exists(s)
  /\ ref' = [ref EXCEPT ![s] = Moved(ref[s]), ![r] = ref[s]]
  /\ Drop(ref[r])
  /\ UNCHANGED temp

(* Move assignment: the old value is dropped first.                        *)
MoveAssign(r, s) ==
  /\ Exists(r) /\ Exists(s) /\ r # s
  /\ ref' = [ref EXCEPT ![s] = Moved(ref[s]), ![r] = ref[s]]
  /\ Drop(ref[r])
  /\ UNCHANGED temp

Destroy(r) ==
  /\ Exists(r)
  /\ ref' = [ref EXCEPT ![r] = "gone"]
  /\ Drop(ref[r])
  /\ UNCHANGED temp

(* free() and delete, by whoever dropped the last reference.               *)
Free(m) ==
  /\ m \in doomed
  /\ doomed' = doomed \ {m}
  /\ UNCHANGED <<ref, temp, count>>

RefNext ==
  \/ \E r \in Refs : Message(r) \/ EndAssign(r) \/ Destroy(r)
  \/ \E r, s \in Refs : Copy(r, s) \/ Move(r, s) \/ CopyAssign(r, s) \/ MoveAssign(r, s)
  \/ \E m \in Messages : Free(m)

----------------------------------------------------------------------------
RefTypeOK ==
  /\ ref \in [Refs -> Messages \cup {"literal", "disabled", "null", "gone"}]
  /\ temp \in [Refs -> Messages \cup {"literal", "disabled", "null", "gone"}]
  /\ count \in [Messages -> 0 .. 2 * Cardinality(Refs)]
  /\ doomed \subseteq Messages

(* "A reference counted, threadsafe reference to a message string"         *)
(* (system_error2.hpp:835): the count is the number of references, those   *)
(* in assignments included, and so a message is freed once, after its last *)
(* reference, and never forgotten.                                         *)
MessagesCounted ==
  \A m \in Messages :
    /\ count[m] = Cardinality({r \in Refs : ref[r] = m}) + Cardinality({r \in Refs : temp[r] = m})
    /\ m \in doomed => count[m] = 0
=============================================================================
