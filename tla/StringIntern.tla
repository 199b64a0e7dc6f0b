---------------------------- MODULE StringIntern ----------------------------
(***************************************************************************)
(* The interned strings of src/src/string_literal.cpp and                  *)
(* src/include/nie/string_literal.hpp.  A nie::string is a pointer to a    *)
(* string_data, and two strings are compared by that pointer.  The pointer *)
(* comes from the cache, for a text that is computed, or is the address of *)
(* the static object of a literal.  That object enters the cache in its    *)
(* own dynamic initialisation, which runs in no particular order with      *)
(* other initialisers and, for a library loaded late, with other threads;  *)
(* the address of the object can be used before.                           *)
(***************************************************************************)
EXTENDS Integers, FiniteSets

CONSTANTS
  Threads,
  Texts,      \* the texts, without the empty one
  Empty,      \* the empty text
  Literals,   \* the static objects of literals
  TextOf,     \* their texts
  Dynamics,   \* the nodes of dyn_cache_: a bound on how many there can be
  Null        \* nullptr: what the empty string points to

ASSUME LiteralsAssumption ==
  /\ TextOf \in [Literals -> Texts]
  /\ Literals \cap Dynamics = {} /\ Null \notin Literals \cup Dynamics
  /\ Empty \notin Texts

VARIABLES
  cache,     \* cache_: the entries [text, data]
  dyn,       \* dyn_cache_: the nodes in use, [text, data]
  pc,        \* where each thread is in string::string()
  arg,       \* its argument
  handles,   \* the strings that have been made: [text, data]
  halted     \* fatal()

vars == <<cache, dyn, pc, arg, handles, halted>>

AllTexts == Texts \cup {Empty}
Data == Literals \cup Dynamics \cup {Null}
Entry == [text : AllTexts, data : Data]

Known(text) == \E e \in cache : e.text = text

(* Mutant: the cache starts without the empty string.                      *)
EmptyCache == {}

InitialCache == {[text |-> Empty, data |-> Null]}

Init ==
  /\ cache = InitialCache
  /\ dyn = {}
  /\ pc = [t \in Threads |-> "idle"]
  /\ arg = [t \in Threads |-> Empty]
  /\ handles = {}
  /\ halted = FALSE

----------------------------------------------------------------------------

(* string::string(text) is called.                                         *)
Make(t, text) ==
  /\ ~halted /\ pc[t] = "idle"
  /\ pc' = [pc EXCEPT ![t] = "lookup"]
  /\ arg' = [arg EXCEPT ![t] = text]
  /\ UNCHANGED <<cache, dyn, handles, halted>>

(* The constructor is done, with the data of a cache entry.                *)
Return(t, e) ==
  /\ handles' = handles \cup {e}
  /\ pc' = [pc EXCEPT ![t] = "idle"]
  /\ arg' = [arg EXCEPT ![t] = Empty]

(* The lookup under the shared lock.                                       *)
Lookup(t) ==
  /\ ~halted /\ pc[t] = "lookup"
  /\ \/ \E e \in cache : e.text = arg[t] /\ Return(t, e)
     \/ /\ ~Known(arg[t])
        /\ pc' = [pc EXCEPT ![t] = "insert"]
        /\ UNCHANGED <<arg, handles>>
  /\ UNCHANGED <<cache, dyn, halted>>

(* Mutant: the text is not looked up again under the exclusive lock.       *)
InsertUnchecked(t) ==
  /\ ~halted /\ pc[t] = "insert"
  /\ \E d \in Dynamics \ {e.data : e \in dyn} :
       LET e == [text |-> arg[t], data |-> d] IN
       /\ cache' = IF Known(arg[t]) THEN cache ELSE cache \cup {e}
       /\ dyn' = dyn \cup {e}
       /\ Return(t, e)
  /\ UNCHANGED halted

(* The exclusive lock: looked up again, and inserted if still missing.     *)
Insert(t) ==
  /\ ~halted /\ pc[t] = "insert"
  /\ \/ /\ \E e \in cache : e.text = arg[t] /\ Return(t, e)
        /\ UNCHANGED <<cache, dyn>>
     \/ /\ ~Known(arg[t])
        /\ \E d \in Dynamics \ {e.data : e \in dyn} :
             LET e == [text |-> arg[t], data |-> d] IN
             /\ cache' = cache \cup {e}
             /\ dyn' = dyn \cup {e}
             /\ Return(t, e)
  /\ UNCHANGED halted

(* "..."_nie: the address of the static object, registered or not.         *)
UseLiteral(lit) ==
  /\ ~halted
  /\ handles' = handles \cup {[text |-> TextOf[lit], data |-> lit]}
  /\ UNCHANGED <<cache, dyn, pc, arg, halted>>

(* ""_nie and string().                                                    *)
UseEmpty ==
  /\ ~halted
  /\ handles' = handles \cup {[text |-> Empty, data |-> Null]}
  /\ UNCHANGED <<cache, dyn, pc, arg, halted>>

(* The static object of the literal has been initialised.                  *)
Registered(lit) == [text |-> TextOf[lit], data |-> lit] \in cache

(* Mutant: a literal that finds its text in the cache goes on.             *)
RegisterLenient(lit) ==
  /\ ~halted /\ ~Registered(lit)
  /\ cache' = IF Known(TextOf[lit])
                THEN (cache \ {e \in cache : e.text = TextOf[lit]})
                       \cup {[text |-> TextOf[lit], data |-> lit]}
                ELSE cache \cup {[text |-> TextOf[lit], data |-> lit]}
  /\ UNCHANGED <<dyn, pc, arg, handles, halted>>

(* register_literal(), under the exclusive lock: fatal when the text is    *)
(* there already, as a computed string or as another copy of the literal.  *)
RegisterLiteral(lit) ==
  /\ ~halted /\ ~Registered(lit)
  /\ IF Known(TextOf[lit])
       THEN halted' = TRUE /\ UNCHANGED cache
       ELSE /\ cache' = cache \cup {[text |-> TextOf[lit], data |-> lit]}
            /\ UNCHANGED halted
  /\ UNCHANGED <<dyn, pc, arg, handles>>

Next ==
  \/ \E t \in Threads :
       \/ \E text \in AllTexts : Make(t, text)
       \/ Lookup(t)
       \/ Insert(t)
  \/ \E lit \in Literals : UseLiteral(lit) \/ RegisterLiteral(lit)
  \/ UseEmpty

Spec == Init /\ [][Next]_vars

----------------------------------------------------------------------------
(* Properties.                                                             *)

(* The variables have their types, and a node of dyn_cache_ has one text.  *)
TypeOK ==
  /\ cache \subseteq Entry
  /\ dyn \subseteq [text : Texts, data : Dynamics]
  /\ \A d, e \in dyn : d.data = e.data => d = e
  /\ pc \in [Threads -> {"idle", "lookup", "insert"}]
  /\ arg \in [Threads -> AllTexts]
  /\ handles \subseteq Entry
  /\ halted \in BOOLEAN

(* Comparing the pointers of two strings compares their texts: whichever   *)
(* threads raced to intern a text (string_literal.cpp:36-53), and however  *)
(* literals were used before they were registered.  The one exception is   *)
(* a text whose literal has yet to be registered; and when it is, either   *)
(* its address is the only one or the process ends (line 60).              *)
EqualityIsText ==
  \A g, h \in handles :
    /\ g.data = h.data => g.text = h.text
    /\ g.text = h.text /\ g.data # h.data =>
         \E lit \in Literals : TextOf[lit] = g.text /\ ~Registered(lit)

(* A text keeps the address it has in the cache: a string made today is    *)
(* equal to one made from the same text tomorrow.                          *)
AddressesStay ==
  [][\A e, f \in cache \cup cache' : e.text = f.text => e.data = f.data]_vars

============================================================================
