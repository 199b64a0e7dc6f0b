----------------------------- MODULE FancyCast -----------------------------
(***************************************************************************)
(* fancy_cast<D>(), of src/include/nie/fancy_cast.hpp, and the startup     *)
(* functions of src/src/startup.cpp that its classes register.             *)
(*                                                                         *)
(* A class has a table of slots: its own, then those of its parents, each  *)
(* type once.  A slot pairs an interface, the one object for all types of  *)
(* a name, with the way from the class to its base.  A cast compares the   *)
(* interfaces, of code that may be in different libraries, in the order of *)
(* the table, and goes that way.                                           *)
(*                                                                         *)
(* Two static objects of a class are initialised in any order with those   *)
(* of other classes and with objects that are made before main(): the      *)
(* table, and `enabled', which registers a function.  main(), external,    *)
(* calls run_startup(), perhaps more than once.  A class may also register *)
(* a function that loads the library of another class.                     *)
(***************************************************************************)
EXTENDS Integers, Sequences, SequencesExt

CONSTANTS
  Hierarchies,   \* what the parents of classes 1, 2, ... may be
  Names,         \* the name of each class
  Loaders        \* pairs <<c, d>>: a startup function of c loads d

HierarchyAssumption ==
  \A h \in Hierarchies : \A c \in DOMAIN h :
    /\ c \in DOMAIN Names
    /\ h[c] \in Seq(1 .. c - 1)

VARIABLES
  parents,
  tables,          \* the classes whose table is initialised
  enabled,         \* those that are registered
  startup_funcs,   \* the registered functions, the last one first
  ran,
  running,         \* the functions that run_startup() has yet to call
  variations,      \* of the interface of each name: the class they are of, or 0
  objects,         \* the classes there are objects of
  dead             \* fatal()

fancyVars == <<parents, tables, enabled, startup_funcs, ran, running, variations,
               objects, dead>>

Classes == DOMAIN parents

----------------------------------------------------------------------------
(* The table of a class.                                                   *)

(* Mutant: only the neighbour is compared.                                 *)
NotTheNeighbour(slots) ==
  [i \in DOMAIN slots |-> i = 1 \/ slots[i].class # slots[i - 1].class]

(* Which slots of the parents are the first of their type.                 *)
FirstOfType(slots) ==
  [i \in DOMAIN slots |-> \A j \in 1 .. i - 1 : slots[j].class # slots[i].class]

Chosen(slots, which) ==
  LET kept[i \in 0 .. Len(slots)] ==
        IF i = 0 THEN <<>>
        ELSE IF which[i] THEN Append(kept[i - 1], slots[i]) ELSE kept[i - 1]
  IN  kept[Len(slots)]

(* The way to a base of a parent begins with the parent.                   *)
Via(c, slots) == [i \in DOMAIN slots |-> [slots[i] EXCEPT !.way = <<c>> \o @]]

(* fancy_cast_name_slots(), _rawslots() and _converters().                 *)
Tables ==
  [h \in Hierarchies |->
    LET table[c \in DOMAIN h] ==
          LET inherited == FlattenSeq([k \in DOMAIN h[c] |-> table[h[c][k]]])
              slots == Chosen(inherited, FirstOfType(inherited))
          IN  <<[class |-> c, way |-> <<c>>]>> \o Via(c, slots)
    IN  [c \in DOMAIN h |-> table[c]]]

Table == Tables[parents]

NoBase == <<>>

(* fancy_cast(): the first slot of a table that has the interface of d.    *)
Cast(table, d) ==
  LET j == SelectInSeq(table, LAMBDA slot : Names[slot.class] = Names[d])
  IN  IF j = 0 THEN NoBase ELSE table[j].way

----------------------------------------------------------------------------

FancyInit ==
  /\ parents \in Hierarchies
  /\ tables = {} /\ enabled = {}
  /\ startup_funcs = <<>>
  /\ ran = FALSE /\ running = <<>>
  /\ variations = [n \in {Names[c] : c \in DOMAIN Names} |-> 0]
  /\ objects = {}
  /\ dead = FALSE

(* fancy_cast_name_slots_instance = fancy_cast_name_slots()                *)
MakeTable(c) ==
  /\ ~dead /\ c \notin tables
  /\ tables' = tables \cup {c}
  /\ UNCHANGED <<parents, enabled, startup_funcs, ran, running, variations, objects, dead>>

(* register_startup(): too late once they have been run.                   *)
register_startup(f) ==
  IF ran THEN dead' = TRUE /\ UNCHANGED startup_funcs
  ELSE startup_funcs' = <<f>> \o startup_funcs /\ UNCHANGED dead

(* enabled = register_startup(...)                                         *)
Enable(c) ==
  /\ ~dead /\ c \notin enabled /\ running = <<>>
  /\ register_startup([class |-> c, loads |-> 0])
  /\ enabled' = IF dead' THEN enabled ELSE enabled \cup {c}
  /\ UNCHANGED <<parents, tables, ran, running, variations, objects>>

(* NIE_STARTUP(...): a function that loads the library of d.               *)
RegisterLoader(c, d) ==
  /\ ~dead /\ running = <<>>
  /\ \A i \in DOMAIN startup_funcs : startup_funcs[i].loads # d
  /\ register_startup([class |-> c, loads |-> d])
  /\ UNCHANGED <<parents, tables, enabled, ran, running, variations, objects>>

(* The classes of an object: its constructors run base first, and each     *)
(* checks the statics of its own class.                                    *)
Bases(c) == {slot.class : slot \in Range(Table[c])}
Constructible(c) ==
  /\ c \in tables /\ c \in enabled
  /\ \A b \in Bases(c) \ {c} : Names[b] # Names[c]

Construct(c) ==
  /\ ~dead /\ running = <<>>
  /\ IF \A b \in Bases(c) : Constructible(b)
     THEN objects' = objects \cup {c} /\ UNCHANGED dead
     ELSE dead' = TRUE /\ UNCHANGED objects
  /\ UNCHANGED <<parents, tables, enabled, startup_funcs, ran, running, variations>>

(* The statics of the program are initialised before main().               *)
run_startup ==
  /\ ~dead /\ running = <<>> /\ enabled = tables
  /\ ran' = TRUE
  /\ running' = startup_funcs
  /\ UNCHANGED <<parents, tables, enabled, startup_funcs, variations, objects, dead>>

(* The next function: the interface of the name learns its variations,     *)
(* unless it knows some; or a library is loaded, whose statics register.   *)
RunNext ==
  /\ ~dead /\ running # <<>>
  /\ running' = Tail(running)
  /\ LET f == Head(running) IN
       IF f.loads = 0
       THEN /\ variations' = [variations EXCEPT ![Names[f.class]] = IF @ = 0 THEN f.class ELSE @]
            /\ UNCHANGED <<startup_funcs, dead>>
       ELSE /\ IF f.loads \in enabled THEN UNCHANGED <<startup_funcs, dead>>
               ELSE register_startup([class |-> f.loads, loads |-> 0])
            /\ UNCHANGED variations
  /\ UNCHANGED <<parents, tables, enabled, ran, objects>>

FancyNext ==
  \/ \E c \in Classes : MakeTable(c) \/ Enable(c) \/ Construct(c)
  \/ \E l \in Loaders : RegisterLoader(l[1], l[2])
  \/ run_startup \/ RunNext

----------------------------------------------------------------------------
(* Properties.                                                             *)

FancyTypeOK ==
  /\ tables \subseteq Classes /\ enabled \subseteq Classes /\ objects \subseteq Classes
  /\ \A i \in DOMAIN startup_funcs : startup_funcs[i].class \in Classes
  /\ IsSuffix(running, startup_funcs)
  /\ \A n \in DOMAIN variations : variations[n] # 0 => Names[variations[n]] = n

(* What a cast to a base is, by the rules of C++ and without any table.    *)
Leads(way, d) ==
  /\ Last(way) = d
  /\ \A i \in 1 .. Len(way) - 1 :
       \E k \in DOMAIN parents[way[i]] : parents[way[i]][k] = way[i + 1]

Ancestors ==
  LET up[c \in Classes] == {c} \cup UNION {up[parents[c][k]] : k \in DOMAIN parents[c]}
  IN  up

(* A cast finds a base of an object exactly if the object has one, along a *)
(* way that exists, through diamonds as well (fancy_cast.hpp:205-216); no  *)
(* table has a base twice, which the count of slots relies on (line 243).  *)
(* And since registering ends with run_startup() (startup.cpp:15), every   *)
(* interface that an object has then answers variations() (line 168).      *)
CastsMatch ==
  \A c \in objects :
    LET table == Table[c]
        up == Ancestors[c]
    IN  /\ \A d \in Classes :
             IF d \in up THEN Leads(Cast(table, d), d) /\ Cast(table, d)[1] = c
                         ELSE Cast(table, d) = NoBase
        /\ \A i, j \in DOMAIN table : table[i].class = table[j].class => i = j
        /\ ran /\ ~dead /\ running = <<>> =>
             \A b \in up : variations[Names[b]] # 0
============================================================================
