---------------------------- MODULE MCRegistries ----------------------------
(* Two threads: while one iterates, the other may do anything.  Strings: a *)
(* text with two copies of its literal, as two libraries may have, and a   *)
(* text with one.  Pools: one object more than a stack has room for.       *)
(* Classes: a diamond and a class with two bases; a startup function of    *)
(* the first class may load the library of the third.  Codes of each kind  *)
(* of domain: the enumeration "quick" has a value with two mappings, one   *)
(* with none and a successful one; nothing of "large" fits into an erased  *)
(* code.  One category more than there is room for.  Two queues, whose     *)
(* first table has room for one thread.                                    *)
EXTENDS Registries, TLC

CONSTANTS t1, t2, x, y, lx1, lx2, ly, d1, d2, d3, o1, o2, o3

MCThreads == {t1, t2}
MCObjects == {o1, o2, o3}
MCTextOf == [lit \in {lx1, lx2, ly} |-> IF lit = ly THEN y ELSE x]
MCHierarchies == {<< <<>>, <<1>>, <<1>>, <<2, 3>> >>, << <<>>, <<>>, <<2, 1>> >>}
MCNames == <<"a", "b", "c", "d">>
MCLoaders == {<<1, 3>>}

(* The errc's success and unknown, and a typed code (StatusCode), without  *)
(* reference to the instance that these are the constants of.              *)
ok == 0
unmapped == -1
Code(domain, value) == [nested |-> FALSE, domain |-> domain, value |-> value]

MCMappings == [quick |-> << <<1, 2>>, <<>>, <<ok>> >>, large |-> << <<2>> >>]
MCCondition ==
  [cat \in {"generic_category", "system_category", "other"} |->
    IF cat = "other" THEN (3 :> unmapped) ELSE [v \in 1 .. 2 |-> v]]
MCCodes ==
  {Code("generic", v) : v \in {ok, 1, 2, unmapped}}
  \cup {Code("quick", v) : v \in 1 .. 3}
  \cup {Code("posix", 1), Code("large", 1)}
  \cup {Code("generic_category", 1), Code("system_category", 2), Code("other", 3)}
=============================================================================
