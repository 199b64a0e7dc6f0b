----------------------------- MODULE StatusCode -----------------------------
(***************************************************************************)
(* Status codes of src/include/nie/system_error2.hpp, as built for POSIX:  *)
(* what codes of different domains mean and when they are equivalent, and  *)
(* the type erased codes, which own the payload of a nested code.          *)
(*                                                                         *)
(* A code is of a domain: "generic" (errc), "posix" (errno), a category of *)
(* std::error_code, or an enumeration with a table of mappings.  A nested  *)
(* code has the domain of the code that its payload holds, and is not of   *)
(* that domain.  Only nested codes have a destructor that does anything.   *)
(***************************************************************************)
EXTENDS Integers, Sequences, FiniteSets, SequencesExt

CONSTANTS
  Slots,      \* objects of an erased status code
  Errored,    \* those that are errored_status_code
  Payloads,   \* the payloads of nested codes there may be
  Codes,      \* the typed codes: [nested |-> FALSE, domain, value]
  Large,      \* the domains whose codes do not fit into an erased one
  Mappings,   \* of each enumeration: the list of errc's of each value
  Condition   \* of each category: the errc that a value has as its default
              \* condition, or unknown if that is of another category

VARIABLES
  code,       \* the code in each slot, or Gone
  payload,    \* the code in each payload, or Gone
  lost,       \* history: payloads that were assigned over
  terminated  \* std::terminate()

codeVars == <<code, payload, lost, terminated>>

success == 0
unknown == -1

Typed(domain, value) == [nested |-> FALSE, domain |-> domain, value |-> value]
Generic(value) == Typed("generic", value)
Nested(p, domain) == [nested |-> TRUE, domain |-> domain, value |-> p]

EmptyCode == Typed("empty", 0)
Gone == Typed("gone", 0)

IsQuick(c) == c.domain \in DOMAIN Mappings
IsStd(c) == c.domain \in DOMAIN Condition
SameDomain(c1, c2) == c1.nested = c2.nested /\ c1.domain = c2.domain
IsGeneric(c) == ~c.nested /\ c.domain = "generic"

(* What a nested code stands for: the indirecting domain asks its domain.  *)
Inner(c) == IF c.nested THEN payload[c.value] ELSE c

----------------------------------------------------------------------------
(* What a code means.                                                      *)

(* _generic_code(): the first mapping of an enumerator, the default        *)
(* condition of an error code, or the value.                               *)
FirstMapping(c) ==
  LET mappings == Mappings[c.domain][c.value]
  IN  IF mappings = <<>> THEN unknown ELSE Head(mappings)
DefaultCondition(c) == Condition[c.domain][c.value]
GenericCode(c) ==
  LET i == Inner(c)
  IN  Generic(CASE IsQuick(i) -> FirstMapping(i)
                [] IsStd(i)   -> DefaultCondition(i)
                [] OTHER      -> i.value)

(* failure() and success(): the empty code is neither.                     *)
QuickFailure(c) == success \notin Range(Mappings[c.domain][c.value])
Failure(c) ==
  LET i == Inner(c)
  IN  i # EmptyCode /\ IF IsQuick(i) THEN QuickFailure(i) ELSE i.value # success
Success(c) == c # EmptyCode /\ ~Failure(c)

(* _do_equivalent(c, d), of the domain of c: the same value in the same    *)
(* domain, or a code that it knows.                                        *)
QuickEquivalent(c, d) == IsGeneric(d) /\ d.value \in Range(Mappings[c.domain][c.value])
PosixEquivalent(c, d) == IsGeneric(d) /\ d.value = c.value
Knows(c, d) ==
  IF SameDomain(c, d) THEN c.value = d.value
  ELSE \/ IsQuick(c) /\ QuickEquivalent(c, d)
       \/ c.domain = "posix" /\ PosixEquivalent(c, d)

(* Other codes than its own, a domain of std::error_code compares with the *)
(* generic or the POSIX code of the value.                                 *)
StdEquivalent(c, d) ==
  IF SameDomain(c, d) THEN {}
  ELSE CASE c.domain = "generic_category" -> {Generic(c.value)}
         [] c.domain = "system_category"  -> {Typed("posix", c.value)}
         [] OTHER                         -> {}

(* Mutant: the generic codes are not asked for.                            *)
EachOther(c, d) == {<<c, d>>, <<d, c>>}

(* Which domains equivalent() asks about which code: each about the other, *)
(* then about the generic code of the other.                               *)
Questions(c, d) ==
  {<<c, d>>, <<d, c>>}
  \cup {<<c, g>> : g \in {GenericCode(d)} \ {Generic(unknown)}}
  \cup {<<d, g>> : g \in {GenericCode(c)} \ {Generic(unknown)}}

(* The questions that come up in answering some.  The indirecting domain   *)
(* passes the other code on as it is.                                      *)
FollowedBy(q) == UNION {Questions(e, q[2]) : e \in StdEquivalent(Inner(q[1]), q[2])}
FollowUp(questions) == questions \cup UNION {FollowedBy(q) : q \in questions}

(* equivalent(), ==.  A code of std::error_code that is asked about leads  *)
(* to another once more, and then there is none left.                      *)
Equivalent(c, d) ==
  IF EmptyCode \in {c, d} THEN c = d
  ELSE \E q \in FollowUp(FollowUp(Questions(c, d))) : Knows(Inner(q[1]), q[2])

----------------------------------------------------------------------------
(* The type erased codes.                                                  *)

CodeInit ==
  /\ code = [s \in Slots |-> Gone]
  /\ payload = [p \in Payloads |-> Gone]
  /\ lost = {} /\ terminated = FALSE

Fits(c) == c.nested \/ c.domain \notin Large
FreePayloads == {p \in Payloads : payload[p] = Gone}
Exists(s) == code[s] # Gone

(* Mutant: nothing is checked.                                             *)
Unchecked(s, c) == terminated' = FALSE

(* _check(): an errored_status_code is no success.                         *)
Check(s, c) == terminated' = (s \in Errored /\ Success(c))

(* An erased code is constructed from a typed one, by copy or move.        *)
Construct(s, c) ==
  /\ code[s] = Gone /\ s \notin Errored /\ Fits(c)
  /\ code' = [code EXCEPT ![s] = c]
  /\ UNCHANGED <<payload, lost, terminated>>

(* The constructors of errored_status_code, each of which has a check.     *)
ConstructErrored(s, c) ==
  /\ code[s] = Gone /\ s \in Errored /\ Fits(c)
  /\ code' = [code EXCEPT ![s] = c]
  /\ Check(s, c)
  /\ UNCHANGED <<payload, lost>>

(* make_nested_status_code(), unless the allocator throws.                 *)
MakeNested(s, c, p) ==
  /\ code[s] = Gone /\ p \in FreePayloads /\ ~IsStd(c)
  /\ payload' = [payload EXCEPT ![p] = c]
  /\ code' = [code EXCEPT ![s] = Nested(p, c.domain)]
  /\ Check(s, c)
  /\ UNCHANGED lost

(* Move construction: the code that is moved from is empty.                *)
Move(s, from) ==
  /\ code[s] = Gone /\ Exists(from)
  /\ code' = [code EXCEPT ![s] = code[from], ![from] = EmptyCode]
  /\ Check(s, code[from])
  /\ UNCHANGED <<payload, lost>>

(* Move assignment: the destructor that runs is status_code_storage's, and *)
(* it destroys no payload.  What is moved to itself is empty then.         *)
Assign(s, from) ==
  /\ Exists(s) /\ Exists(from)
  /\ code' = [code EXCEPT ![s] = code[from], ![from] = EmptyCode]
  /\ lost' = IF code[s].nested THEN lost \cup {code[s].value} ELSE lost
  /\ Check(s, code[from])
  /\ UNCHANGED payload

clear(s) ==
  /\ Exists(s)
  /\ code' = [code EXCEPT ![s] = EmptyCode]
  /\ lost' = IF code[s].nested THEN lost \cup {code[s].value} ELSE lost
  /\ UNCHANGED <<payload, terminated>>

(* Mutant: the pointer to the payload is copied.                           *)
ErasedCopyBits(s, c) ==
  /\ code' = [code EXCEPT ![s] = c]
  /\ UNCHANGED payload

(* _do_erased_copy(): a nested code gets a payload of its own.             *)
ErasedCopy(s, c) ==
  IF c.nested
  THEN \E p \in FreePayloads :
         /\ payload' = [payload EXCEPT ![p] = payload[c.value]]
         /\ code' = [code EXCEPT ![s] = Nested(p, c.domain)]
  ELSE code' = [code EXCEPT ![s] = c] /\ UNCHANGED payload

clone(s, from) ==
  /\ code[s] = Gone /\ Exists(from)
  /\ ErasedCopy(s, code[from])
  /\ Check(s, code[from])
  /\ UNCHANGED lost

(* in_place and nothrow construction from a code of unknown domain.  If    *)
(* that is too large, or the allocator throws, there is an exception or an *)
(* empty code; an errored_status_code has no such nothrow constructor.     *)
CopyUnknown(s, c) ==
  /\ code[s] = Gone /\ c \notin {Gone, EmptyCode}
  /\ \/ Fits(c) /\ ErasedCopy(s, c) /\ Check(s, c)
     \/ /\ s \notin Errored /\ (c.nested \/ ~Fits(c))
        /\ code' = [code EXCEPT ![s] = EmptyCode]
        /\ UNCHANGED <<payload, terminated>>
  /\ UNCHANGED lost

(* ~status_code(), _do_erased_destroy()                                    *)
Destroy(s) ==
  /\ Exists(s)
  /\ code' = [code EXCEPT ![s] = Gone]
  /\ payload' = IF code[s].nested THEN [payload EXCEPT ![code[s].value] = Gone] ELSE payload
  /\ UNCHANGED <<lost, terminated>>

CodeNext ==
  /\ ~terminated
  /\ \E s \in Slots :
       \/ \E c \in Codes \cup {EmptyCode} :
            Construct(s, c) \/ ConstructErrored(s, c) \/ CopyUnknown(s, c)
       \/ \E c \in Codes, p \in Payloads : MakeNested(s, c, p)
       \/ \E from \in Slots : Move(s, from) \/ Assign(s, from) \/ clone(s, from)
       \/ \E from \in Slots : CopyUnknown(s, code[from])
       \/ clear(s) \/ Destroy(s)

CodeSpec == CodeInit /\ [][CodeNext]_codeVars

----------------------------------------------------------------------------
(* Properties.                                                             *)

NestedSlots == {s \in Slots : code[s].nested}

CodeTypeOK ==
  /\ \A s \in Slots : code[s] \in Codes \cup {EmptyCode, Gone}
       \cup {Nested(p, d) : p \in Payloads, d \in {c.domain : c \in Codes}}
  /\ payload \in [Payloads -> Codes \cup {Gone}]
  /\ lost \subseteq Payloads /\ terminated \in BOOLEAN

(* "Type erased, move-only" (system_error2.hpp:1481): a nested code has    *)
(* its payload to itself, which is of its domain; each payload has a code  *)
(* or was lost in an assignment.                                           *)
PayloadsOwned ==
  /\ \A s \in NestedSlots :
       /\ payload[code[s].value].domain = code[s].domain
       /\ code[s].value \notin lost
       /\ \A u \in NestedSlots \ {s} : code[u].value # code[s].value
  /\ Payloads \ FreePayloads = lost \cup {code[s].value : s \in NestedSlots}

(* "Never successful (this contract is checked on construction, if fails   *)
(* then it terminates the process)" (system_error2.hpp:2361).              *)
NeverSuccessful ==
  ~terminated => \A s \in Errored : Exists(s) => ~Success(code[s])

(* A code "which indirects to a dynamically allocated status code"         *)
(* (system_error2.hpp:4778) compares with codes that are not nested as the *)
(* one that it holds does.                                                 *)
NestingTransparent ==
  \A s \in NestedSlots, c \in Codes :
    Equivalent(code[s], c) = Equivalent(Inner(code[s]), c)

(* "True if code is equivalent, by any means, to another code in another   *)
(* domain (guaranteed transitive)" (system_error2.hpp:1244).               *)
Transitive ==
  \A s, t, u \in Slots :
    Exists(s) /\ Exists(t) /\ Exists(u) /\ Equivalent(code[s], code[t]) /\ Equivalent(code[t], code[u])
      => Equivalent(code[s], code[u])
=============================================================================
