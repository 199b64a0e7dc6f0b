------------------------- MODULE StringInternProofs -------------------------
(***************************************************************************)
(* Pointer equality of interned strings is text equality, for any number   *)
(* of threads, texts and literals.                                         *)
(***************************************************************************)
EXTENDS StringIntern, TLAPS

(* The cache maps texts to data one to one; its entries for computed texts *)
(* are the nodes of dyn_cache_.                                            *)
CacheOneToOne ==
  /\ [text |-> Empty, data |-> Null] \in cache
  /\ dyn \subseteq cache
  /\ \A e \in cache :
       /\ e.data \in Literals => e.text = TextOf[e.data]
       /\ e.data \in Dynamics => e \in dyn
       /\ e.data = Null => e.text = Empty
  /\ \A e, f \in cache : e.text = f.text => e = f

(* A string came from the cache, or is a literal not registered yet.       *)
HandlesKnown ==
  \A h \in handles : h \in cache \/ (h.data \in Literals /\ h.text = TextOf[h.data])

IInv == TypeOK /\ CacheOneToOne /\ HandlesKnown

USE LiteralsAssumption

(* Equal data in the cache means equal entries.                            *)
LEMMA DataDetermines ==
  ASSUME IInv, NEW e \in cache, NEW f \in cache, e.data = f.data
  PROVE  e = f
<1>1. e \in Entry /\ f \in Entry
  BY DEF IInv, TypeOK
<1>2. e.text = f.text
  <2>1. CASE e.data \in Literals
    BY <2>1 DEF IInv, CacheOneToOne
  <2>2. CASE e.data \in Dynamics
    BY <2>2 DEF IInv, CacheOneToOne, TypeOK
  <2>3. CASE e.data = Null
    BY <2>3 DEF IInv, CacheOneToOne
  <2> QED
    BY <1>1, <2>1, <2>2, <2>3 DEF Entry, Data
<1> QED
  BY <1>2 DEF IInv, CacheOneToOne

(* The invariant says what two equal or different addresses mean.          *)
LEMMA IInvImpliesEquality == IInv => EqualityIsText
<1> SUFFICES ASSUME IInv, NEW g \in handles, NEW h \in handles
             PROVE  /\ g.data = h.data => g.text = h.text
                    /\ g.text = h.text /\ g.data # h.data =>
                         \E lit \in Literals : TextOf[lit] = g.text /\ ~Registered(lit)
  BY DEF EqualityIsText
<1>1. g \in Entry /\ h \in Entry
  BY DEF IInv, TypeOK
<1>2. ASSUME NEW k \in {g, h}, k \notin cache
      PROVE  k.data \in Literals /\ k.text = TextOf[k.data] /\ ~Registered(k.data)
  <2>1. k.data \in Literals /\ k.text = TextOf[k.data]
    BY <1>2 DEF IInv, HandlesKnown
  <2>2. k = [text |-> TextOf[k.data], data |-> k.data]
    BY <1>1, <2>1 DEF Entry
  <2> QED
    BY <1>2, <2>1, <2>2 DEF Registered
<1>3. g.data = h.data => g.text = h.text
  <2>1. CASE g \in cache /\ h \in cache
    BY <2>1, DataDetermines
  <2>2. CASE g \notin cache
    <3>1. g.data \in Literals /\ g.text = TextOf[g.data]
      BY <1>2, <2>2
    <3> QED
      BY <3>1 DEF IInv, HandlesKnown, CacheOneToOne
  <2>3. CASE h \notin cache
    <3>1. h.data \in Literals /\ h.text = TextOf[h.data]
      BY <1>2, <2>3
    <3> QED
      BY <3>1 DEF IInv, HandlesKnown, CacheOneToOne
  <2> QED
    BY <2>1, <2>2, <2>3
<1>4. ASSUME g.text = h.text, g.data # h.data
      PROVE  \E lit \in Literals : TextOf[lit] = g.text /\ ~Registered(lit)
  <2>1. g \notin cache \/ h \notin cache
    BY <1>4 DEF IInv, CacheOneToOne
  <2> QED
    BY <1>2, <1>4, <2>1
<1> QED
  BY <1>3, <1>4

(* The initial state satisfies the invariant.                              *)
LEMMA InitIInv == Init => IInv
<1> SUFFICES ASSUME Init PROVE IInv
  OBVIOUS
<1>1. TypeOK
  <2>1. InitialCache \subseteq Entry
    BY DEF InitialCache, Entry, Data, AllTexts
  <2>2. /\ dyn = {} /\ handles = {} /\ halted = FALSE /\ cache = InitialCache
        /\ pc \in [Threads -> {"idle", "lookup", "insert"}]
        /\ arg \in [Threads -> AllTexts]
    BY DEF Init, AllTexts
  <2> QED
    BY <2>1, <2>2 DEF TypeOK
<1>2. CacheOneToOne /\ HandlesKnown
  BY DEF Init, InitialCache, CacheOneToOne, HandlesKnown
<1> QED
  BY <1>1, <1>2 DEF IInv

(* A constructor that finds its text returns an entry of the cache.        *)
LEMMA ReturnIInv ==
  ASSUME IInv, NEW t \in Threads, NEW e \in cache, Return(t, e),
         UNCHANGED <<cache, dyn, halted>>
  PROVE  IInv'
<1>1. TypeOK'
  BY DEF IInv, TypeOK, Return, AllTexts
<1>2. CacheOneToOne' /\ HandlesKnown'
  BY DEF IInv, CacheOneToOne, HandlesKnown, Return
<1> QED
  BY <1>1, <1>2 DEF IInv

(* A new node of dyn_cache_, for a text the cache does not have.           *)
LEMMA EmplaceIInv ==
  ASSUME IInv, NEW t \in Threads, NEW d \in Dynamics \ {e.data : e \in dyn},
         NEW e, e = [text |-> arg[t], data |-> d], ~Known(arg[t]),
         cache' = cache \cup {e}, dyn' = dyn \cup {e}, Return(t, e),
         UNCHANGED halted
  PROVE  IInv'
<1>1. arg[t] \in AllTexts /\ arg[t] # Empty
  BY DEF IInv, TypeOK, CacheOneToOne, Known
<1>2. e \in Entry /\ e.text \in Texts /\ e.data \in Dynamics
      /\ e \in [text : Texts, data : Dynamics]
  BY <1>1 DEF Entry, Data, AllTexts
<1>3. TypeOK'
  BY <1>2 DEF IInv, TypeOK, Return, AllTexts
<1>4. CacheOneToOne'
  <2>1. \A f \in cache : f.text # e.text
    BY DEF Known
  <2>2. e.data \notin Literals /\ e.data # Null
    BY <1>2
  <2> QED
    BY <2>1, <2>2 DEF IInv, CacheOneToOne
<1>5. HandlesKnown'
  BY DEF IInv, HandlesKnown, Return
<1> QED
  BY <1>3, <1>4, <1>5 DEF IInv

(* Registering a literal whose text the cache does not have.               *)
LEMMA RegisterIInv ==
  ASSUME IInv, NEW lit \in Literals, RegisterLiteral(lit)
  PROVE  IInv'
<1>1. CASE Known(TextOf[lit])
  <2>1. UNCHANGED <<cache, dyn, pc, arg, handles>> /\ halted' = TRUE
    BY <1>1 DEF RegisterLiteral
  <2> QED
    BY <2>1 DEF IInv, TypeOK, CacheOneToOne, HandlesKnown
<1>2. CASE ~Known(TextOf[lit])
  <2> DEFINE e == [text |-> TextOf[lit], data |-> lit]
  <2>1. cache' = cache \cup {e} /\ UNCHANGED <<dyn, pc, arg, handles, halted>>
    BY <1>2 DEF RegisterLiteral
  <2>2. e \in Entry /\ e.data = lit /\ e.text = TextOf[lit]
    BY DEF Entry, Data, AllTexts
  <2>3. TypeOK'
    BY <2>1, <2>2 DEF IInv, TypeOK
  <2>4. \A f \in cache : f.text # e.text
    BY <1>2 DEF Known
  <2>5. CacheOneToOne'
    BY <2>1, <2>2, <2>4 DEF IInv, CacheOneToOne
  <2>6. HandlesKnown'
    BY <2>1 DEF IInv, HandlesKnown
  <2> QED
    BY <2>3, <2>5, <2>6 DEF IInv
<1> QED
  BY <1>1, <1>2

(* A string made from a literal's object, registered or not.               *)
LEMMA UseIInv ==
  ASSUME IInv, NEW h \in Entry, handles' = handles \cup {h},
         h \in cache \/ (h.data \in Literals /\ h.text = TextOf[h.data]),
         UNCHANGED <<cache, dyn, pc, arg, halted>>
  PROVE  IInv'
<1>1. TypeOK'
  BY DEF IInv, TypeOK
<1>2. CacheOneToOne' /\ HandlesKnown'
  BY DEF IInv, CacheOneToOne, HandlesKnown
<1> QED
  BY <1>1, <1>2 DEF IInv

(* IInv is inductive.                                                      *)
LEMMA NextIInv == IInv /\ [Next]_vars => IInv'
<1> SUFFICES ASSUME IInv, [Next]_vars PROVE IInv'
  OBVIOUS
<1>1. ASSUME NEW t \in Threads, NEW text \in AllTexts, Make(t, text) PROVE IInv'
  BY <1>1 DEF Make, IInv, TypeOK, CacheOneToOne, HandlesKnown
<1>2. ASSUME NEW t \in Threads, Lookup(t) PROVE IInv'
  <2>1. CASE \E e \in cache : e.text = arg[t] /\ Return(t, e)
    BY <1>2, <2>1, ReturnIInv DEF Lookup
  <2>2. CASE UNCHANGED <<arg, handles>> /\ pc' = [pc EXCEPT ![t] = "insert"]
    BY <1>2, <2>2 DEF Lookup, IInv, TypeOK, CacheOneToOne, HandlesKnown
  <2> QED
    BY <1>2, <2>1, <2>2 DEF Lookup
<1>3. ASSUME NEW t \in Threads, Insert(t) PROVE IInv'
  BY <1>3, ReturnIInv, EmplaceIInv DEF Insert
<1>4. ASSUME NEW lit \in Literals, UseLiteral(lit) PROVE IInv'
  <2>1. [text |-> TextOf[lit], data |-> lit] \in Entry
    BY DEF Entry, Data, AllTexts
  <2> QED
    BY <1>4, <2>1, UseIInv DEF UseLiteral
<1>5. ASSUME NEW lit \in Literals, RegisterLiteral(lit) PROVE IInv'
  BY <1>5, RegisterIInv
<1>6. CASE UseEmpty
  <2>1. [text |-> Empty, data |-> Null] \in Entry \cap cache
    BY DEF Entry, Data, AllTexts, IInv, CacheOneToOne
  <2> QED
    BY <1>6, <2>1, UseIInv DEF UseEmpty
<1>7. CASE UNCHANGED vars
  BY <1>7 DEF vars, IInv, TypeOK, CacheOneToOne, HandlesKnown
<1> QED
  BY <1>1, <1>2, <1>3, <1>4, <1>5, <1>6, <1>7 DEF Next

(* Every state satisfies the invariant.                                    *)
LEMMA InvariantHolds == Spec => []IInv
  BY InitIInv, NextIInv, PTL DEF Spec

(* The variables keep their types.                                         *)
THEOREM TypeCorrect == Spec => []TypeOK
<1>1. IInv => TypeOK
  BY DEF IInv
<1> QED
  BY <1>1, InvariantHolds, PTL

(* Two strings have the same address exactly when they have the same text. *)
THEOREM PointerEqualityIsTextEquality == Spec => []EqualityIsText
  BY IInvImpliesEquality, InvariantHolds, PTL

(* The address of a text in the cache never changes.                       *)
THEOREM AddressesNeverMove == Spec => AddressesStay
<1>1. ASSUME IInv, [Next]_vars
      PROVE  [\A e, f \in cache \cup cache' : e.text = f.text => e.data = f.data]_vars
  <2>1. cache \subseteq cache'
    BY <1>1 DEF Next, vars, Make, Lookup, Insert, UseLiteral, RegisterLiteral, UseEmpty
  <2>2. IInv'
    BY <1>1, NextIInv
  <2>3. \A e, f \in cache' : e.text = f.text => e = f
    BY <2>2 DEF IInv, CacheOneToOne
  <2> QED
    BY <2>1, <2>3
<1> QED
  BY <1>1, InvariantHolds, PTL DEF Spec, AddressesStay

=============================================================================
