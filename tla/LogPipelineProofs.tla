------------------------- MODULE LogPipelineProofs -------------------------
(***************************************************************************)
(* Every number in the log can be looked up, the indexes of source         *)
(* locations are unambiguous, and the races of do_log() cost what they may *)
(* cost, for any threads, messages, arguments and capacity.                *)
(***************************************************************************)
EXTENDS LogPipeline, FiniteSetTheorems, TLAPS

USE ProgramsAssumption, ThingsAssumption, SizesAssumption, ThreadsAssumption,
    MessagesAssumption, NothingAssumption

----------------------------------------------------------------------------
(* The inductive invariant IInv, part by part.                             *)

Calling(t) == job[t] # NoJob
Nested(t) == outer[t] # NoJob
Claims(t) == claim[t] # NoClaim

(* 1. Where a thread is says what call it is in and what room it has.      *)
CallOK(p, j, o, c) ==
  /\ p \in {"lock", "index", "insert"} => ~Describes(j)
  /\ p \in {"check", "info", "info_header", "info_body", "info_copy", "info_flag"} => ~j.blind
  /\ p = "lock" => j.arg \in Strings
  /\ p = "index" => j.arg \in Locations
  /\ p = "insert" => j.arg \in Strings \cup Locations \cup Schemas
  /\ p = "insert" /\ j.arg \in Locations => j.val # NoIndex
  /\ j # NoJob /\ j.val # NoIndex => j.arg \in Locations
  /\ j # NoJob /\ Describes(j) => o # NoJob
  /\ o # NoJob =>
       /\ ~Describes(o) /\ Describes(j)
       /\ o.arg \in Things /\ j.arg = o.arg /\ j.val = o.val
       /\ j.arg \in Locations => j.val # NoIndex
  /\ c # NoClaim <=> p \in {"info_header", "header"}
  /\ p = "info_header" => c.tag = [part |-> "info", msg |-> j.msg, arg |-> Plain]
  /\ p = "header" => c.tag = [part |-> "record", msg |-> j.msg, arg |-> j.arg]

Control == \A t \in Threads : CallOK(pc[t], job[t], outer[t], claim[t])

(* 2. Rooms start at different places, below content_length.               *)
Rooms ==
  /\ 2 <= content_length
  /\ ~mapped => content_length = 2
  /\ \A f \in frames : Buf!End(f) <= content_length
  /\ \A t \in Threads : Claims(t) => Buf!End(claim[t]) <= content_length
  /\ \A f, g \in frames : f.off = g.off => f = g
  /\ \A t \in Threads, f \in frames : Claims(t) => claim[t].off # f.off
  /\ \A t, u \in Threads :
       Claims(t) /\ Claims(u) /\ claim[t].off = claim[u].off => t = u

(* Payloads are in frames, the frame of a call is the one it asked for.    *)
InInfo == {"info_body", "info_copy", "info_flag"}

FrameOf(p, j, f) ==
  /\ f.off = j.frame
  /\ p \in InInfo => f.tag.part = "info"
  /\ p = "body" => f.tag = [part |-> "record", msg |-> j.msg, arg |-> j.arg]

Bodies ==
  /\ \A b \in body : \E f \in frames : f.off = b.off
  /\ \A t \in Threads : pc[t] \in InInfo \cup {"body"} =>
       \E f \in frames : FrameOf(pc[t], job[t], f)

(* 3. has_info says that there is an info frame, and so does the position  *)
(* of a thread, unless it found no buffer.                                 *)
HasInfo(F, m) == \E f \in F : f.tag.part = "info" /\ f.tag.msg = m

BeforeInfo == {"idle", "check", "info", "info_header"}

InfoKnown ==
  /\ \A m \in has_info : HasInfo(frames, m)
  /\ \A t \in Threads :
       pc[t] \notin BeforeInfo /\ ~job[t].blind => HasInfo(frames, job[t].msg)
  /\ \A t \in Threads : Nested(t) /\ ~outer[t].blind => HasInfo(frames, outer[t].msg)

(* Until has_info is set each info frame has a thread that will set it;    *)
(* then there is room for one frame of each thread that has looked.        *)
Infos(m) == {f \in Buf!Pieces : f.tag.part = "info" /\ f.tag.msg = m}
Entering(m) == {t \in Threads : pc[t] = "info" /\ job[t].msg = m}
Flagging(m) ==
  {t \in Threads : pc[t] \in {"info_header", "info_body", "info_flag"} /\ job[t].msg = m}

InfosOK(m) ==
  /\ IsFiniteSet(Infos(m))
  /\ m \notin has_info => Cardinality(Infos(m)) <= Cardinality(Flagging(m))
  /\ m \in has_info =>
       Cardinality(Infos(m)) + Cardinality(Entering(m)) <= Cardinality(Threads)

InfosCounted == \A m \in AllMessages : InfosOK(m)

(* 4. Who describes a string has the lock; the description is in the file  *)
(* once the string is in the set, or while it is described.                *)
DescribesString(t, s) == (Nested(t) \/ pc[t] = "insert") /\ job[t].arg = s

Descriptions(s) ==
  {f \in Buf!Pieces : /\ f.tag.part = "record" /\ f.tag.arg = s
                      /\ f.tag.msg \notin UserMessages}

StringsLocked ==
  \A t \in Threads, s \in Strings :
    DescribesString(t, s) => string_lock = t /\ s \notin strings

DescribedOnce(s) ==
  /\ \A f, g \in Descriptions(s) : f = g
  /\ \A f \in Descriptions(s) : s \notin strings =>
       \E t \in Threads :
         DescribesString(t, s) /\ pc[t] \in {"header", "body", "print", "insert"}

StringsOnce == \A s \in Strings : DescribedOnce(s)

(* 5. An index below ctr belongs to one location.                          *)
Has(l, v) ==
  \/ locations[l] = v
  \/ \E t \in Threads : Calling(t) /\ job[t].arg = l /\ job[t].val = v
  \/ \E d \in Written : Defines(d, l) /\ d.val = v

IndexOK ==
  \A l \in Locations, v \in Nat : Has(l, v) =>
    v < ctr /\ \A k \in Locations : Has(k, v) => k = l

(* 6. What is cached is described in the file, if it is not lost, and      *)
(* before it is used.                                                      *)
Numbered == Strings \cup Locations \cup Schemas

Cached(x) ==
  \/ x \in strings \/ x \in schemas
  \/ x \in Locations /\ locations[x] # NoIndex

IndexOf(x) == IF x \in Locations THEN locations[x] ELSE NoIndex

Described(x, v) == \E d \in Written : Defines(d, x) /\ d.val = v

DescribedBefore(x, v, off) ==
  \E d \in Written : Defines(d, x) /\ d.end <= off /\ d.val = v

WrittenOK ==
  \A r \in Written :
    /\ r.msg \in UserMessages => r.val = IndexOf(r.arg)
    /\ r.msg \notin UserMessages /\ r.arg \in Locations => r.val # NoIndex

Ready(t) ==
  /\ pc[t] \in {"reserve", "header", "body"} /\ ~Describes(job[t])
     /\ job[t].arg \in Numbered => Cached(job[t].arg)
  /\ (pc[t] = "print" /\ Describes(job[t])) \/ pc[t] = "insert" =>
       job[t].arg \in lost \/ Described(job[t].arg, job[t].val)

CallsCached == \A t \in Threads : Ready(t)

CacheDescribed ==
  \A x \in Numbered : Cached(x) => x \in lost \/ Described(x, IndexOf(x))

UsesResolve ==
  \A p \in Buf!Pieces : \A x \in Numbered :
    p.tag.part = "record" /\ p.tag.msg \in UserMessages /\ p.tag.arg = x =>
      Cached(x) /\ (x \in lost \/ DescribedBefore(x, IndexOf(x), p.off))

IInv ==
  /\ TypeOK /\ Control /\ Rooms /\ Bodies
  /\ InfoKnown /\ InfosCounted
  /\ StringsLocked /\ StringsOnce
  /\ IndexOK
  /\ WrittenOK /\ CallsCached /\ CacheDescribed /\ UsesResolve

----------------------------------------------------------------------------
(* Steps.                                                                  *)

Step(t) == (\E m \in Messages, x \in Args : Call(t, m, x)) \/ Proceed(t)

(* What a thing is described with, and that it tells a description.        *)
LEMMA DescribingThings ==
  ASSUME NEW x \in Things
  PROVE  Describing(x) \in AllMessages /\ Describing(x) \notin UserMessages
<1>1. Describing(x) \in AllMessages
  BY DEF AllMessages
<1>2. Describing(x) \in {"string_cache", "source_location", "capnp", "node_handle"}
  BY DEF Describing, Things
<1> QED
  BY <1>1, <1>2 DEF UserMessages

(* Where the room of a new frame is.                                       *)
LEMMA Reserves ==
  ASSUME TypeOK, NEW t \in Threads, NEW size \in {InfoWords, RecordWords},
         NEW tag \in Tag, Buf!FetchAdd(t, size, tag)
  PROVE  /\ claim'[t] = [off |-> content_length, size |-> size, tag |-> tag]
         /\ claim'[t] \in Buf!Frame /\ claim'[t] # NoClaim /\ ~Claims(t)
         /\ \A u \in Threads \ {t} : claim'[u] = claim[u]
         /\ claim' \in [Threads -> Buf!Frame \cup {NoClaim}]
         /\ content_length' = content_length + size + 2 /\ content_length' \in Nat
         /\ UNCHANGED <<mapped, frames, halted>>
<1>1. /\ claim \in [Threads -> Buf!Frame \cup {NoClaim}] /\ content_length \in Nat
      /\ size \in Nat
  BY DEF TypeOK, Buf!TypeOK
<1>2. [off |-> content_length, size |-> size, tag |-> tag] \in Buf!Frame
  BY <1>1 DEF Buf!Frame
<1>3. /\ content_length' = content_length + size + 2
      /\ UNCHANGED <<mapped, frames, halted>> /\ ~Claims(t)
  BY DEF Buf!FetchAdd, Buf!HeaderWords, Claims
<1>4. claim' = [claim EXCEPT ![t] = [off |-> content_length, size |-> size, tag |-> tag]]
  BY DEF Buf!FetchAdd
<1> QED
  BY <1>1, <1>2, <1>3, <1>4

(* The header is constructed in that room.                                 *)
LEMMA Constructs ==
  ASSUME TypeOK, NEW t \in Threads, Buf!Construct(t)
  PROVE  /\ Claims(t) /\ claim[t] \in Buf!Frame /\ claim'[t] = NoClaim
         /\ \A u \in Threads \ {t} : claim'[u] = claim[u]
         /\ claim' \in [Threads -> Buf!Frame \cup {NoClaim}]
         /\ frames' = frames \cup {claim[t]} /\ frames' \subseteq Buf!Frame
         /\ UNCHANGED <<mapped, content_length, halted>>
BY DEF Buf!Construct, Claims, TypeOK, Buf!TypeOK

(* A step of one thread leaves the calls and claims of the others alone.   *)
LEMMA OneMoves ==
  ASSUME TypeOK, NEW t \in Threads, Step(t), NEW u \in Threads \ {t}
  PROVE  pc'[u] = pc[u] /\ job'[u] = job[u] /\ outer'[u] = outer[u] /\ claim'[u] = claim[u]
<1> USE DEF Goto, buffer, Step, Proceed, Call, CheckInfo, InfoReserve, InfoHeader, InfoCopy,
      InfoFlag, MeasurePlain, StringLookup, StringLock, StringInsert, Describe,
      LocationLookup, LocationIndex, LocationInsert, SchemaLookup, SchemaInsert,
      NodeExchange, Reserve, Header, BufferFull, Body, Return, Fatal, Abort
<1>0. /\ pc \in [Threads -> Labels] /\ job \in [Threads -> Job \cup {NoJob}]
      /\ outer \in [Threads -> Job \cup {NoJob}]
      /\ claim \in [Threads -> Buf!Frame \cup {NoClaim}]
  BY DEF TypeOK, Buf!TypeOK
<1>1. pc'[u] = pc[u]
  BY <1>0
<1>2. job'[u] = job[u]
  BY <1>0
<1>3. outer'[u] = outer[u]
  BY <1>0
<1>4. claim'[u] = claim[u]
  BY <1>0 DEF Buf!FetchAdd, Buf!Construct, Buf!BufferFull
<1> QED
  BY <1>1, <1>2, <1>3, <1>4

(* Which steps of a thread change what is not of a call.                   *)
LEMMA StepTouches ==
  ASSUME NEW t \in Threads, Step(t)
  PROVE  /\ InfoFlag(t) \/ has_info' = has_info
         /\ StringInsert(t) \/ strings' = strings
         /\ StringLock(t) \/ StringInsert(t) \/ string_lock' = string_lock
         /\ LocationIndex(t) \/ ctr' = ctr
         /\ LocationInsert(t) \/ locations' = locations
         /\ SchemaInsert(t) \/ schemas' = schemas
         /\ NodeExchange(t) \/ logged' = logged
         /\ InfoCopy(t) \/ Body(t) \/ body' = body
         /\ Reserve(t) \/ lost' = lost
BY DEF Step, Proceed, Call, CheckInfo, InfoReserve, InfoHeader, InfoCopy, InfoFlag, caches,
       MeasurePlain, StringLookup, StringLock, StringInsert, LocationLookup, LocationIndex,
       LocationInsert, SchemaLookup, SchemaInsert, NodeExchange, Reserve, Header,
       BufferFull, Body, Return, Fatal, Abort

----------------------------------------------------------------------------
(* Types and control.                                                      *)

(* The initial state satisfies the invariant.                              *)
LEMMA InitControl == Init => TypeOK /\ Control
<1> SUFFICES ASSUME Init PROVE TypeOK /\ Control
  OBVIOUS
<1>1. TypeOK
  <2>1. Buf!TypeOK
    BY DEF Init, Buf!Init, Buf!TypeOK, Buf!HeaderWords
  <2>2. calls \in [Threads -> 0 .. program.calls]
    BY DEF Init
  <2> QED
    BY <2>1, <2>2 DEF Init, TypeOK, Labels
<1>2. Control
  BY DEF Init, Control, CallOK, Buf!Init
<1> QED
  BY <1>1, <1>2

(* A thread is in a call of its own, or in one it makes for another.       *)
CallFits(t) ==
  /\ pc[t] \in Labels /\ job[t] \in Job \cup {NoJob} /\ outer[t] \in Job \cup {NoJob}
  /\ claim[t] \in Buf!Frame \cup {NoClaim}
  /\ pc[t] = "idle" <=> job[t] = NoJob
  /\ Nested(t) => job[t] # NoJob /\ Describes(job[t])
  /\ CallOK(pc[t], job[t], outer[t], claim[t])

(* Each step of a thread leaves it in such a call.                         *)
LEMMA StepCallFits ==
  ASSUME TypeOK, NEW t \in Threads, CallFits(t), Step(t)
  PROVE  CallFits(t)'
<1> USE DEF Goto, buffer, At, CallFits, Nested
<1>0. /\ pc \in [Threads -> Labels] /\ job \in [Threads -> Job \cup {NoJob}]
      /\ outer \in [Threads -> Job \cup {NoJob}]
  BY DEF TypeOK
<1>1. ASSUME NEW m \in Messages, NEW x \in Args, Call(t, m, x) PROVE CallFits(t)'
  <2> DEFINE new == NewJob(m, x, NoIndex)
  <2>1. new \in Job /\ new.msg = m /\ new.val = NoIndex /\ ~new.blind
    BY DEF NewJob, Job, AllMessages, UserMessages
  <2> HIDE DEF new
  <2>2. /\ pc[t] = "idle" /\ pc'[t] = "check" /\ job'[t] = new
        /\ outer'[t] = outer[t] /\ claim'[t] = claim[t]
    BY <1>0, <1>1 DEF Call, new
  <2> QED
    BY <2>1, <2>2 DEF CallOK, Describes, UserMessages, Labels
<1>2. CASE \/ CheckInfo(t) \/ InfoCopy(t) \/ InfoFlag(t) \/ MeasurePlain(t)
           \/ StringLookup(t) \/ LocationLookup(t) \/ Body(t)
  <2>1. job'[t] = job[t] /\ outer'[t] = outer[t] /\ claim'[t] = claim[t]
    BY <1>2 DEF CheckInfo, InfoCopy, InfoFlag, MeasurePlain, StringLookup, LocationLookup, Body
  <2>2. /\ pc[t] \in {"check", "info_body", "info_copy", "info_flag", "measure", "body"}
        /\ pc'[t] \in {"info", "info_flag", "info_copy", "measure", "reserve", "lock",
                       "index", "print"}
        /\ pc'[t] \in {"info", "info_copy", "info_flag"} => pc[t] \in {"check", "info_body"}
        /\ pc'[t] = "lock" => ~Describes(job[t]) /\ job[t].arg \in Strings
        /\ pc'[t] = "index" => ~Describes(job[t]) /\ job[t].arg \in Locations
    BY <1>0, <1>2
       DEF CheckInfo, InfoCopy, InfoFlag, MeasurePlain, StringLookup, LocationLookup, Body
  <2> QED
    BY <2>1, <2>2 DEF CallOK, Labels
<1>3. CASE InfoReserve(t)
  <2>1. job[t] \in Job /\ pc[t] = "info" /\ outer'[t] = outer[t] /\ claim[t] = NoClaim
    BY <1>0, <1>3 DEF InfoReserve, CallOK
  <2>2. CASE mapped
    <3>1. PICK tag \in Tag : tag = [part |-> "info", msg |-> job[t].msg, arg |-> Plain]
      BY <2>1 DEF Tag, Job, Args
    <3>2. Buf!FetchAdd(t, InfoWords, tag) /\ pc'[t] = "info_header" /\ job'[t] = job[t]
      BY <1>0, <1>3, <2>2, <3>1 DEF InfoReserve
    <3>3. /\ claim'[t] = [off |-> content_length, size |-> InfoWords, tag |-> tag]
          /\ claim'[t] \in Buf!Frame
      BY <3>1, <3>2, Reserves
    <3> QED
      BY <2>1, <3>1, <3>2, <3>3 DEF CallOK, Labels
  <2>3. CASE ~mapped
    <3>1. /\ pc'[t] = "measure" /\ job'[t] = [job[t] EXCEPT !.blind = TRUE]
          /\ claim'[t] = claim[t]
      BY <1>0, <1>3, <2>3 DEF InfoReserve, buffer
    <3>2. /\ job'[t] \in Job /\ job'[t].msg = job[t].msg /\ job'[t].arg = job[t].arg
          /\ job'[t].val = job[t].val
      BY <2>1, <3>1 DEF Job
    <3> QED
      BY <2>1, <3>1, <3>2 DEF CallOK, Labels, Describes
  <2> QED
    BY <2>2, <2>3
<1>4. CASE InfoHeader(t) \/ Header(t)
  <2>1. /\ claim'[t] = NoClaim /\ claim[t] \in Buf!Frame
        /\ pc[t] \in {"info_header", "header"}
        /\ pc'[t] = IF pc[t] = "header" THEN "body" ELSE "info_body"
        /\ outer'[t] = outer[t] /\ job'[t] = [job[t] EXCEPT !.frame = claim[t].off]
    BY <1>0, <1>4, Constructs DEF InfoHeader, Header
  <2>2. /\ job'[t] \in Job /\ job'[t].msg = job[t].msg /\ job'[t].arg = job[t].arg
        /\ job'[t].val = job[t].val /\ job'[t].blind = job[t].blind
    BY <2>1 DEF Job, Buf!Frame
  <2> QED
    BY <2>1, <2>2 DEF CallOK, Labels, Describes
<1>5. CASE Reserve(t)
  <2>1. /\ job[t] \in Job /\ pc[t] = "reserve" /\ outer'[t] = outer[t] /\ job'[t] = job[t]
        /\ claim[t] = NoClaim
    BY <1>0, <1>5 DEF Reserve, CallOK
  <2>2. CASE mapped
    <3>1. PICK tag \in Tag : tag = [part |-> "record", msg |-> job[t].msg, arg |-> job[t].arg]
      BY <2>1 DEF Tag, Job, Args
    <3>2. Buf!FetchAdd(t, RecordWords, tag) /\ pc'[t] = "header"
      BY <1>0, <1>5, <2>2, <3>1 DEF Reserve
    <3>3. /\ claim'[t] = [off |-> content_length, size |-> RecordWords, tag |-> tag]
          /\ claim'[t] \in Buf!Frame
      BY <3>1, <3>2, Reserves
    <3> QED
      BY <2>1, <3>1, <3>2, <3>3 DEF CallOK, Labels
  <2>3. CASE ~mapped
    <3>1. pc'[t] = "print" /\ claim'[t] = claim[t]
      BY <1>0, <1>5, <2>3 DEF Reserve
    <3> QED
      BY <2>1, <3>1 DEF CallOK, Labels
  <2> QED
    BY <2>2, <2>3
<1>6. ASSUME NEW v \in Nat \cup {NoIndex}, Describe(t, v), claim'[t] = claim[t],
             pc[t] \in {"lock", "index", "measure"}, ~Describes(job[t]), job[t].arg \in Things,
             v # NoIndex <=> job[t].arg \in Locations
      PROVE  CallFits(t)'
  <2>1. job[t] \in Job /\ outer[t] = NoJob
    BY <1>6
  <2> DEFINE new == NewJob(Describing(job[t].arg), job[t].arg, v)
  <2>2. /\ new \in Job /\ new # NoJob /\ new.arg = job[t].arg /\ new.val = v
        /\ Describes(new) /\ ~new.blind /\ job'[t] = new
    <3>1. job[t].arg \in Args /\ Describing(job[t].arg) \in AllMessages
          /\ Describing(job[t].arg) \notin UserMessages
      BY <1>6, DescribingThings DEF Args
    <3>2. job'[t] = new
      BY <1>0, <1>6 DEF Describe
    <3> HIDE DEF new
    <3>3. /\ new \in Job /\ new.msg = Describing(job[t].arg)
          /\ new.arg = job[t].arg /\ new.val = v /\ ~new.blind
      BY <3>1 DEF new, NewJob, Job
    <3> QED
      BY <3>1, <3>2, <3>3 DEF Describes
  <2> HIDE DEF new
  <2>3. /\ outer'[t] = [job[t] EXCEPT !.val = v] /\ pc'[t] = "check"
        /\ outer'[t] \in Job /\ outer'[t].msg = job[t].msg /\ outer'[t].arg = job[t].arg
        /\ outer'[t].val = v /\ outer'[t] # NoJob
    BY <1>0, <1>6, <2>1 DEF Describe, Job
  <2> QED
    BY <1>6, <2>2, <2>3 DEF CallOK, Labels, Describes
<1>7. CASE StringLock(t) \/ LocationIndex(t) \/ SchemaLookup(t) \/ NodeExchange(t)
  <2>1. /\ claim'[t] = claim[t] /\ pc[t] \in {"lock", "index", "measure"}
        /\ ~Describes(job[t]) /\ job[t].arg \in Things
    BY <1>7 DEF StringLock, LocationIndex, SchemaLookup, NodeExchange, CallOK, Things
  <2>2. CASE pc'[t] = "reserve" /\ UNCHANGED <<job, outer>>
    BY <2>1, <2>2 DEF CallOK, Labels
  <2>3. CASE StringLock(t) /\ Describe(t, NoIndex)
    BY <1>6, <2>1, <2>3 DEF StringLock, CallOK
  <2>4. CASE LocationIndex(t)
    BY <1>6, <2>1, <2>4 DEF LocationIndex, CallOK, TypeOK
  <2>5. CASE (SchemaLookup(t) \/ NodeExchange(t)) /\ Describe(t, NoIndex)
    BY <1>6, <2>1, <2>5 DEF SchemaLookup, NodeExchange
  <2> QED
    BY <1>0, <1>7, <2>2, <2>3, <2>4, <2>5
       DEF StringLock, LocationIndex, SchemaLookup, NodeExchange
<1>8. CASE StringInsert(t) \/ LocationInsert(t) \/ SchemaInsert(t)
  <2>1. /\ pc[t] = "insert" /\ pc'[t] = "reserve" /\ job'[t] = job[t]
        /\ outer'[t] = outer[t] /\ claim'[t] = claim[t]
    BY <1>0, <1>8 DEF StringInsert, LocationInsert, SchemaInsert
  <2> QED
    BY <2>1 DEF CallOK, Labels
<1>9. CASE BufferFull(t) \/ Abort(t)
  <2>1. pc'[t] = pc[t] /\ job'[t] = job[t] /\ outer'[t] = outer[t] /\ claim'[t] = claim[t]
    BY <1>9 DEF BufferFull, Abort, Buf!BufferFull
  <2> QED
    BY <2>1
<1>10. CASE Return(t)
  <2>1. /\ pc[t] = "print" /\ claim'[t] = claim[t] /\ job'[t] = outer[t] /\ outer'[t] = NoJob
        /\ outer[t] = NoJob => pc'[t] = "idle"
        /\ outer[t] # NoJob => pc'[t] = IF outer[t].arg \in Nodes THEN "reserve" ELSE "insert"
    BY <1>0, <1>10 DEF Return
  <2> QED
    BY <2>1 DEF CallOK, Labels, Describes, Things
<1>11. CASE Fatal(t)
  <2> DEFINE new == NewJob("fatal", FatalArg, NoIndex)
  <2>1. new \in Job /\ new.msg = "fatal" /\ new.val = NoIndex /\ ~new.blind
    BY DEF NewJob, Job, AllMessages, UserMessages
  <2> HIDE DEF new
  <2>2. /\ pc[t] = "print" /\ pc'[t] = "check" /\ job'[t] = new
        /\ outer'[t] = outer[t] /\ claim'[t] = claim[t] /\ ~Describes(job[t])
    BY <1>0, <1>11 DEF Fatal, new, Describes, UserMessages
  <2> QED
    BY <2>1, <2>2 DEF CallOK, Describes, UserMessages, Labels
<1> QED
  BY <1>1, <1>2, <1>3, <1>4, <1>5, <1>7, <1>8, <1>9, <1>10, <1>11 DEF Step, Proceed

(* What the buffer is asked for is what LogBuffer allows.                  *)
LEMMA StepBuffer ==
  ASSUME TypeOK, NEW t \in Threads, CallFits(t), Step(t)
  PROVE  /\ [Buf!Next]_(Buf!vars) /\ Buf!TypeOK'
         /\ content_length <= content_length' /\ frames \subseteq frames'
         /\ mapped' = mapped
<1>0. /\ Buf!TypeOK /\ content_length \in Nat /\ frames \subseteq Buf!Frame
      /\ claim \in [Threads -> Buf!Frame \cup {NoClaim}]
  BY DEF TypeOK, Buf!TypeOK
<1>1. ASSUME NEW size \in {InfoWords, RecordWords}, NEW tag \in Tag,
             Buf!FetchAdd(t, size, tag)
      PROVE  /\ Buf!Next /\ Buf!TypeOK'
             /\ content_length <= content_length' /\ frames \subseteq frames'
             /\ mapped' = mapped
  <2>1. Buf!Next
    BY <1>1 DEF Buf!Next
  <2>2. /\ claim' \in [Threads -> Buf!Frame \cup {NoClaim}]
        /\ content_length' = content_length + size + 2 /\ content_length' \in Nat
        /\ UNCHANGED <<mapped, frames, halted>> /\ size \in Nat
    BY ZenonT(30), <1>1, Reserves
  <2> QED
    BY <1>0, <2>1, <2>2 DEF Buf!TypeOK
<1>2. CASE InfoReserve(t) /\ mapped
  <2>1. PICK tag \in Tag : tag = [part |-> "info", msg |-> job[t].msg, arg |-> Plain]
    BY <1>2 DEF Tag, Job, Args, InfoReserve, CallFits, At
  <2> QED
    BY <1>1, <1>2, <2>1 DEF InfoReserve
<1>3. CASE Reserve(t) /\ mapped
  <2>1. PICK tag \in Tag : tag = [part |-> "record", msg |-> job[t].msg, arg |-> job[t].arg]
    BY <1>3 DEF Tag, Job, Args, Reserve, CallFits, At
  <2> QED
    BY <1>1, <1>3, <2>1 DEF Reserve
<1>4. CASE InfoHeader(t) \/ Header(t)
  <2>1. Buf!Construct(t)
    BY <1>4 DEF InfoHeader, Header
  <2> QED
    BY <1>0, <2>1, Constructs DEF Buf!Next, Buf!TypeOK
<1>5. CASE BufferFull(t)
  BY <1>0, <1>5 DEF BufferFull, Buf!BufferFull, Buf!Next, Buf!TypeOK
<1>6. CASE Abort(t)
  <2>1. Buf!Kill
    BY <1>6 DEF Abort, Buf!Kill, At
  <2> QED
    BY <1>0, <2>1 DEF Buf!Kill, Buf!Next, Buf!TypeOK
<1>7. CASE UNCHANGED buffer
  BY <1>0, <1>7 DEF buffer, Buf!vars, Buf!TypeOK
<1> QED
  BY <1>2, <1>3, <1>4, <1>5, <1>6, <1>7
     DEF Step, Proceed, Call, CheckInfo, InfoReserve, InfoCopy, InfoFlag, MeasurePlain,
         StringLookup, StringLock, StringInsert, LocationLookup, LocationIndex,
         LocationInsert, SchemaLookup, SchemaInsert, NodeExchange, Reserve, Body, Return,
         Fatal

(* What the caches and the payloads are after a step.                      *)
LEMMA StepCaches ==
  ASSUME TypeOK, NEW t \in Threads, CallFits(t), Step(t)
  PROVE  /\ has_info' \subseteq AllMessages
         /\ strings' \subseteq Strings /\ string_lock' \in Threads \cup {NoThread}
         /\ locations' \in [Locations -> Nat \cup {NoIndex}] /\ ctr' \in Nat
         /\ schemas' \subseteq Schemas /\ logged' \subseteq Nodes
         /\ body' \subseteq [off : Nat, val : Nat \cup {NoIndex}]
         /\ lost' \subseteq Things
         /\ calls' \in [Threads -> 0 .. program.calls]
<1>0. /\ has_info \subseteq AllMessages
      /\ strings \subseteq Strings /\ string_lock \in Threads \cup {NoThread}
      /\ locations \in [Locations -> Nat \cup {NoIndex}] /\ ctr \in Nat
      /\ schemas \subseteq Schemas /\ logged \subseteq Nodes
      /\ body \subseteq [off : Nat, val : Nat \cup {NoIndex}]
      /\ lost \subseteq Things
      /\ calls \in [Threads -> 0 .. program.calls]
      /\ program.calls \in Nat
  BY DEF TypeOK
<1>1. pc[t] # "idle" => job[t] \in Job
  BY DEF CallFits
<1>2. pc[t] # "idle" => /\ job[t].msg \in AllMessages /\ job[t].val \in Nat \cup {NoIndex}
                        /\ job[t].frame \in Nat /\ job[t].arg \in Args
  BY <1>1 DEF Job
<1>3. has_info' \subseteq AllMessages
  BY <1>0, <1>2, StepTouches DEF InfoFlag, At
<1>4. strings' \subseteq Strings /\ schemas' \subseteq Schemas /\ logged' \subseteq Nodes
  BY <1>0, StepTouches DEF StringInsert, SchemaInsert, NodeExchange
<1>5. string_lock' \in Threads \cup {NoThread}
  BY <1>0, StepTouches DEF StringLock, StringInsert
<1>6. locations' \in [Locations -> Nat \cup {NoIndex}] /\ ctr' \in Nat
  <2>1. ctr' \in Nat
    BY <1>0, StepTouches DEF LocationIndex
  <2>2. CASE LocationInsert(t)
    <3>1. job[t].val \in Nat \cup {NoIndex}
      BY <1>2, <2>2 DEF LocationInsert, At
    <3> QED
      BY <1>0, <2>1, <2>2, <3>1 DEF LocationInsert
  <2>3. CASE ~LocationInsert(t)
    BY <1>0, <2>1, <2>3, StepTouches
  <2> QED
    BY <2>2, <2>3
<1>7. body' \subseteq [off : Nat, val : Nat \cup {NoIndex}]
  <2>1. CASE InfoCopy(t) \/ Body(t)
    <3>1. /\ job[t].frame \in Nat /\ job[t].val \in Nat \cup {NoIndex}
          /\ \A l \in Locations : locations[l] \in Nat \cup {NoIndex}
      BY <1>0, <1>2, <2>1 DEF InfoCopy, Body, At
    <3>2. PICK v \in Nat \cup {NoIndex} : body' = body \cup {[off |-> job[t].frame, val |-> v]}
      BY <2>1, <3>1 DEF InfoCopy, Body
    <3> QED
      BY <1>0, <3>1, <3>2
  <2>2. CASE ~(InfoCopy(t) \/ Body(t))
    BY <1>0, <2>2, StepTouches
  <2> QED
    BY <2>1, <2>2
<1>8. lost' \subseteq Things
  BY <1>0, StepTouches DEF Reserve, CallFits, CallOK, At, Nested
<1>9. calls' \in [Threads -> 0 .. program.calls]
  <2>1. ASSUME NEW m \in Messages, NEW x \in Args, Call(t, m, x)
        PROVE  calls' \in [Threads -> 0 .. program.calls]
    BY <1>0, <2>1 DEF Call
  <2>2. ASSUME Proceed(t) PROVE calls' = calls
    BY <2>2
       DEF Proceed, CheckInfo, InfoReserve, InfoHeader, InfoCopy, InfoFlag, MeasurePlain,
           StringLookup, StringLock, StringInsert, LocationLookup, LocationIndex,
           LocationInsert, SchemaLookup, SchemaInsert, NodeExchange, Reserve, Header,
           BufferFull, Body, Return, Fatal, Abort
  <2> QED
    BY <1>0, <2>1, <2>2 DEF Step
<1> QED
  BY <1>3, <1>4, <1>5, <1>6, <1>7, <1>8, <1>9

(* The calls of the threads remain functions of the threads.               *)
LEMMA StepFunctions ==
  ASSUME TypeOK, NEW t \in Threads, Step(t)
  PROVE  /\ pc' = [u \in Threads |-> pc'[u]] /\ job' = [u \in Threads |-> job'[u]]
         /\ outer' = [u \in Threads |-> outer'[u]]
<1> USE DEF Goto, Step, Proceed, Call, CheckInfo, InfoReserve, InfoHeader, InfoCopy,
      InfoFlag, MeasurePlain, StringLookup, StringLock, StringInsert, Describe,
      LocationLookup, LocationIndex, LocationInsert, SchemaLookup, SchemaInsert,
      NodeExchange, Reserve, Header, BufferFull, Body, Return, Fatal, Abort
<1>0. /\ pc = [u \in Threads |-> pc[u]] /\ job = [u \in Threads |-> job[u]]
      /\ outer = [u \in Threads |-> outer[u]]
  BY DEF TypeOK
<1>1. pc' = [u \in Threads |-> pc'[u]]
  BY <1>0
<1>2. job' = [u \in Threads |-> job'[u]]
  BY <1>0
<1>3. outer' = [u \in Threads |-> outer'[u]]
  BY <1>0
<1> QED
  BY <1>1, <1>2, <1>3

(* The type and the control invariant say that every thread fits its call. *)
LEMMA FitsMeans ==
  ASSUME TypeOK, Control, NEW t \in Threads
  PROVE  CallFits(t)
BY DEF TypeOK, Buf!TypeOK, Control, CallFits, Nested

(* The part of the steps that no thread takes.                             *)
LEMMA OtherSteps ==
  ASSUME TypeOK, Rooms, InitLog \/ Stop \/ UNCHANGED vars
  PROVE  /\ UNCHANGED <<claim, frames, pc, job, outer, has_info, caches, body, calls, lost>>
         /\ UNCHANGED content_length /\ Buf!TypeOK' /\ [Buf!Next]_(Buf!vars)
         /\ mapped => mapped'
<1>1. CASE InitLog
  <2>1. ~mapped /\ content_length = 2 /\ content_length' = 2 /\ mapped' = TRUE
        /\ UNCHANGED <<claim, frames, halted>> /\ Buf!Next
    BY <1>1 DEF InitLog, Buf!InitLog, Buf!Next, Buf!HeaderWords, Rooms
  <2> QED
    BY <1>1, <2>1 DEF InitLog, TypeOK, Buf!TypeOK
<1>2. CASE Stop
  BY <1>2 DEF Stop, caches, Buf!InitLogFails, Buf!Kill, Buf!Next, TypeOK, Buf!TypeOK
<1>3. CASE UNCHANGED vars
  BY <1>3 DEF vars, caches, buffer, Buf!vars, TypeOK, Buf!TypeOK
<1> QED
  BY <1>1, <1>2, <1>3

(* Types and control are inductive, given where the rooms are.             *)
LEMMA NextControl == TypeOK /\ Control /\ Rooms /\ [Next]_vars => TypeOK' /\ Control'
<1> SUFFICES ASSUME TypeOK, Control, Rooms, [Next]_vars PROVE TypeOK' /\ Control'
  OBVIOUS
<1>0. program' = program
  BY DEF Next, vars
<1>1. ASSUME NEW t \in Threads, Step(t) PROVE TypeOK' /\ Control'
  <2>1. CallFits(t)
    BY FitsMeans
  <2>2. CallFits(t)'
    BY <1>1, <2>1, StepCallFits
  <2>3. ASSUME NEW u \in Threads \ {t} PROVE CallFits(u)'
    <3>1. CallFits(u)
      BY FitsMeans
    <3> QED
      BY <1>1, <3>1, OneMoves DEF CallFits, Nested
  <2>4. \A u \in Threads : CallFits(u)'
    BY <2>2, <2>3
  <2>5. /\ pc' \in [Threads -> Labels] /\ job' \in [Threads -> Job \cup {NoJob}]
        /\ outer' \in [Threads -> Job \cup {NoJob}]
    BY <1>1, <2>4, StepFunctions DEF CallFits
  <2>6. Control'
    BY <2>4 DEF Control, CallFits
  <2>7. \A u \in Threads :
          /\ pc'[u] = "idle" <=> job'[u] = NoJob
          /\ outer'[u] # NoJob => job'[u] # NoJob /\ Describes(job'[u])
    BY <2>4 DEF CallFits, Nested
  <2>8. TypeOK'
    <3>1. Buf!TypeOK'
      BY <1>1, <2>1, StepBuffer
    <3>2. /\ has_info' \subseteq AllMessages
          /\ strings' \subseteq Strings /\ string_lock' \in Threads \cup {NoThread}
          /\ locations' \in [Locations -> Nat \cup {NoIndex}] /\ ctr' \in Nat
          /\ schemas' \subseteq Schemas /\ logged' \subseteq Nodes
          /\ body' \subseteq [off : Nat, val : Nat \cup {NoIndex}]
          /\ lost' \subseteq Things
          /\ calls' \in [Threads -> 0 .. program.calls]
      BY <1>1, <2>1, StepCaches
    <3>3. program' \in Programs /\ calls' \in [Threads -> 0 .. program'.calls]
      BY <1>0, <3>2 DEF TypeOK
    <3> QED
      BY <2>5, <2>7, <3>1, <3>2, <3>3 DEF TypeOK
  <2> QED
    BY <2>6, <2>8
<1>2. CASE InitLog \/ Stop \/ UNCHANGED vars
  BY <1>0, <1>2, OtherSteps DEF TypeOK, Control, caches
<1> QED
  BY <1>1, <1>2 DEF Next, Step

----------------------------------------------------------------------------
(* Rooms.                                                                  *)

(* New room is behind everything that is in the log.                       *)
LEMMA RoomsReserved ==
  ASSUME TypeOK, Rooms, NEW t \in Threads, NEW size \in {InfoWords, RecordWords},
         NEW tag \in Tag, Buf!FetchAdd(t, size, tag)
  PROVE  /\ Rooms'
         /\ claim'[t].off = content_length /\ claim'[t].tag = tag
         /\ \A f \in Buf!Pieces : Buf!End(f) <= claim'[t].off
         /\ Buf!Pieces' = Buf!Pieces \cup {claim'[t]}
<1>0. /\ content_length \in Nat /\ frames \subseteq Buf!Frame
      /\ claim \in [Threads -> Buf!Frame \cup {NoClaim}]
  BY DEF TypeOK, Buf!TypeOK
<1>1. /\ claim'[t] = [off |-> content_length, size |-> size, tag |-> tag]
      /\ claim'[t] \in Buf!Frame /\ claim'[t] # NoClaim /\ ~Claims(t)
      /\ \A u \in Threads \ {t} : claim'[u] = claim[u]
      /\ content_length' = content_length + size + 2
      /\ UNCHANGED <<mapped, frames, halted>> /\ size \in Nat
  BY Reserves
<1>2. /\ claim'[t].off = content_length /\ claim'[t].tag = tag
      /\ Buf!End(claim'[t]) = content_length' /\ Claims(t)' /\ mapped
  BY <1>0, <1>1 DEF Buf!End, Buf!HeaderWords, Claims, Buf!FetchAdd
<1>3. \A f \in Buf!Frame : f.off < Buf!End(f) /\ f.off \in Nat /\ Buf!End(f) \in Nat
  BY DEF Buf!Frame, Buf!End, Buf!HeaderWords
<1>4. \A u \in Threads \ {t} :
        /\ Claims(u)' <=> Claims(u)
        /\ Claims(u) => claim[u] \in Buf!Frame /\ Buf!End(claim[u]) <= content_length
  BY <1>0, <1>1 DEF Claims, Rooms
<1>5. \A f \in frames : f \in Buf!Frame /\ Buf!End(f) <= content_length
  BY <1>0 DEF Rooms
<1>6. Rooms'
  <2>1. 2 <= content_length' /\ content_length <= content_length'
        /\ content_length' \in Nat /\ mapped'
    BY <1>0, <1>1, <1>2 DEF Rooms
  <2>2. \A f \in frames' : Buf!End(f) <= content_length'
    BY <1>0, <1>1, <1>3, <1>5, <2>1
  <2>3. ASSUME NEW u \in Threads, Claims(u)' PROVE Buf!End(claim'[u]) <= content_length'
    <3>1. CASE u = t
      BY <1>2, <2>1, <3>1
    <3>2. CASE u # t
      BY <1>0, <1>1, <1>3, <1>4, <2>1, <2>3, <3>2
    <3> QED
      BY <3>1, <3>2
  <2>4. \A f \in frames : f.off # claim'[t].off
    BY <1>0, <1>2, <1>3, <1>5
  <2>5. \A u \in Threads \ {t} : Claims(u)' => claim'[u].off # claim'[t].off
    BY <1>0, <1>1, <1>2, <1>3, <1>4
  <2> QED
    BY <1>1, <1>4, <2>1, <2>2, <2>3, <2>4, <2>5 DEF Rooms
<1>7. \A f \in Buf!Pieces : Buf!End(f) <= claim'[t].off
  BY <1>2, <1>5, <1>1, <1>4 DEF Buf!Pieces, Buf!ClaimedBy, Claims
<1>8. Buf!Pieces' = Buf!Pieces \cup {claim'[t]}
  BY <1>1, <1>2 DEF Buf!Pieces, Buf!ClaimedBy, Claims
<1> QED
  BY <1>2, <1>6, <1>7, <1>8

(* A header makes a frame of the room its thread has.                      *)
LEMMA RoomsConstructed ==
  ASSUME TypeOK, Rooms, NEW t \in Threads, Buf!Construct(t)
  PROVE  Rooms' /\ Buf!Pieces' = Buf!Pieces
<1>1. /\ Claims(t) /\ claim[t] \in Buf!Frame /\ claim'[t] = NoClaim
      /\ \A u \in Threads \ {t} : claim'[u] = claim[u]
      /\ frames' = frames \cup {claim[t]}
      /\ UNCHANGED <<mapped, content_length, halted>>
  BY Constructs
<1>2. \A u \in Threads : Claims(u)' => u # t /\ Claims(u) /\ claim'[u] = claim[u]
  BY <1>1 DEF Claims
<1>3. Rooms'
  BY <1>1, <1>2 DEF Rooms, Buf!End
<1>4. Buf!Pieces' = Buf!Pieces
  BY <1>1, <1>2 DEF Buf!Pieces, Buf!ClaimedBy, Claims
<1> QED
  BY <1>3, <1>4

(* The room that is reserved has the message and argument of the call.     *)
LEMMA ReservesInfo ==
  ASSUME TypeOK, Control, Rooms, NEW t \in Threads, InfoReserve(t), mapped
  PROVE  /\ Rooms' /\ Buf!Pieces' = Buf!Pieces \cup {claim'[t]}
         /\ claim'[t].tag.part = "info" /\ claim'[t].tag.msg = job[t].msg
<1>1. PICK tag \in Tag : tag = [part |-> "info", msg |-> job[t].msg, arg |-> Plain]
  BY FitsMeans DEF Tag, Job, Args, InfoReserve, CallFits, At
<1> QED
  BY <1>1, RoomsReserved DEF InfoReserve

(* So has the room of a record, which is behind everything in the log.     *)
LEMMA ReservesRecord ==
  ASSUME TypeOK, Control, Rooms, NEW t \in Threads, Reserve(t), mapped
  PROVE  /\ Rooms' /\ Buf!Pieces' = Buf!Pieces \cup {claim'[t]}
         /\ claim'[t].tag.part = "record" /\ claim'[t].tag.msg = job[t].msg
         /\ claim'[t].tag.arg = job[t].arg
         /\ \A f \in Buf!Pieces : Buf!End(f) <= claim'[t].off
<1>1. PICK tag \in Tag : tag = [part |-> "record", msg |-> job[t].msg, arg |-> job[t].arg]
  BY FitsMeans DEF Tag, Job, Args, Reserve, CallFits, At
<1> QED
  BY <1>1, RoomsReserved DEF Reserve

(* All steps that do not reserve room or construct a header.               *)
LEMMA RoomsSame ==
  ASSUME Rooms, UNCHANGED <<claim, frames, content_length>>, mapped => mapped'
  PROVE  Rooms' /\ Buf!Pieces' = Buf!Pieces
<1>1. Rooms'
  BY DEF Rooms, Claims, Buf!End
<1>2. Buf!Pieces' = Buf!Pieces
  BY DEF Buf!Pieces, Buf!ClaimedBy
<1> QED
  BY <1>1, <1>2

(* What the steps of a thread do to the rooms: nothing, or one of these.   *)
LEMMA StepRooms ==
  ASSUME TypeOK, Control, Rooms, NEW t \in Threads, Step(t)
  PROVE  /\ Rooms'
         /\ \/ InfoReserve(t) /\ mapped
            \/ Reserve(t) /\ mapped
            \/ (InfoHeader(t) \/ Header(t)) /\ Buf!Pieces' = Buf!Pieces
            \/ UNCHANGED <<claim, frames, content_length>> /\ Buf!Pieces' = Buf!Pieces
<1>1. CASE (InfoReserve(t) \/ Reserve(t)) /\ mapped
  BY <1>1, ReservesInfo, ReservesRecord
<1>2. CASE InfoHeader(t) \/ Header(t)
  BY <1>2, RoomsConstructed DEF InfoHeader, Header
<1>3. CASE UNCHANGED <<claim, frames, content_length, mapped>>
  BY <1>3, RoomsSame
<1> QED
  BY <1>1, <1>2, <1>3
     DEF Step, Proceed, Call, CheckInfo, InfoReserve, InfoCopy, InfoFlag, MeasurePlain,
         StringLookup, StringLock, StringInsert, LocationLookup, LocationIndex,
         LocationInsert, SchemaLookup, SchemaInsert, NodeExchange, Reserve, BufferFull,
         Body, Return, Fatal, Abort, buffer, Buf!BufferFull

----------------------------------------------------------------------------
(* Payloads and the records they complete.                                 *)

(* Every payload is in a frame of its call, whatever a thread does.        *)
LEMMA StepBodies ==
  ASSUME TypeOK, Control, Rooms, Bodies, NEW t \in Threads, Step(t)
  PROVE  Bodies'
<1>0. /\ CallFits(t) /\ frames \subseteq frames'
      /\ pc \in [Threads -> Labels] /\ job \in [Threads -> Job \cup {NoJob}]
  BY FitsMeans, StepBuffer DEF TypeOK
<1>1. \A b \in body' : \E f \in frames' : f.off = b.off
  <2>1. CASE InfoCopy(t) \/ Body(t)
    <3>1. /\ frames' = frames
          /\ \A b \in body' : b \in body \/ b.off = job[t].frame
          /\ pc[t] \in InInfo \cup {"body"}
      BY <2>1 DEF InfoCopy, Body, buffer, At, InInfo
    <3>2. PICK f \in frames : f.off = job[t].frame
      BY <3>1 DEF Bodies, FrameOf
    <3> QED
      BY <3>1, <3>2 DEF Bodies
  <2>2. CASE ~(InfoCopy(t) \/ Body(t))
    BY <1>0, <2>2, StepTouches DEF Bodies
  <2> QED
    BY <2>1, <2>2
<1>2. ASSUME NEW u \in Threads, pc'[u] \in InInfo \cup {"body"}
      PROVE  \E f \in frames' : FrameOf(pc'[u], job'[u], f)
  <2>1. CASE u # t
    <3>1. pc'[u] = pc[u] /\ job'[u] = job[u]
      BY <2>1, OneMoves
    <3> QED
      BY <1>0, <1>2, <3>1 DEF Bodies
  <2>2. CASE u = t /\ (InfoHeader(t) \/ Header(t))
    <3>1. /\ claim[t] \in frames' /\ job'[t] = [job[t] EXCEPT !.frame = claim[t].off]
          /\ pc'[t] = IF pc[t] = "header" THEN "body" ELSE "info_body"
          /\ pc[t] \in {"header", "info_header"}
      BY <1>0, <2>2, Constructs DEF InfoHeader, Header, At, Goto
    <3>2. /\ job[t] \in Job /\ claim[t].tag.msg = job[t].msg
          /\ pc[t] = "info_header" => claim[t].tag.part = "info"
          /\ pc[t] = "header" =>
               claim[t].tag = [part |-> "record", msg |-> job[t].msg, arg |-> job[t].arg]
      BY <1>0, <3>1 DEF CallFits, CallOK
    <3>3. /\ job'[t].frame = claim[t].off /\ job'[t].msg = job[t].msg
          /\ job'[t].arg = job[t].arg
      BY <3>1, <3>2 DEF Job
    <3> QED
      BY <2>2, <3>1, <3>2, <3>3 DEF FrameOf, InInfo
  <2>3. CASE u = t /\ (InfoCopy(t) \/ InfoFlag(t))
    <3>1. /\ job'[t] = job[t] /\ frames' = frames /\ pc[t] \in InInfo
          /\ pc'[t] \in InInfo \cup {"measure"}
      BY <1>0, <2>3 DEF InfoCopy, InfoFlag, At, Goto, InInfo, buffer
    <3> QED
      BY <1>2, <2>3, <3>1 DEF Bodies, FrameOf, InInfo
  <2>4. CASE u = t /\ BufferFull(t)
    BY <1>2, <2>4 DEF BufferFull, Buf!BufferFull, Bodies
  <2>5. ASSUME u = t, ~(InfoHeader(t) \/ Header(t) \/ InfoCopy(t) \/ InfoFlag(t)),
               ~BufferFull(t)
        PROVE  pc'[t] \notin InInfo \cup {"body"}
    BY <1>0, <2>5
       DEF Step, Proceed, Call, CheckInfo, InfoReserve, MeasurePlain, InInfo, Goto, At,
           StringLookup, StringLock, StringInsert, LocationLookup, LocationIndex,
           LocationInsert, SchemaLookup, SchemaInsert, NodeExchange, Reserve, Describe,
           Body, Return, Fatal, Abort
  <2> QED
    BY <1>2, <2>1, <2>2, <2>3, <2>4, <2>5
<1> QED
  BY <1>1, <1>2 DEF Bodies

(* What is written, from a pair of a frame and a payload.                  *)
LEMMA WrittenFrom ==
  \A r : r \in Written <=>
    \E f \in frames, b \in body : f.tag.part = "record" /\ f.off = b.off /\ r = Record(f, b)
BY DEF Written

(* Only the writing pass completes records.                                *)
LEMMA StepWritten ==
  ASSUME TypeOK, Control, Rooms, Bodies, NEW t \in Threads, Step(t), ~Body(t)
  PROVE  Written' = Written
<1>0. CallFits(t)
  BY FitsMeans
<1>1. CASE InfoHeader(t) \/ Header(t)
  <2>1. /\ body' = body /\ frames' = frames \cup {claim[t]} /\ Claims(t)
    BY <1>1, Constructs DEF InfoHeader, Header
  <2>2. \A b \in body : b.off # claim[t].off
    BY <2>1 DEF Bodies, Rooms
  <2>3. ASSUME NEW r PROVE r \in Written' <=> r \in Written
    <3>1. r \in Written' <=> \E f \in frames', b \in body' :
            f.tag.part = "record" /\ f.off = b.off /\ r = Record(f, b)
      BY DEF Written, Record, Buf!End
    <3> QED
      BY <2>1, <2>2, <3>1, WrittenFrom
  <2> QED
    BY <2>3
<1>2. CASE InfoCopy(t)
  <2>1. /\ frames' = frames /\ body' = body \cup {[off |-> job[t].frame, val |-> NoIndex]}
        /\ pc[t] \in InInfo
    BY <1>2 DEF InfoCopy, buffer, At, InInfo
  <2>2. \A f \in frames : f.off = job[t].frame => f.tag.part = "info"
    <3>1. PICK g \in frames : g.off = job[t].frame /\ g.tag.part = "info"
      BY <2>1 DEF Bodies, FrameOf
    <3> QED
      BY <3>1 DEF Rooms
  <2>3. ASSUME NEW r PROVE r \in Written' <=> r \in Written
    <3>1. r \in Written' <=> \E f \in frames', b \in body' :
            f.tag.part = "record" /\ f.off = b.off /\ r = Record(f, b)
      BY DEF Written, Record, Buf!End
    <3> QED
      BY <2>1, <2>2, <3>1, WrittenFrom
  <2> QED
    BY <2>3
<1>3. CASE ~(InfoHeader(t) \/ Header(t) \/ InfoCopy(t))
  <2>1. frames' = frames /\ body' = body
    BY <1>3, StepRooms, StepTouches DEF InfoReserve, Reserve, Buf!FetchAdd
  <2> QED
    BY <2>1 DEF Written, Record, Buf!End
<1> QED
  BY <1>1, <1>2, <1>3

(* The writing pass completes the record of its call.                      *)
LEMMA BodyWrites ==
  ASSUME TypeOK, Control, Rooms, Bodies, NEW t \in Threads, Body(t)
  PROVE  \E f \in frames :
           /\ f.off = job[t].frame
           /\ f.tag = [part |-> "record", msg |-> job[t].msg, arg |-> job[t].arg]
           /\ Written' = Written \cup
                {[off |-> f.off, end |-> Buf!End(f), msg |-> job[t].msg, arg |-> job[t].arg,
                  val |-> IF ~Describes(job[t]) /\ job[t].arg \in Locations
                            THEN locations[job[t].arg] ELSE job[t].val]}
<1> DEFINE val == IF ~Describes(job[t]) /\ job[t].arg \in Locations
                    THEN locations[job[t].arg] ELSE job[t].val
           new == [off |-> job[t].frame, val |-> val]
<1>1. frames' = frames /\ body' = body \cup {new} /\ pc[t] = "body"
  BY DEF Body, buffer, At
<1>2. PICK f \in frames : FrameOf(pc[t], job[t], f)
  BY <1>1 DEF Bodies
<1>3. /\ f.off = new.off /\ f.tag.part = "record" /\ f.tag.msg = job[t].msg
      /\ f.tag.arg = job[t].arg /\ new.val = val
      /\ f.tag = [part |-> "record", msg |-> job[t].msg, arg |-> job[t].arg]
  BY <1>1, <1>2 DEF FrameOf
<1>4. \A g \in frames : g.off = new.off => g = f
  BY <1>3 DEF Rooms
<1>5. Record(f, new) = [off |-> f.off, end |-> Buf!End(f), msg |-> job[t].msg,
                        arg |-> job[t].arg, val |-> val]
  BY <1>3 DEF Record
<1> HIDE DEF new, val
<1>6. ASSUME NEW r PROVE r \in Written' <=> r \in Written \cup {Record(f, new)}
  <2>1. r \in Written' <=> \E g \in frames', b \in body' :
          g.tag.part = "record" /\ g.off = b.off /\ r = Record(g, b)
    BY DEF Written, Record, Buf!End
  <2> QED
    BY <1>1, <1>3, <1>4, <2>1, WrittenFrom
<1>7. Written' = Written \cup {Record(f, new)}
  BY <1>6
<1> QED
  BY <1>3, <1>5, <1>7 DEF new, val

----------------------------------------------------------------------------
(* Info frames.                                                            *)

(* has_info is set behind the header of an info frame; a call that sees it *)
(* set, or has written the header itself, is behind one too.               *)
LEMMA StepInfoKnown ==
  ASSUME TypeOK, Control, InfoKnown, NEW t \in Threads, Step(t)
  PROVE  InfoKnown'
<1>0. /\ CallFits(t) /\ frames \subseteq frames'
      /\ pc \in [Threads -> Labels] /\ job \in [Threads -> Job \cup {NoJob}]
      /\ outer \in [Threads -> Job \cup {NoJob}]
  BY FitsMeans, StepBuffer DEF TypeOK
<1>1. \A m : HasInfo(frames, m) => HasInfo(frames', m)
  BY <1>0 DEF HasInfo
<1>2. \A m \in has_info' : HasInfo(frames', m)
  <2>1. CASE InfoFlag(t)
    <3>1. /\ has_info' = has_info \cup {job[t].msg} /\ ~job[t].blind
          /\ pc[t] \in {"info_body", "info_flag"}
      BY <1>0, <2>1 DEF InfoFlag, At, CallFits, CallOK
    <3> QED
      BY <1>1, <3>1 DEF InfoKnown, BeforeInfo
  <2>2. CASE ~InfoFlag(t)
    BY <1>1, <2>2, StepTouches DEF InfoKnown
  <2> QED
    BY <2>1, <2>2
<1>3. ASSUME NEW u \in Threads, pc'[u] \notin BeforeInfo, ~job'[u].blind
      PROVE  HasInfo(frames', job'[u].msg)
  <2>1. CASE u # t
    <3>1. pc'[u] = pc[u] /\ job'[u] = job[u]
      BY <2>1, OneMoves
    <3> QED
      BY <1>1, <1>3, <3>1 DEF InfoKnown
  <2>2. CASE u = t /\ CheckInfo(t)
    <3>1. job'[t] = job[t] /\ job[t].msg \in has_info
      BY <1>0, <1>3, <2>2 DEF CheckInfo, At, Goto, BeforeInfo
    <3> QED
      BY <1>1, <2>2, <3>1 DEF InfoKnown
  <2>3. CASE u = t /\ InfoHeader(t)
    <3>1. /\ claim[t] \in frames' /\ job'[t] = [job[t] EXCEPT !.frame = claim[t].off]
          /\ pc[t] = "info_header" /\ job[t] \in Job
      BY <1>0, <2>3, Constructs DEF InfoHeader, At, CallFits
    <3>2. claim[t].tag.part = "info" /\ claim[t].tag.msg = job[t].msg
      BY <1>0, <3>1 DEF CallFits, CallOK
    <3>3. job'[t].msg = job[t].msg
      BY <3>1 DEF Job
    <3> QED
      BY <2>3, <3>1, <3>2, <3>3 DEF HasInfo
  <2>4. CASE u = t /\ Return(t)
    <3>1. job'[t] = outer[t] /\ outer[t] # NoJob
      BY <1>0, <1>3, <2>4 DEF Return, At, Goto, BeforeInfo
    <3> QED
      BY <1>1, <1>3, <2>4, <3>1 DEF InfoKnown, Nested
  <2>5. CASE u = t /\ Header(t)
    <3>1. /\ job'[t] = [job[t] EXCEPT !.frame = claim[t].off] /\ pc[t] = "header"
          /\ job[t] \in Job
      BY <1>0, <2>5, Constructs DEF Header, At, CallFits
    <3>2. job'[t].msg = job[t].msg /\ job'[t].blind = job[t].blind
      BY <3>1 DEF Job
    <3> QED
      BY <1>1, <1>3, <2>5, <3>1, <3>2 DEF InfoKnown, BeforeInfo
  <2>6. CASE u = t /\ ~(CheckInfo(t) \/ InfoHeader(t) \/ Return(t) \/ Header(t))
    <3>1. /\ pc[t] \notin BeforeInfo /\ ~job[t].blind /\ job'[t].msg = job[t].msg
      <4>1. CASE InfoReserve(t)
        <5>1. ~mapped /\ job'[t] = [job[t] EXCEPT !.blind = TRUE] /\ job[t] \in Job
          BY <1>0, <1>3, <2>6, <4>1 DEF InfoReserve, At, Goto, BeforeInfo, CallFits
        <5>2. job'[t].blind
          BY <5>1 DEF Job
        <5> QED
          BY <1>3, <2>6, <5>2
      <4>2. CASE ~InfoReserve(t)
        BY <1>0, <1>3, <2>6, <4>2
           DEF Step, Proceed, Call, InfoCopy, InfoFlag, MeasurePlain, BeforeInfo, Goto, At,
               StringLookup, StringLock, StringInsert, LocationLookup, LocationIndex,
               LocationInsert, SchemaLookup, SchemaInsert, NodeExchange, Reserve, Describe,
               BufferFull, Body, Fatal, Abort
      <4> QED
        BY <4>1, <4>2
    <3> QED
      BY <1>1, <2>6, <3>1 DEF InfoKnown
  <2> QED
    BY <2>1, <2>2, <2>3, <2>4, <2>5, <2>6
<1>4. ASSUME NEW u \in Threads, outer'[u] # NoJob, ~outer'[u].blind
      PROVE  HasInfo(frames', outer'[u].msg)
  <2>1. CASE outer'[u] = outer[u]
    BY <1>1, <1>4, <2>1 DEF InfoKnown, Nested
  <2>2. ASSUME u = t, NEW v, Describe(t, v), pc[t] \in {"lock", "index", "measure"}
        PROVE  HasInfo(frames', outer'[u].msg)
    <3>1. outer'[t] = [job[t] EXCEPT !.val = v] /\ job[t] \in Job
      BY <1>0, <2>2 DEF Describe, CallFits
    <3>2. outer'[t].msg = job[t].msg /\ outer'[t].blind = job[t].blind
      BY <3>1 DEF Job
    <3> QED
      BY <1>1, <1>4, <2>2, <3>2 DEF InfoKnown, BeforeInfo
  <2>3. CASE u # t
    BY <2>1, <2>3, OneMoves
  <2>4. ASSUME u = t, outer'[u] # outer[u]
        PROVE  /\ \E v : Describe(t, v)
               /\ pc[t] \in {"lock", "index", "measure"}
    BY <1>0, <1>4, <2>4
       DEF Step, Proceed, Call, CheckInfo, InfoReserve, InfoHeader, InfoCopy, InfoFlag,
           MeasurePlain, StringLookup, StringLock, StringInsert, LocationLookup, At,
           LocationIndex, LocationInsert, SchemaLookup, SchemaInsert, NodeExchange, Reserve,
           Header, BufferFull, Body, Return, Fatal, Abort
  <2> QED
    BY <2>1, <2>2, <2>3, <2>4
<1> QED
  BY <1>2, <1>3, <1>4 DEF InfoKnown, Nested

(* The threads with message m at the beginning and in the middle are the   *)
(* same, but for the one that takes the step.                              *)
LEMMA OneEnters ==
  ASSUME TypeOK, NEW t \in Threads, Step(t), NEW m
  PROVE  /\ \A u \in Threads \ {t} : u \in Entering(m)' <=> u \in Entering(m)
         /\ \A u \in Threads \ {t} : u \in Flagging(m)' <=> u \in Flagging(m)
BY OneMoves DEF Entering, Flagging

(* A thread is at the beginning or in the middle of its info frame, so the *)
(* two together are no more than there are threads.                        *)
LEMMA CountThreads ==
  ASSUME NEW m
  PROVE  /\ IsFiniteSet(Entering(m)) /\ IsFiniteSet(Flagging(m))
         /\ Cardinality(Entering(m)) \in Nat /\ Cardinality(Flagging(m)) \in Nat
         /\ Cardinality(Threads) \in Nat
         /\ Cardinality(Flagging(m)) + Cardinality(Entering(m)) <= Cardinality(Threads)
<1>1. /\ Entering(m) \subseteq Threads /\ Flagging(m) \subseteq Threads
      /\ Entering(m) \cap Flagging(m) = {}
  BY DEF Entering, Flagging
<1>2. IsFiniteSet(Entering(m)) /\ IsFiniteSet(Flagging(m))
  BY <1>1, FS_Subset
<1>3. LET both == Flagging(m) \cup Entering(m) IN
        /\ both \subseteq Threads /\ IsFiniteSet(both)
        /\ Cardinality(both) = Cardinality(Flagging(m)) + Cardinality(Entering(m))
  <2>1. /\ IsFiniteSet(Flagging(m) \cup Entering(m))
        /\ Cardinality(Flagging(m) \cup Entering(m)) = Cardinality(Flagging(m))
             + Cardinality(Entering(m)) - Cardinality(Flagging(m) \cap Entering(m))
    BY <1>2, FS_Union
  <2>2. Cardinality(Flagging(m) \cap Entering(m)) = 0
    BY <1>1, FS_EmptySet
  <2> QED
    BY <1>1, <1>2, <2>1, <2>2, FS_CardinalityType
<1> QED
  BY <1>2, <1>3, FS_CardinalityType, FS_Subset

(* One info frame more.                                                    *)
LEMMA InfosReserved ==
  ASSUME TypeOK, Control, Rooms, NEW t \in Threads, InfoReserve(t), mapped, NEW m
  PROVE  Infos(m)' = IF job[t].msg = m THEN Infos(m) \cup {claim'[t]} ELSE Infos(m)
BY ReservesInfo DEF Infos

(* Other steps add none.                                                   *)
LEMMA InfosSame ==
  ASSUME TypeOK, Control, Rooms, NEW t \in Threads, Step(t), NEW m,
         ~(InfoReserve(t) /\ mapped)
  PROVE  Infos(m)' = Infos(m)
<1>1. CASE Reserve(t) /\ mapped
  BY <1>1, ReservesRecord DEF Infos
<1>2. CASE Buf!Pieces' = Buf!Pieces
  BY <1>2 DEF Infos
<1> QED
  BY <1>1, <1>2, StepRooms

(* Each step keeps the account of the info frames of a message.            *)
LEMMA StepInfos ==
  ASSUME TypeOK, Control, Rooms, NEW t \in Threads, Step(t), NEW m, InfosOK(m)
  PROVE  InfosOK(m)'
<1>0. /\ CallFits(t) /\ pc \in [Threads -> Labels] /\ job \in [Threads -> Job \cup {NoJob}]
      /\ IsFiniteSet(Infos(m)) /\ Cardinality(Infos(m)) \in Nat
  BY FitsMeans, FS_CardinalityType DEF TypeOK, InfosOK
<1>1. CASE InfoReserve(t) /\ job[t].msg = m
  <2>1. has_info' = has_info /\ pc[t] = "info" /\ t \in Entering(m) /\ t \notin Flagging(m)
    BY <1>1 DEF InfoReserve, At, Entering, Flagging
  <2>2. Entering(m)' = Entering(m) \ {t}
    <3>1. t \notin Entering(m)'
      BY <1>0, <1>1 DEF InfoReserve, Goto, Entering
    <3>2. \A u \in Threads : u \in Entering(m)' <=> u \in Entering(m) \ {t}
      BY <3>1, OneEnters
    <3> QED
      BY <3>2 DEF Entering
  <2>3. Cardinality(Entering(m)') = Cardinality(Entering(m)) - 1
    BY ZenonT(30), <2>1, <2>2, CountThreads, FS_RemoveElement
  <2>4. CASE mapped
    <3>1. Infos(m)' = Infos(m) \cup {claim'[t]}
      BY <1>1, <2>4, InfosReserved
    <3>2. /\ IsFiniteSet(Infos(m)') /\ Cardinality(Infos(m)') \in Nat
          /\ Cardinality(Infos(m)') <= Cardinality(Infos(m)) + 1
      <4>1. /\ IsFiniteSet(Infos(m) \cup {claim'[t]})
            /\ \/ Cardinality(Infos(m) \cup {claim'[t]}) = Cardinality(Infos(m))
               \/ Cardinality(Infos(m) \cup {claim'[t]}) = Cardinality(Infos(m)) + 1
        BY <1>0, FS_AddElement
      <4> QED
        BY <1>0, <3>1, <4>1
    <3>3. Flagging(m)' = Flagging(m) \cup {t}
      <4>1. t \in Flagging(m)'
        BY <1>0, <1>1, <2>4 DEF InfoReserve, Goto, Flagging
      <4>2. \A u \in Threads : u \in Flagging(m)' <=> u \in Flagging(m) \cup {t}
        BY <4>1, OneEnters
      <4> QED
        BY <4>2 DEF Flagging
    <3>4. Cardinality(Flagging(m)') = Cardinality(Flagging(m)) + 1
      BY <2>1, <3>3, CountThreads, FS_AddElement
    <3> QED
      BY <1>0, <2>1, <2>3, <3>2, <3>4, CountThreads DEF InfosOK
  <2>5. CASE ~mapped
    <3>1. Infos(m)' = Infos(m)
      BY <2>5, InfosSame
    <3>2. Flagging(m)' = Flagging(m)
      <4>1. t \notin Flagging(m)'
        BY <1>0, <1>1, <2>5 DEF InfoReserve, Goto, Flagging
      <4>2. \A u \in Threads : u \in Flagging(m)' <=> u \in Flagging(m)
        BY <2>1, <4>1, OneEnters
      <4> QED
        BY <4>2 DEF Flagging
    <3> QED
      BY <1>0, <2>1, <2>3, <3>1, <3>2, CountThreads DEF InfosOK
  <2> QED
    BY <2>4, <2>5
<1>2. CASE InfoFlag(t) /\ job[t].msg = m
  <2>1. m \in has_info' /\ Infos(m)' = Infos(m)
    BY <1>2, InfosSame DEF InfoFlag, InfoReserve, At
  <2>2. Entering(m)' = Entering(m)
    <3>1. t \notin Entering(m)' /\ t \notin Entering(m)
      BY <1>0, <1>2 DEF InfoFlag, At, Goto, Entering
    <3>2. \A u \in Threads : u \in Entering(m)' <=> u \in Entering(m)
      BY <3>1, OneEnters
    <3> QED
      BY <3>2 DEF Entering
  <2>3. Cardinality(Infos(m)) + Cardinality(Entering(m)) <= Cardinality(Threads)
    BY <1>0, CountThreads DEF InfosOK
  <2> QED
    BY <1>0, <2>1, <2>2, <2>3 DEF InfosOK
<1>3. CASE CheckInfo(t) /\ job[t].msg = m /\ m \notin has_info
  <2>1. has_info' = has_info /\ Infos(m)' = Infos(m)
    BY <1>3, InfosSame DEF CheckInfo, InfoReserve, At
  <2>2. Flagging(m)' = Flagging(m)
    <3>1. t \notin Flagging(m)' /\ t \notin Flagging(m)
      BY <1>0, <1>3 DEF CheckInfo, At, Goto, Flagging
    <3>2. \A u \in Threads : u \in Flagging(m)' <=> u \in Flagging(m)
      BY <3>1, OneEnters
    <3> QED
      BY <3>2 DEF Flagging
  <2> QED
    BY <1>3, <2>1, <2>2 DEF InfosOK
<1>4. CASE /\ ~(InfoReserve(t) /\ job[t].msg = m) /\ ~(InfoFlag(t) /\ job[t].msg = m)
           /\ ~(CheckInfo(t) /\ job[t].msg = m /\ m \notin has_info)
  <2>1. Infos(m)' = Infos(m)
    BY <1>4, InfosSame, InfosReserved
  <2>2. m \in has_info' <=> m \in has_info
    BY <1>4, StepTouches DEF InfoFlag
  <2>3. (t \in Entering(m)' <=> t \in Entering(m)) /\ (t \in Flagging(m)' <=> t \in Flagging(m))
    <3> USE DEF Entering, Flagging, At, Goto
    <3>1. CASE InfoHeader(t)
      <4>1. /\ pc[t] = "info_header" /\ pc'[t] = "info_body" /\ job[t] \in Job
            /\ job'[t] = [job[t] EXCEPT !.frame = claim[t].off]
        BY <1>0, <3>1 DEF InfoHeader, CallFits
      <4>2. job'[t].msg = job[t].msg
        BY <4>1 DEF Job
      <4> QED
        BY <4>1, <4>2
    <3>2. CASE InfoReserve(t)
      <4>1. job'[t].msg = job[t].msg
        <5>1. job[t] \in Job /\ job'[t] \in {job[t], [job[t] EXCEPT !.blind = TRUE]}
          BY <1>0, <3>2 DEF InfoReserve, CallFits
        <5> QED
          BY <5>1 DEF Job
      <4> QED
        BY <1>4, <3>2, <4>1
    <3>3. CASE CheckInfo(t) \/ InfoFlag(t) \/ InfoCopy(t)
      BY <1>0, <1>4, <3>3 DEF CheckInfo, InfoFlag, InfoCopy
    <3>4. CASE BufferFull(t) \/ Abort(t)
      BY <3>4 DEF BufferFull, Abort
    <3>5. CASE ~(\/ InfoHeader(t) \/ InfoReserve(t) \/ CheckInfo(t) \/ InfoFlag(t)
                 \/ InfoCopy(t) \/ BufferFull(t) \/ Abort(t))
      <4>1. /\ pc[t] \notin {"info", "info_header", "info_body", "info_flag"}
            /\ pc'[t] \notin {"info", "info_header", "info_body", "info_flag"}
        BY <1>0, <3>5
           DEF Step, Proceed, Call, MeasurePlain, StringLookup, StringLock, StringInsert,
               LocationLookup, LocationIndex, LocationInsert, SchemaLookup, SchemaInsert,
               NodeExchange, Reserve, Header, Describe, Body, Return, Fatal
      <4> QED
        BY <4>1
    <3> QED
      BY <3>1, <3>2, <3>3, <3>4, <3>5
  <2>4. Entering(m)' = Entering(m) /\ Flagging(m)' = Flagging(m)
    <3>1. \A u \in Threads : /\ u \in Entering(m)' <=> u \in Entering(m)
                             /\ u \in Flagging(m)' <=> u \in Flagging(m)
      BY <2>3, OneEnters
    <3> QED
      BY <3>1 DEF Entering, Flagging
  <2> QED
    BY <2>1, <2>2, <2>4 DEF InfosOK
<1> QED
  BY <1>1, <1>2, <1>3, <1>4

----------------------------------------------------------------------------
(* Calls and the descriptions they wait for.                               *)

(* A thread goes on with its call, ...                                     *)
Keeps(t) ==
  /\ job[t] # NoJob /\ job'[t] # NoJob /\ outer'[t] = outer[t]
  /\ job'[t].msg = job[t].msg /\ job'[t].arg = job[t].arg /\ job'[t].val = job[t].val

(* ... starts one for itself, ...                                          *)
Starts(t) ==
  /\ ~Nested(t) /\ outer'[t] = NoJob
  /\ pc[t] \in {"idle", "print"} /\ pc'[t] = "check"
  /\ job'[t].val = NoIndex /\ ~Describes(job'[t])

(* ... or starts to describe the argument of the one it is in.             *)
Opens(t) ==
  /\ ~Nested(t) /\ outer'[t] # NoJob /\ pc[t] # "insert" /\ pc'[t] = "check"
  /\ ~Describes(job[t]) /\ Describes(job'[t]) /\ job'[t].arg = job[t].arg
  /\ outer'[t].msg = job[t].msg /\ outer'[t].arg = job[t].arg
  /\ outer'[t].val = job'[t].val
  /\ \/ StringLock(t) /\ job[t].arg \in Strings /\ job[t].arg \notin strings
        /\ string_lock = NoThread /\ string_lock' = t
     \/ LocationIndex(t) /\ job[t].arg \in Locations /\ job'[t].val = ctr
     \/ SchemaLookup(t) /\ job[t].arg \in Schemas
     \/ NodeExchange(t) /\ job[t].arg \in Nodes

(* These and the return from a call are all that a step does to a call.    *)
LEMMA StepCalls ==
  ASSUME TypeOK, Control, NEW t \in Threads, Step(t)
  PROVE  Keeps(t) \/ Starts(t) \/ Opens(t) \/ Return(t)
<1> USE DEF Goto, At, Nested
<1>0. /\ CallFits(t) /\ CallFits(t)'
      /\ pc \in [Threads -> Labels] /\ job \in [Threads -> Job \cup {NoJob}]
      /\ outer \in [Threads -> Job \cup {NoJob}]
  BY FitsMeans, StepCallFits DEF TypeOK
<1>1. ASSUME NEW m \in Messages, NEW x \in Args, Call(t, m, x) PROVE Starts(t)
  BY <1>0, <1>1 DEF Call, NewJob, Starts, CallFits, CallOK, Describes, UserMessages
<1>2. CASE Fatal(t)
  BY <1>0, <1>2 DEF Fatal, NewJob, Starts, CallFits, CallOK, Describes, UserMessages
<1>3. ASSUME NEW v \in Nat \cup {NoIndex}, Describe(t, v),
             pc[t] \in {"lock", "index", "measure"},
             ~Describes(job[t]), job[t].arg \in Things,
             \/ StringLock(t) /\ job[t].arg \in Strings /\ job[t].arg \notin strings
                /\ string_lock = NoThread /\ string_lock' = t
             \/ LocationIndex(t) /\ job[t].arg \in Locations /\ v = ctr
             \/ SchemaLookup(t) /\ job[t].arg \in Schemas
             \/ NodeExchange(t) /\ job[t].arg \in Nodes
      PROVE  Opens(t)
  <2>1. job[t] \in Job /\ outer[t] = NoJob /\ outer'[t] = [job[t] EXCEPT !.val = v]
    BY <1>0, <1>3 DEF Describe, CallFits
  <2>2. outer'[t].msg = job[t].msg /\ outer'[t].arg = job[t].arg /\ outer'[t].val = v
    BY <2>1 DEF Job
  <2>3. /\ job'[t] = NewJob(Describing(job[t].arg), job[t].arg, v) /\ pc'[t] = "check"
        /\ outer'[t] # NoJob
    <3>1. outer'[t] = [job[t] EXCEPT !.val = v] /\ v \in Nat \cup {NoIndex}
      BY <1>3, <2>1
    <3>2. outer'[t] \in Job
      BY <2>1, <3>1 DEF Job
    <3> QED
      BY <1>0, <1>3, <3>2 DEF Describe
  <2>4. Describing(job[t].arg) \notin UserMessages
    BY <1>3, DescribingThings
  <2> QED
    BY <1>0, <1>3, <2>1, <2>2, <2>3, <2>4 DEF Opens, NewJob, Describes
<1>4. CASE StringLock(t) \/ LocationIndex(t) \/ SchemaLookup(t) \/ NodeExchange(t)
  BY <1>0, <1>3, <1>4
     DEF StringLock, LocationIndex, SchemaLookup, NodeExchange, CallFits, CallOK, Things, Keeps, TypeOK
<1>5. CASE InfoReserve(t) \/ InfoHeader(t) \/ Header(t)
  <2>1. /\ job[t] \in Job /\ outer'[t] = outer[t] /\ job'[t] # NoJob
        /\ job'[t] \in {job[t], [job[t] EXCEPT !.blind = TRUE],
                        [job[t] EXCEPT !.frame = claim[t].off]}
    BY <1>0, <1>5 DEF InfoReserve, InfoHeader, Header, CallFits
  <2> QED
    BY <2>1 DEF Keeps, Job
<1>6. CASE \/ CheckInfo(t) \/ InfoCopy(t) \/ InfoFlag(t) \/ MeasurePlain(t)
           \/ StringLookup(t) \/ StringInsert(t) \/ LocationLookup(t) \/ LocationInsert(t)
           \/ SchemaInsert(t) \/ Reserve(t) \/ BufferFull(t) \/ Body(t) \/ Abort(t)
  BY <1>0, <1>6
     DEF CheckInfo, InfoCopy, InfoFlag, MeasurePlain, StringLookup, StringInsert,
         LocationLookup, LocationInsert, SchemaInsert, Reserve, BufferFull, Body, Abort,
         Keeps, CallFits
<1> QED
  BY <1>1, <1>2, <1>4, <1>5, <1>6 DEF Step, Proceed

(* A thread inserts what has been described for its call, and nothing else. *)
LEMMA StepInsert ==
  ASSUME TypeOK, Control, NEW t \in Threads, Step(t), Keeps(t)
  PROVE  /\ pc'[t] # "insert"
         /\ StringInsert(t) \/ LocationInsert(t) \/ SchemaInsert(t) => ~Nested(t)'
<1>0. /\ CallFits(t) /\ CallFits(t)'
      /\ pc \in [Threads -> Labels] /\ job \in [Threads -> Job \cup {NoJob}]
      /\ outer \in [Threads -> Job \cup {NoJob}]
  BY FitsMeans, StepCallFits DEF TypeOK
<1>1. pc'[t] # "insert"
  BY <1>0
     DEF Step, Proceed, Call, CheckInfo, InfoReserve, InfoHeader, InfoCopy, InfoFlag,
         MeasurePlain, StringLookup, StringLock, StringInsert, LocationLookup, Describe,
         LocationIndex, LocationInsert, SchemaLookup, SchemaInsert, NodeExchange, Reserve,
         Header, BufferFull, Body, Fatal, Abort, Goto, At, Keeps, Return
<1> QED
  BY <1>0, <1>1 DEF StringInsert, LocationInsert, SchemaInsert, At, CallFits, CallOK, Keeps, Nested

----------------------------------------------------------------------------
(* Strings.                                                                *)

(* The lock passes from nobody to a thread and back.                       *)
LEMMA StepStringsLocked ==
  ASSUME TypeOK, Control, StringsLocked, NEW t \in Threads, Step(t)
  PROVE  StringsLocked'
<1>0. /\ CallFits(t) /\ CallFits(t)'
      /\ pc \in [Threads -> Labels] /\ job \in [Threads -> Job \cup {NoJob}]
      /\ outer \in [Threads -> Job \cup {NoJob}]
  BY FitsMeans, StepCallFits DEF TypeOK
<1>1. ASSUME NEW u \in Threads, NEW s \in Strings, string_lock = u, s \notin strings,
             u = t => ~StringInsert(t)
      PROVE  string_lock' = u /\ s \notin strings'
  <2>1. ~StringInsert(t)
    <3>1. ASSUME StringInsert(t) PROVE string_lock = t
      BY <3>1 DEF StringInsert, At, DescribesString, StringsLocked
    <3> QED
      BY <1>1, <3>1
  <2>2. string_lock # NoThread
    BY <1>1
  <2> QED
    BY <1>1, <2>1, <2>2, StepTouches DEF StringLock
<1>2. ASSUME NEW u \in Threads, NEW s \in Strings, u # t, DescribesString(u, s)'
      PROVE  string_lock' = u /\ s \notin strings'
  <2>1. DescribesString(u, s)
    BY <1>2, OneMoves DEF DescribesString, Nested
  <2> QED
    BY <1>1, <1>2, <2>1 DEF StringsLocked
<1>3. ASSUME NEW s \in Strings, DescribesString(t, s)'
      PROVE  string_lock' = t /\ s \notin strings'
  <2>1. CASE StringLock(t)
    BY <1>0, <1>3, <2>1
       DEF StringLock, Describe, NewJob, DescribesString, CallFits, CallOK, At, Goto, Nested
  <2>2. CASE ~StringLock(t)
    <3>1. DescribesString(t, s) /\ ~StringInsert(t)
      <4>1. CASE Keeps(t)
        BY <1>0, <1>3, <2>2, <4>1, StepInsert DEF Keeps, DescribesString, Nested
      <4>2. CASE Starts(t)
        BY <1>3, <4>2 DEF Starts, DescribesString, Nested
      <4>3. CASE Opens(t)
        BY <1>3, <2>2, <4>3 DEF Opens, DescribesString, Nested
      <4>4. CASE Return(t)
        BY <1>0, <1>3, <4>4
           DEF Return, StringInsert, DescribesString, Nested, At, Goto, CallFits, CallOK
      <4> QED
        BY <4>1, <4>2, <4>3, <4>4, StepCalls
    <3> QED
      BY <1>1, <3>1 DEF StringsLocked
  <2> QED
    BY <2>1, <2>2
<1> QED
  BY <1>2, <1>3 DEF StringsLocked

(* A description of a string appears with the room for its record.         *)
LEMMA NewDescription ==
  ASSUME TypeOK, Control, Rooms, NEW t \in Threads, Step(t), NEW s,
         NEW f \in Descriptions(s)', f \notin Descriptions(s)
  PROVE  /\ Reserve(t) /\ pc[t] = "reserve" /\ pc'[t] = "header" /\ f = claim'[t]
         /\ Describes(job[t]) /\ job[t].arg = s /\ job'[t] = job[t] /\ outer'[t] = outer[t]
<1>0. CallFits(t) /\ pc \in [Threads -> Labels]
  BY FitsMeans DEF TypeOK
<1>1. CASE InfoReserve(t) /\ mapped
  BY <1>1, ReservesInfo DEF Descriptions
<1>2. CASE Reserve(t) /\ mapped
  <2>1. f = claim'[t] /\ job[t].msg \notin UserMessages /\ job[t].arg = s
    BY <1>2, ReservesRecord DEF Descriptions
  <2> QED
    BY <1>0, <1>2, <2>1 DEF Reserve, At, Goto, Describes
<1>3. CASE Buf!Pieces' = Buf!Pieces
  BY <1>3 DEF Descriptions
<1> QED
  BY <1>1, <1>2, <1>3, StepRooms

(* From the reservation on, a call goes straight to its end.               *)
LEMMA StepRecord ==
  ASSUME TypeOK, Control, NEW t \in Threads, Step(t), Keeps(t),
         pc[t] \in {"header", "body", "print", "insert"}
  PROVE  \/ pc[t] # "insert" /\ pc'[t] \in {"header", "body", "print"}
         \/ StringInsert(t) \/ LocationInsert(t) \/ SchemaInsert(t)
<1>0. /\ CallFits(t) /\ pc \in [Threads -> Labels] /\ job \in [Threads -> Job \cup {NoJob}]
      /\ outer \in [Threads -> Job \cup {NoJob}]
  BY FitsMeans DEF TypeOK
<1>1. ~Return(t) /\ ~Fatal(t)
  BY <1>0 DEF Return, Fatal, Keeps, At, NewJob
<1> QED
  BY <1>0, <1>1
     DEF Step, Proceed, Call, CheckInfo, InfoReserve, InfoHeader, InfoCopy, InfoFlag,
         MeasurePlain, StringLookup, StringLock, LocationLookup, LocationIndex,
         SchemaLookup, NodeExchange, Reserve, Header, BufferFull, Body, Abort, Goto, At

(* The description of a string, if it has one, stays the only one.         *)
LEMMA StepStringsOnce ==
  ASSUME TypeOK, Control, Rooms, StringsLocked, NEW t \in Threads, Step(t),
         NEW s \in Strings, DescribedOnce(s)
  PROVE  DescribedOnce(s)'
<1> DEFINE Recording == {"header", "body", "print", "insert"}
<1>0. /\ CallFits(t) /\ CallFits(t)'
      /\ pc \in [Threads -> Labels] /\ job \in [Threads -> Job \cup {NoJob}]
      /\ outer \in [Threads -> Job \cup {NoJob}] /\ strings \subseteq strings'
  BY FitsMeans, StepCallFits, StepTouches DEF TypeOK, StringInsert
<1>1. ASSUME NEW f \in Descriptions(s)', f \notin Descriptions(s)
      PROVE  /\ Descriptions(s) = {} /\ f = claim'[t]
             /\ DescribesString(t, s)' /\ pc'[t] = "header"
  <2>1. /\ pc[t] = "reserve" /\ pc'[t] = "header" /\ f = claim'[t]
        /\ Describes(job[t]) /\ job[t].arg = s /\ job'[t] = job[t] /\ outer'[t] = outer[t]
    BY <1>1, NewDescription
  <2>2. DescribesString(t, s) /\ Nested(t) /\ DescribesString(t, s)'
    BY <1>0, <2>1 DEF CallFits, CallOK, DescribesString, Nested
  <2>3. string_lock = t /\ s \notin strings
    BY <2>2 DEF StringsLocked
  <2>4. ASSUME NEW g \in Descriptions(s) PROVE FALSE
    <3>1. PICK u \in Threads : DescribesString(u, s) /\ pc[u] \in Recording
      BY <2>3 DEF DescribedOnce
    <3>2. u = t
      BY <2>3, <3>1 DEF StringsLocked
    <3> QED
      BY <2>1, <3>1, <3>2
  <2> QED
    BY <2>1, <2>2, <2>4
<1>2. \A f, g \in Descriptions(s)' : f = g
  BY <1>1 DEF DescribedOnce
<1>3. ASSUME NEW f \in Descriptions(s)', s \notin strings'
      PROVE  \E u \in Threads : DescribesString(u, s)' /\ pc'[u] \in Recording
  <2>1. CASE f \notin Descriptions(s)
    BY <1>1, <2>1
  <2>2. CASE f \in Descriptions(s)
    <3>1. PICK u \in Threads : DescribesString(u, s) /\ pc[u] \in Recording
      BY <1>0, <1>3, <2>2 DEF DescribedOnce
    <3>2. CASE u # t
      BY <3>1, <3>2, OneMoves DEF DescribesString, Nested
    <3>3. ASSUME u = t, Keeps(t) PROVE DescribesString(t, s)' /\ pc'[t] \in Recording
      <4>1. ~(StringInsert(t) \/ LocationInsert(t) \/ SchemaInsert(t))
        BY <1>3, <3>1, <3>3 DEF StringInsert, LocationInsert, SchemaInsert, DescribesString
      <4>2. pc[t] # "insert" /\ pc'[t] \in Recording
        BY <3>1, <3>3, <4>1, StepRecord
      <4> QED
        BY <3>1, <3>3, <4>2 DEF Keeps, DescribesString, Nested
    <3>4. CASE u = t /\ (Starts(t) \/ Opens(t))
      BY <3>1, <3>4 DEF Starts, Opens, DescribesString, Nested
    <3>5. CASE u = t /\ Return(t)
      <4>1. pc[t] = "print" /\ Nested(t) /\ job[t].arg = s
        BY <3>1, <3>5 DEF Return, At, DescribesString
      <4>2. job'[t] = outer[t] /\ outer[t].arg = s /\ pc'[t] = "insert"
        BY <1>0, <3>5, <4>1 DEF Return, Goto, CallFits, CallOK, Nested
      <4> QED
        BY <4>2 DEF DescribesString
    <3> QED
      BY <3>2, <3>3, <3>4, <3>5, StepCalls
  <2> QED
    BY <2>1, <2>2
<1> QED
  BY <1>2, <1>3 DEF DescribedOnce

----------------------------------------------------------------------------
(* Indexes.                                                                *)

(* The one step that gives a location an index takes it from ctr.          *)
LEMMA StepHas ==
  ASSUME TypeOK, Control, Rooms, Bodies, NEW t \in Threads, Step(t),
         NEW l \in Locations, NEW v \in Nat, Has(l, v)'
  PROVE  Has(l, v) \/ (LocationIndex(t) /\ job[t].arg = l /\ v = ctr)
<1>0. /\ CallFits(t) /\ CallFits(t)'
      /\ job \in [Threads -> Job \cup {NoJob}] /\ outer \in [Threads -> Job \cup {NoJob}]
      /\ locations \in [Locations -> Nat \cup {NoIndex}]
  BY FitsMeans, StepCallFits DEF TypeOK
<1>1. CASE locations'[l] = v
  <2>1. CASE LocationInsert(t)
    BY <1>0, <1>1, <2>1 DEF LocationInsert, Has, Calling, CallFits, CallOK, At
  <2>2. CASE ~LocationInsert(t)
    BY <1>1, <2>2, StepTouches DEF Has
  <2> QED
    BY <2>1, <2>2
<1>2. ASSUME NEW u \in Threads, Calling(u)', job'[u].arg = l, job'[u].val = v
      PROVE  Has(l, v) \/ (LocationIndex(t) /\ job[t].arg = l /\ v = ctr)
  <2>1. CASE u # t
    BY <1>2, <2>1, OneMoves DEF Has, Calling
  <2>2. CASE u = t /\ Keeps(t)
    BY <1>2, <2>2 DEF Keeps, Has, Calling
  <2>3. CASE u = t /\ Starts(t)
    BY <1>2, <2>3 DEF Starts
  <2>4. CASE u = t /\ Opens(t)
    BY <1>2, <2>4 DEF Opens
  <2>5. CASE u = t /\ Return(t)
    <3>1. job'[t] = outer[t] /\ outer[t] # NoJob /\ job[t] # NoJob
      BY <1>0, <1>2, <2>5 DEF Return, Calling, CallFits, At
    <3>2. job[t].arg = l /\ job[t].val = v
      BY <1>0, <1>2, <2>5, <3>1 DEF CallFits, CallOK
    <3> QED
      BY <3>1, <3>2 DEF Has, Calling
  <2> QED
    BY <2>1, <2>2, <2>3, <2>4, <2>5, StepCalls
<1>3. ASSUME NEW d \in Written', Defines(d, l), d.val = v
      PROVE  Has(l, v)
  <2>1. CASE d \in Written
    BY <1>3, <2>1 DEF Has
  <2>2. CASE d \notin Written
    <3>1. Body(t)
      BY <1>3, <2>2, StepWritten
    <3>2. PICK f \in frames :
            Written' = Written \cup
              {[off |-> f.off, end |-> Buf!End(f), msg |-> job[t].msg, arg |-> job[t].arg,
                val |-> IF ~Describes(job[t]) /\ job[t].arg \in Locations
                          THEN locations[job[t].arg] ELSE job[t].val]}
      BY <3>1, BodyWrites
    <3>3. d.msg = job[t].msg /\ d.arg = job[t].arg /\ Describes(job[t]) /\ d.val = job[t].val
      BY <1>3, <2>2, <3>2 DEF Defines, Describes
    <3>4. Calling(t)
      BY <1>0, <3>1 DEF Body, At, Calling, CallFits
    <3> QED
      BY <1>3, <3>3, <3>4 DEF Has, Defines
  <2> QED
    BY <2>1, <2>2
<1> QED
  BY <1>1, <1>2, <1>3 DEF Has, Defines

(* An index is above all that were given before it.                        *)
LEMMA StepIndexOK ==
  ASSUME TypeOK, Control, Rooms, Bodies, IndexOK, NEW t \in Threads, Step(t)
  PROVE  IndexOK'
<1>1. ctr \in Nat /\ ctr' = IF LocationIndex(t) THEN ctr + 1 ELSE ctr
  BY StepTouches DEF TypeOK, LocationIndex
<1>2. ASSUME NEW l \in Locations, NEW v \in Nat, Has(l, v)'
      PROVE  v < ctr'
  BY <1>1, <1>2, StepHas DEF IndexOK
<1>3. ASSUME NEW l \in Locations, NEW k \in Locations, NEW v \in Nat, Has(l, v)', Has(k, v)'
      PROVE  k = l
  <2>1. /\ Has(l, v) \/ (LocationIndex(t) /\ job[t].arg = l /\ v = ctr)
        /\ Has(k, v) \/ (LocationIndex(t) /\ job[t].arg = k /\ v = ctr)
    BY <1>3, StepHas
  <2>2. (Has(l, v) \/ Has(k, v)) => v < ctr
    BY DEF IndexOK
  <2> QED
    BY <1>1, <2>1, <2>2 DEF IndexOK
<1> QED
  BY <1>2, <1>3 DEF IndexOK

----------------------------------------------------------------------------
(* References.                                                             *)

(* The record a writing pass completes.                                    *)
LEMMA StepRecordWritten ==
  ASSUME TypeOK, Control, Rooms, Bodies, NEW t \in Threads, Step(t),
         NEW r \in Written', r \notin Written
  PROVE  /\ Body(t) /\ r.msg = job[t].msg /\ r.arg = job[t].arg
         /\ r.val = IF ~Describes(job[t]) /\ job[t].arg \in Locations
                      THEN locations[job[t].arg] ELSE job[t].val
<1>1. Body(t)
  BY StepWritten
<1>2. PICK f \in frames :
        Written' = Written \cup
          {[off |-> f.off, end |-> Buf!End(f), msg |-> job[t].msg, arg |-> job[t].arg,
            val |-> IF ~Describes(job[t]) /\ job[t].arg \in Locations
                      THEN locations[job[t].arg] ELSE job[t].val]}
  BY <1>1, BodyWrites
<1> QED
  BY <1>1, <1>2

(* Nothing that is cached, written or lost is ever forgotten.              *)
LEMMA StepGrows ==
  ASSUME TypeOK, Control, Rooms, Bodies, NEW t \in Threads, Step(t)
  PROVE  /\ Written \subseteq Written' /\ lost \subseteq lost'
         /\ \A x : Cached(x) => Cached(x)' /\ IndexOf(x)' = IndexOf(x)
         /\ \A x, v : Described(x, v) => Described(x, v)'
         /\ \A x, v, off : DescribedBefore(x, v, off) => DescribedBefore(x, v, off)'
<1>1. Written \subseteq Written'
  <2>1. CASE Body(t)
    BY <2>1, BodyWrites
  <2>2. CASE ~Body(t)
    BY <2>2, StepWritten
  <2> QED
    BY <2>1, <2>2
<1>2. lost \subseteq lost'
  BY StepTouches DEF Reserve
<1>3. strings \subseteq strings' /\ schemas \subseteq schemas'
  BY StepTouches DEF StringInsert, SchemaInsert
<1>4. ASSUME NEW l \in Locations, locations[l] # NoIndex
      PROVE  locations'[l] = locations[l]
  <2>1. locations \in [Locations -> Nat \cup {NoIndex}]
    BY DEF TypeOK
  <2> QED
    BY <1>4, <2>1, StepTouches DEF LocationInsert
<1>5. strings \cap Locations = {} /\ schemas \cap Locations = {}
  BY DEF TypeOK
<1> QED
  BY <1>1, <1>2, <1>3, <1>4, <1>5
     DEF Cached, IndexOf, Described, DescribedBefore, Defines

(* A record of the log is in a piece of it.                                *)
LEMMA RecordOfPiece ==
  ASSUME NEW r \in Written
  PROVE  \E f \in Buf!Pieces : /\ f.tag.part = "record" /\ r.off = f.off /\ r.end = Buf!End(f)
                               /\ r.msg = f.tag.msg /\ r.arg = f.tag.arg
BY WrittenFrom DEF Record, Buf!Pieces

(* A number in a record is the cached one.                                 *)
LEMMA StepWrittenOK ==
  ASSUME TypeOK, Control, Rooms, Bodies, WrittenOK, UsesResolve, NEW t \in Threads, Step(t)
  PROVE  WrittenOK'
<1>0. CallFits(t)
  BY FitsMeans
<1>1. ASSUME NEW r \in Written
      PROVE  /\ r.msg \in UserMessages => r.val = IndexOf(r.arg)'
             /\ r.msg \notin UserMessages /\ r.arg \in Locations => r.val # NoIndex
  <2>1. CASE r.msg \in UserMessages /\ r.arg \in Locations
    <3>1. PICK f \in Buf!Pieces : f.tag.part = "record" /\ r.msg = f.tag.msg /\ r.arg = f.tag.arg
      BY RecordOfPiece
    <3>2. Cached(r.arg)
      BY <2>1, <3>1 DEF UsesResolve, Numbered
    <3> QED
      BY <2>1, <3>2, StepGrows DEF WrittenOK
  <2>2. CASE r.arg \notin Locations
    BY <2>2 DEF WrittenOK, IndexOf
  <2> QED
    BY <2>1, <2>2 DEF WrittenOK
<1>2. ASSUME NEW r \in Written', r \notin Written
      PROVE  /\ r.msg \in UserMessages => r.val = IndexOf(r.arg)'
             /\ r.msg \notin UserMessages /\ r.arg \in Locations => r.val # NoIndex
  <2>1. /\ Body(t) /\ r.msg = job[t].msg /\ r.arg = job[t].arg
        /\ r.val = IF ~Describes(job[t]) /\ job[t].arg \in Locations
                     THEN locations[job[t].arg] ELSE job[t].val
    BY <1>2, StepRecordWritten
  <2>2. locations' = locations /\ job[t] # NoJob
    BY <1>0, <2>1 DEF Body, caches, At, CallFits
  <2> QED
    BY <1>0, <2>1, <2>2 DEF CallFits, CallOK, Describes, IndexOf
<1> QED
  BY <1>1, <1>2 DEF WrittenOK

(* What a thread needs to reserve, to return and to insert it has when it  *)
(* gets there.                                                             *)
LEMMA StepReady ==
  ASSUME TypeOK, Control, Rooms, Bodies, NEW t \in Threads, Step(t), Ready(t)
  PROVE  Ready(t)'
<1>0. /\ CallFits(t) /\ CallFits(t)'
      /\ pc \in [Threads -> Labels] /\ job \in [Threads -> Job \cup {NoJob}]
      /\ outer \in [Threads -> Job \cup {NoJob}]
      /\ locations \in [Locations -> Nat \cup {NoIndex}]
      /\ Plain \notin Numbered /\ Nodes \cap Numbered = {}
  BY FitsMeans, StepCallFits DEF TypeOK, Numbered, Things
<1>1. CASE Starts(t) \/ Opens(t)
  BY <1>1 DEF Starts, Opens, Ready
<1>2. CASE Return(t)
  <2>1. CASE outer[t] = NoJob
    BY <1>0, <1>2, <2>1 DEF Return, Goto, Ready
  <2>2. CASE outer[t] # NoJob
    <3>1. /\ pc[t] = "print" /\ job'[t] = outer[t] /\ outer[t].arg = job[t].arg
          /\ outer[t].val = job[t].val /\ Describes(job[t])
          /\ pc'[t] = IF outer[t].arg \in Nodes THEN "reserve" ELSE "insert"
      BY <1>0, <1>2, <2>2 DEF Return, Goto, At, CallFits, CallOK
    <3>2. PICK x, v : x = job[t].arg /\ v = job[t].val
      OBVIOUS
    <3>3. x \in lost' \/ Described(x, v)'
      BY <3>1, <3>2, StepGrows DEF Ready
    <3> QED
      BY <1>0, <3>1, <3>2, <3>3 DEF Ready, Described, Defines
  <2> QED
    BY <2>1, <2>2
<1>3. CASE Keeps(t)
  <2>0. PICK x, v : x = job[t].arg /\ v = job[t].val
    OBVIOUS
  <2>1. /\ job'[t].arg = x /\ job'[t].val = v
        /\ Describes(job'[t]) <=> Describes(job[t])
    BY <1>3, <2>0 DEF Keeps, Describes
  <2>2. ASSUME pc'[t] \in {"reserve", "header", "body"}, ~Describes(job[t]), x \in Numbered
        PROVE  Cached(x)'
    <3>1. CASE Cached(x)
      BY <3>1, StepGrows
    <3>2. CASE StringInsert(t) \/ LocationInsert(t) \/ SchemaInsert(t)
      BY <1>0, <2>0, <3>2
         DEF StringInsert, LocationInsert, SchemaInsert, Cached, CallFits, CallOK, At
    <3>3. CASE ~(StringInsert(t) \/ LocationInsert(t) \/ SchemaInsert(t))
      <4>1. pc[t] \in {"reserve", "header", "body"} \/ Cached(x)
        BY <1>0, <1>3, <2>0, <2>2, <3>3
           DEF Step, Proceed, Call, CheckInfo, InfoReserve, InfoHeader, InfoCopy, InfoFlag,
               MeasurePlain, StringLookup, StringLock, LocationLookup, LocationIndex,
               SchemaLookup, NodeExchange, Reserve, Header, BufferFull, Body, Return, Fatal,
               Abort, Describe, At, Goto, Cached, Keeps
      <4> QED
        BY <2>0, <2>2, <3>1, <4>1 DEF Ready
    <3> QED
      BY <3>2, <3>3
  <2>3. ASSUME pc'[t] = "print", Describes(job[t])
        PROVE  x \in lost' \/ Described(x, v)'
    <3>1. CASE Body(t)
      <4>1. PICK f \in frames :
              Written' = Written \cup
                {[off |-> f.off, end |-> Buf!End(f), msg |-> job[t].msg, arg |-> job[t].arg,
                  val |-> IF ~Describes(job[t]) /\ job[t].arg \in Locations
                            THEN locations[job[t].arg] ELSE job[t].val]}
        BY <3>1, BodyWrites
      <4> DEFINE d == [off |-> f.off, end |-> Buf!End(f), msg |-> job[t].msg,
                       arg |-> x, val |-> v]
      <4>2. d \in Written' /\ d.msg = job[t].msg /\ d.arg = x /\ d.val = v
        BY <2>0, <2>3, <4>1
      <4> QED
        BY <2>3, <4>2 DEF Described, Defines, Describes
    <3>2. CASE Reserve(t)
      BY <1>0, <2>0, <2>3, <3>2 DEF Reserve, Goto
    <3>3. CASE ~Body(t) /\ ~Reserve(t)
      <4>1. pc[t] = "print"
        BY <1>0, <1>3, <2>3, <3>3
           DEF Step, Proceed, Call, CheckInfo, InfoReserve, InfoHeader, InfoCopy, InfoFlag,
               MeasurePlain, StringLookup, StringLock, LocationLookup, LocationIndex,
               SchemaLookup, NodeExchange, Header, BufferFull, Return, Fatal, StringInsert,
               LocationInsert, SchemaInsert, Abort, Describe, At, Goto
      <4> QED
        BY <2>0, <2>3, <4>1, StepGrows DEF Ready
    <3> QED
      BY <3>1, <3>2, <3>3
  <2>4. pc'[t] # "insert"
    BY <1>3, StepInsert
  <2> QED
    BY <2>0, <2>1, <2>2, <2>3, <2>4 DEF Ready, Cached, Described, Defines
<1> QED
  BY <1>1, <1>2, <1>3, StepCalls

(* A cache takes what is described.                                        *)
LEMMA StepCacheDescribed ==
  ASSUME TypeOK, Control, Rooms, Bodies, CallsCached, CacheDescribed,
         NEW t \in Threads, Step(t)
  PROVE  CacheDescribed'
<1>0. CallFits(t) /\ locations \in [Locations -> Nat \cup {NoIndex}]
  BY FitsMeans DEF TypeOK
<1>1. ASSUME NEW x \in Numbered, Cached(x)'
      PROVE  x \in lost' \/ Described(x, IndexOf(x))'
  <2>1. CASE Cached(x)
    <3>1. PICK v : v = IndexOf(x)
      OBVIOUS
    <3>2. x \in lost' \/ Described(x, v)'
      BY <2>1, <3>1, StepGrows DEF CacheDescribed
    <3>3. IndexOf(x)' = v
      BY <2>1, <3>1, StepGrows
    <3> QED
      BY <3>2, <3>3 DEF Described, Defines
  <2>2. CASE ~Cached(x)
    <3>1. /\ StringInsert(t) \/ LocationInsert(t) \/ SchemaInsert(t)
          /\ x = job[t].arg /\ (x \in Locations => LocationInsert(t))
      <4>1. CASE strings' = strings /\ schemas' = schemas /\ locations' = locations
        BY <1>1, <2>2, <4>1 DEF Cached
      <4>2. CASE StringInsert(t) \/ LocationInsert(t) \/ SchemaInsert(t)
        BY <1>0, <1>1, <2>2, <4>2
           DEF StringInsert, LocationInsert, SchemaInsert, Cached, TypeOK
      <4> QED
        BY <4>1, <4>2, StepTouches
    <3>2. PICK v : v = job[t].val
      OBVIOUS
    <3>3. /\ pc[t] = "insert" /\ job[t] # NoJob /\ (x \in lost \/ Described(x, v))
      BY <1>0, <3>1, <3>2
         DEF StringInsert, LocationInsert, SchemaInsert, At, CallsCached, Ready, CallFits
    <3>4. x \in lost' \/ Described(x, v)'
      BY <3>3, StepGrows
    <3>5. IndexOf(x)' = v
      <4>1. CASE x \in Locations
        BY <1>0, <2>2, <3>1, <3>2, <4>1 DEF LocationInsert, IndexOf, Cached
      <4>2. CASE x \notin Locations
        BY <1>0, <3>1, <3>2, <3>3, <4>2 DEF CallFits, CallOK, IndexOf
      <4> QED
        BY <4>1, <4>2
    <3> QED
      BY <3>4, <3>5 DEF Described, Defines
  <2> QED
    BY <2>1, <2>2
<1> QED
  BY <1>1 DEF CacheDescribed

(* Room for a use is reserved behind the description.                      *)
LEMMA StepUsesResolve ==
  ASSUME TypeOK, Control, Rooms, Bodies, CallsCached, CacheDescribed, UsesResolve,
         NEW t \in Threads, Step(t)
  PROVE  UsesResolve'
<1>1. ASSUME NEW x \in Numbered, NEW off, Cached(x),
             x \in lost \/ DescribedBefore(x, IndexOf(x), off)
      PROVE  Cached(x)' /\ (x \in lost' \/ DescribedBefore(x, IndexOf(x), off)')
  <2>1. PICK v : v = IndexOf(x)
    OBVIOUS
  <2>2. IndexOf(x)' = v /\ Cached(x)' /\ (x \in lost' \/ DescribedBefore(x, v, off)')
    BY <1>1, <2>1, StepGrows
  <2> QED
    BY <2>2 DEF DescribedBefore, Defines
<1>2. ASSUME NEW p \in Buf!Pieces, NEW x \in Numbered,
             p.tag.part = "record", p.tag.msg \in UserMessages, p.tag.arg = x
      PROVE  Cached(x)' /\ (x \in lost' \/ DescribedBefore(x, IndexOf(x), p.off)')
  BY <1>1, <1>2 DEF UsesResolve
<1>3. CASE InfoReserve(t) /\ mapped
  BY <1>2, <1>3, ReservesInfo DEF UsesResolve
<1>4. CASE Reserve(t) /\ mapped
  <2>1. PICK new : new = claim'[t]
    OBVIOUS
  <2>2. /\ new.tag.msg = job[t].msg /\ new.tag.arg = job[t].arg
        /\ Buf!Pieces' = Buf!Pieces \cup {new}
        /\ \A f \in Buf!Pieces : Buf!End(f) <= new.off
    BY <1>4, <2>1, ReservesRecord
  <2>3. ASSUME NEW x \in Numbered, new.tag.msg \in UserMessages, new.tag.arg = x
        PROVE  Cached(x)' /\ (x \in lost' \/ DescribedBefore(x, IndexOf(x), new.off)')
    <3>1. Cached(x)
      BY <1>4, <2>2, <2>3 DEF Reserve, At, CallsCached, Ready, Describes
    <3>2. CASE x \in lost
      BY <1>1, <3>1, <3>2
    <3>3. CASE x \notin lost
      <4>1. PICK d \in Written : Defines(d, x) /\ d.val = IndexOf(x)
        BY <3>1, <3>3 DEF CacheDescribed, Described
      <4>2. d.end <= new.off
        BY <2>2, RecordOfPiece
      <4>3. DescribedBefore(x, IndexOf(x), new.off)
        BY <4>1, <4>2 DEF DescribedBefore
      <4> QED
        BY <1>1, <3>1, <4>3
    <3> QED
      BY <3>2, <3>3
  <2> QED
    BY <1>2, <2>2, <2>3 DEF UsesResolve
<1>5. CASE Buf!Pieces' = Buf!Pieces
  BY <1>2, <1>5 DEF UsesResolve
<1> QED
  BY <1>3, <1>4, <1>5, StepRooms

----------------------------------------------------------------------------
(* The invariant.                                                          *)

(* At first nothing is written, cached or described.                       *)
LEMMA InitIInv == Init => IInv
<1> SUFFICES ASSUME Init PROVE IInv
  OBVIOUS
<1>1. /\ content_length = 2 /\ frames = {} /\ body = {} /\ has_info = {} /\ strings = {}
      /\ schemas = {} /\ ctr = 0 /\ mapped = FALSE
      /\ \A t \in Threads : /\ claim[t] = NoClaim /\ pc[t] = "idle"
                            /\ job[t] = NoJob /\ outer[t] = NoJob
      /\ \A l \in Locations : locations[l] = NoIndex
  BY DEF Init, Buf!Init, Buf!HeaderWords
<1>2. TypeOK /\ Control
  BY InitControl
<1>3. Buf!Pieces = {} /\ Written = {}
  BY <1>1 DEF Buf!Pieces, Buf!ClaimedBy, Written
<1>4. Rooms /\ Bodies /\ InfoKnown
  BY <1>1 DEF Rooms, Bodies, InfoKnown, Claims, Nested, InInfo, BeforeInfo
<1>5. ASSUME NEW m \in AllMessages PROVE InfosOK(m)
  <2>1. Infos(m) = {} /\ Entering(m) = {} /\ Flagging(m) = {}
    BY <1>1, <1>3 DEF Infos, Entering, Flagging
  <2>2. IsFiniteSet({}) /\ Cardinality({}) = 0
    BY FS_EmptySet
  <2> QED
    BY <1>1, <2>1, <2>2 DEF InfosOK
<1>6. StringsLocked /\ StringsOnce
  BY <1>1, <1>3
     DEF StringsLocked, StringsOnce, DescribedOnce, Descriptions, DescribesString, Nested
<1>7. IndexOK
  BY <1>1, <1>3 DEF IndexOK, Has, Calling
<1>8. WrittenOK /\ CallsCached /\ CacheDescribed /\ UsesResolve
  BY <1>1, <1>3 DEF WrittenOK, CallsCached, Ready, CacheDescribed, UsesResolve, Cached
<1> QED
  BY <1>2, <1>4, <1>5, <1>6, <1>7, <1>8 DEF IInv, InfosCounted

(* Mapping the buffer and the end of the process change none of it.        *)
LEMMA OtherStepsIInv ==
  ASSUME IInv, InitLog \/ Stop \/ UNCHANGED vars, TypeOK', Control'
  PROVE  IInv'
<1> USE DEF IInv
<1>1. /\ UNCHANGED <<claim, frames, pc, job, outer, has_info, caches, body, calls, lost>>
      /\ UNCHANGED content_length /\ (mapped => mapped')
  BY OtherSteps
<1>2. /\ UNCHANGED <<has_info, strings, string_lock, locations, ctr, schemas, lost>>
      /\ UNCHANGED <<claim, frames, pc, job, outer, body>>
  BY <1>1 DEF caches
<1>3. Rooms' /\ Buf!Pieces' = Buf!Pieces
  BY <1>1, RoomsSame
<1>4. Written' = Written
  BY <1>2 DEF Written, Record, Buf!End
<1>5. Bodies' /\ InfoKnown'
  BY <1>2 DEF Bodies, FrameOf, InfoKnown, HasInfo, Nested
<1>6. InfosCounted'
  <2>1. ASSUME NEW m PROVE /\ Infos(m)' = Infos(m) /\ Entering(m)' = Entering(m)
                           /\ Flagging(m)' = Flagging(m)
    BY <1>2, <1>3 DEF Infos, Entering, Flagging
  <2> QED
    BY <1>2, <2>1 DEF InfosCounted, InfosOK
<1>7. StringsLocked' /\ StringsOnce'
  BY <1>2, <1>3
     DEF StringsLocked, StringsOnce, DescribedOnce, Descriptions, DescribesString, Nested
<1>8. IndexOK'
  BY <1>2, <1>4 DEF IndexOK, Has, Calling, Defines
<1>9. WrittenOK' /\ CallsCached' /\ CacheDescribed' /\ UsesResolve'
  BY <1>2, <1>3, <1>4
     DEF WrittenOK, CallsCached, Ready, CacheDescribed, UsesResolve, Cached, IndexOf,
         Described, DescribedBefore, Defines, Describes
<1> QED
  BY <1>3, <1>5, <1>6, <1>7, <1>8, <1>9

(* The invariant is inductive.                                             *)
LEMMA NextIInv == IInv /\ [Next]_vars => IInv'
<1> SUFFICES ASSUME IInv, [Next]_vars PROVE IInv'
  OBVIOUS
<1>1. TypeOK' /\ Control'
  BY NextControl DEF IInv
<1>2. CASE InitLog \/ Stop \/ UNCHANGED vars
  BY <1>1, <1>2, OtherStepsIInv
<1>3. ASSUME NEW t \in Threads, Step(t) PROVE IInv'
  <2> USE DEF IInv
  <2>1. Rooms' /\ Bodies' /\ InfoKnown'
    BY <1>3, StepRooms, StepBodies, StepInfoKnown
  <2>2. InfosCounted'
    BY <1>3, StepInfos DEF InfosCounted
  <2>3. StringsLocked' /\ StringsOnce'
    BY <1>3, StepStringsLocked, StepStringsOnce DEF StringsOnce
  <2>4. IndexOK'
    BY <1>3, StepIndexOK
  <2>5. WrittenOK' /\ CacheDescribed' /\ UsesResolve'
    BY <1>3, StepWrittenOK, StepCacheDescribed, StepUsesResolve
  <2>6. CallsCached'
    <3>1. ASSUME NEW u \in Threads \ {t} PROVE Ready(u)'
      <4>1. PICK x, v : x = job[u].arg /\ v = job[u].val
        OBVIOUS
      <4>2. /\ Ready(u) /\ pc'[u] = pc[u] /\ job'[u] = job[u]
            /\ Cached(x) => Cached(x)'
            /\ x \in lost \/ Described(x, v) => x \in lost' \/ Described(x, v)'
        BY <1>3, OneMoves, StepGrows DEF CallsCached
      <4> QED
        BY <4>1, <4>2 DEF Ready, Cached, Described, Defines, Describes
    <3>2. Ready(t)'
      BY <1>3, StepReady DEF CallsCached
    <3> QED
      BY <3>1, <3>2 DEF CallsCached
  <2> QED
    BY <1>1, <2>1, <2>2, <2>3, <2>4, <2>5, <2>6
<1> QED
  BY <1>2, <1>3 DEF Next, Step

(* The invariant of the pipeline.                                          *)
THEOREM Invariance == Spec => []IInv
<1> QED
  BY InitIInv, NextIInv, PTL DEF Spec

----------------------------------------------------------------------------
(* The properties of LogPipeline.                                          *)

(* The type invariant: whatever threads call do_log() with, a thread is in *)
(* a call exactly when it is not idle and only descriptions are nested.    *)
THEOREM TypeCorrect == Spec => []TypeOK
<1>1. IInv => TypeOK
  BY DEF IInv
<1> QED
  BY <1>1, Invariance, PTL

(* The pipeline uses the log buffer as LogBuffer specifies it: refinement. *)
THEOREM BufferIsUsed == Spec => BufferUsed
<1>1. Init => Buf!Init
  BY DEF Init
<1>2. IInv /\ [Next]_vars => [Buf!Next]_(Buf!vars)
  <2> SUFFICES ASSUME IInv, [Next]_vars PROVE [Buf!Next]_(Buf!vars)
    OBVIOUS
  <2>1. ASSUME NEW t \in Threads, Step(t) PROVE [Buf!Next]_(Buf!vars)
    BY <2>1, FitsMeans, StepBuffer DEF IInv
  <2>2. CASE InitLog \/ Stop \/ UNCHANGED vars
    BY <2>2, OtherSteps DEF IInv
  <2> QED
    BY <2>1, <2>2 DEF Next, Step
<1> QED
  BY <1>1, <1>2, Invariance, PTL DEF Spec, BufferUsed, Buf!Spec

(* No room is reserved for a record before the header of an info frame of  *)
(* its message is in the file, but by a call that found no buffer.         *)
THEOREM InfoKnownBeforeUse == Spec => InfoBeforeUse
<1> DEFINE Reserving(t) ==
      claim'[t] # claim[t] /\ claim'[t] # NoClaim /\ ~job[t].blind
    => LET tag == claim'[t].tag IN
       tag.part = "record" =>
         \E f \in frames : f.tag.part = "info" /\ f.tag.msg = tag.msg
<1>1. ASSUME IInv, [Next]_vars, NEW t \in Threads PROVE Reserving(t)
  <2> USE <1>1 DEF IInv
  <2>1. ASSUME NEW u \in Threads \ {t}, Step(u) PROVE claim'[t] = claim[t]
    BY <2>1, OneMoves
  <2>2. CASE InfoReserve(t) /\ mapped
    BY <2>2, ReservesInfo
  <2>3. CASE Reserve(t) /\ mapped
    <3>1. ~job[t].blind => HasInfo(frames, job[t].msg)
      BY <2>3 DEF Reserve, At, InfoKnown, BeforeInfo
    <3> QED
      BY <2>3, <3>1, ReservesRecord DEF HasInfo
  <2>4. CASE InfoHeader(t) \/ Header(t)
    BY <2>4, Constructs DEF InfoHeader, Header
  <2>5. CASE Step(t)
    BY <2>2, <2>3, <2>4, <2>5, StepRooms
  <2>6. CASE InitLog \/ Stop \/ UNCHANGED vars
    BY <2>6, OtherSteps
  <2> QED
    BY <1>1, <2>1, <2>5, <2>6 DEF Next, Step
<1>2. IInv /\ [Next]_vars => [\A t \in Threads : Reserving(t)]_vars
  BY <1>1
<1> QED
  BY <1>2, Invariance, PTL DEF Spec, InfoBeforeUse

(* However many threads test has_info before one of them sets it, a        *)
(* message has no more info frames than there are threads.                 *)
THEOREM InfoFramesAreBounded == Spec => []InfoFramesBounded
<1>1. IInv => InfoFramesBounded
  <2> SUFFICES ASSUME IInv, NEW m \in AllMessages
               PROVE  Cardinality(Infos(m)) <= Cardinality(Threads)
    BY DEF InfoFramesBounded, Infos
  <2>1. InfosOK(m) /\ Cardinality(Infos(m)) \in Nat
    BY FS_CardinalityType DEF IInv, InfosCounted, InfosOK
  <2> QED
    BY <2>1, CountThreads DEF InfosOK
<1> QED
  BY <1>1, Invariance, PTL

(* However many threads meet a string first, it is described once.         *)
THEOREM StringsAreDescribedOnce == Spec => []StringsDescribedOnce
<1>1. IInv => StringsDescribedOnce
  <2> SUFFICES ASSUME IInv, NEW s \in Strings PROVE Cardinality(Descriptions(s)) <= 1
    BY DEF StringsDescribedOnce, Descriptions
  <2>1. \A f, g \in Descriptions(s) : f = g
    BY DEF IInv, StringsOnce, DescribedOnce
  <2>2. CASE Descriptions(s) = {}
    BY <2>2, FS_EmptySet
  <2>3. ASSUME NEW f \in Descriptions(s) PROVE Cardinality(Descriptions(s)) <= 1
    <3>1. Descriptions(s) = {f}
      BY <2>1
    <3> QED
      BY SMTT(30), <3>1, FS_Singleton
  <2> QED
    BY <2>2, <2>3
<1> QED
  BY <1>1, Invariance, PTL

(* An index in the log means one location, and all records that use a      *)
(* location have the same index for it.                                    *)
THEOREM IndexesAlwaysAgree == Spec => []IndexesAgree
<1>1. IInv => IndexesAgree
  <2> SUFFICES ASSUME IInv PROVE IndexesAgree
    OBVIOUS
  <2> USE DEF IInv
  <2>1. ASSUME NEW r \in Written, r.arg \in Locations
        PROVE  r.val \in Nat /\ Has(r.arg, r.val)
               /\ (r.msg \in UserMessages => r.val = locations[r.arg])
    <3>1. CASE r.msg \in UserMessages
      <4>1. PICK f \in Buf!Pieces :
              f.tag.part = "record" /\ r.msg = f.tag.msg /\ r.arg = f.tag.arg
        BY RecordOfPiece
      <4>2. Cached(r.arg)
        BY <2>1, <3>1, <4>1 DEF UsesResolve, Numbered
      <4>3. locations[r.arg] \in Nat /\ r.val = locations[r.arg]
        BY <2>1, <3>1, <4>2 DEF Cached, TypeOK, WrittenOK, IndexOf
      <4> QED
        BY <2>1, <4>3 DEF Has
    <3>2. CASE r.msg \notin UserMessages
      <4>1. r.val \in Nat \cup {NoIndex}
        BY WrittenFrom DEF Record, TypeOK
      <4> QED
        BY <2>1, <3>2, <4>1 DEF WrittenOK, Has, Defines
    <3> QED
      BY <3>1, <3>2
  <2> QED
    BY <2>1 DEF IndexesAgree, IndexOK
<1> QED
  BY <1>1, Invariance, PTL

(* A number in a record means something that is described earlier in the   *)
(* file, but for what was described before there was a file.               *)
THEOREM ReferencesAlwaysResolve == Spec => []ReferencesResolve
<1>1. IInv => ReferencesResolve
  <2> SUFFICES ASSUME IInv, NEW x \in Numbered, x \notin lost, NEW r \in Written, Uses(r, x)
               PROVE  \E d \in Written : Defines(d, x) /\ d.end <= r.off /\ d.val = r.val
    BY DEF ReferencesResolve, Numbered
  <2>1. PICK f \in Buf!Pieces :
          f.tag.part = "record" /\ r.off = f.off /\ r.msg = f.tag.msg /\ r.arg = f.tag.arg
    BY RecordOfPiece
  <2>2. DescribedBefore(x, IndexOf(x), r.off)
    BY <2>1 DEF IInv, UsesResolve, Uses
  <2>3. r.val = IndexOf(x)
    BY DEF IInv, WrittenOK, Uses
  <2> QED
    BY <2>2, <2>3 DEF DescribedBefore
<1> QED
  BY <1>1, Invariance, PTL
============================================================================
