---------------------------- MODULE LogPipeline ----------------------------
(***************************************************************************)
(* A logging call from end to end: logger::do_log() of                     *)
(* src/include/nie/log.hpp with the registrations of src/src/log.cpp that  *)
(* its arguments need, run by several threads on the buffer of LogBuffer.  *)
(*                                                                         *)
(* do_log() makes two kinds of frames.  The first use of a message writes  *)
(* an `info' frame with the message's text; every use writes a `record'    *)
(* frame whose payload may refer to something by number: an interned       *)
(* string, a source location, a capnp schema or a node.  What the number   *)
(* means is itself logged, by a call of do_log() made from inside the call *)
(* that needs it.  Such a nested call has only plain arguments (the schema *)
(* of a schema is in register_capnp()'s set from the start), so calls are  *)
(* at most two deep: job[t] is the call thread t executes and outer[t] the *)
(* one waiting for it.                                                     *)
(*                                                                         *)
(* do_log() serialises its arguments twice, to measure and to write.  Only *)
(* the first pass can meet an argument that is not registered.             *)
(***************************************************************************)
EXTENDS Integers, FiniteSets

CONSTANTS
  Threads, Capacity, NoClaim,             \* as in LogBuffer
  Messages,                               \* the program's messages
  FatalMessages,                          \* those logged at level fatal
  FatalArg,                               \* what nie::fatal() itself logs
  Strings, Locations, Schemas, Nodes,     \* arguments with a registration
  Plain,                                  \* any other argument
  InfoWords, RecordWords,                 \* payload sizes
  NoJob, NoIndex, NoThread,
  Programs   \* what programs log: which messages with which arguments;
             \* bound: how often each thread does

Things == Strings \cup Locations \cup Schemas \cup Nodes
Args == Things \cup {Plain}

ASSUME ProgramsAssumption ==
  /\ FatalArg \in Args /\ FatalMessages \subseteq Messages
  /\ Programs \subseteq [logs : SUBSET (Messages \X Args), calls : Nat]

ASSUME ThingsAssumption ==
  /\ Strings \cap (Locations \cup Schemas \cup Nodes) = {}
  /\ Locations \cap (Schemas \cup Nodes) = {} /\ Schemas \cap Nodes = {}
  /\ Plain \notin Things

ASSUME SizesAssumption ==
  InfoWords \in Nat /\ RecordWords \in Nat /\ Capacity \in Nat

ASSUME ThreadsAssumption == IsFiniteSet(Threads) /\ NoThread \notin Threads

VARIABLES
  program,          \* the program that runs
  mapped, content_length, claim, frames, halted,   \* the log buffer
  pc, job, outer,   \* where each thread is, in which call, for which caller
  has_info,         \* the messages whose has_info is set
  strings,          \* register_nie_string(): the set
  string_lock,      \* register_nie_string(): who holds the mutex exclusively
  locations,        \* lookup_source_location(): the map
  ctr,              \* lookup_source_location(): the next index
  schemas,          \* register_capnp(): the set
  logged,           \* the nodes whose `logged' flag is set
  body,             \* the payloads written: [off, val]
  calls,            \* how many calls each thread has made (bound)
  lost              \* things described while there was no buffer (history)

buffer == <<mapped, content_length, claim, frames, halted>>
caches == <<strings, string_lock, locations, ctr, schemas, logged>>
vars == <<program, buffer, pc, job, outer, has_info, caches, body, calls, lost>>

(* The message that describes a thing.                                     *)
Describing(x) ==
  CASE x \in Strings   -> "string_cache"
    [] x \in Locations -> "source_location"
    [] x \in Schemas   -> "capnp"
    [] x \in Nodes     -> "node_handle"

(* nie::fatal() logs a message of its own before it ends the process.      *)
UserMessages == Messages \cup {"fatal"}

AllMessages == UserMessages \cup {Describing(x) : x \in Things}

Tag == [part : {"info", "record"}, msg : AllMessages, arg : Args]

Buf == INSTANCE LogBuffer WITH Tags <- Tag, Sizes <- {InfoWords, RecordWords}

(* The locals of a do_log() call: its message, its argument, the index in  *)
(* its payload, its frame, and whether its info frame found no buffer.     *)
Job == [msg : AllMessages, arg : Args, val : Nat \cup {NoIndex},
        frame : Nat, blind : BOOLEAN]

NewJob(m, x, v) ==
  [msg |-> m, arg |-> x, val |-> v, frame |-> 0, blind |-> FALSE]

Describes(j) == j.msg \notin UserMessages

ASSUME MessagesAssumption ==
  Messages \cap {"fatal", "string_cache", "source_location", "capnp", "node_handle"} = {}

ASSUME NothingAssumption ==
  NoIndex \notin Nat /\ NoJob \notin Job /\ NoClaim \notin Buf!Frame

Init ==
  /\ program \in Programs
  /\ Buf!Init
  /\ pc = [t \in Threads |-> "idle"]
  /\ job = [t \in Threads |-> NoJob]
  /\ outer = [t \in Threads |-> NoJob]
  /\ has_info = {} /\ strings = {} /\ schemas = {} /\ logged = {}
  /\ string_lock = NoThread
  /\ locations = [l \in Locations |-> NoIndex]
  /\ ctr = 0
  /\ body = {} /\ lost = {}
  /\ calls = [t \in Threads |-> 0]

At(t, label) == ~halted /\ pc[t] = label
Goto(t, label) == pc' = [pc EXCEPT ![t] = label]

----------------------------------------------------------------------------
(* init_log() and the end of the process.                                  *)

(* Mutant: the buffer is mapped again, without assert(!output).            *)
InitLogAgain ==
  /\ ~halted
  /\ mapped' = TRUE /\ content_length' = Buf!HeaderWords
  /\ UNCHANGED <<claim, frames, halted>>
  /\ UNCHANGED <<pc, job, outer, has_info, caches, body, calls, lost>>

InitLog ==
  /\ Buf!InitLog
  /\ UNCHANGED <<pc, job, outer, has_info, caches, body, calls, lost>>

Stop ==
  /\ Buf!InitLogFails \/ Buf!Kill
  /\ UNCHANGED <<pc, job, outer, has_info, caches, body, calls, lost>>

----------------------------------------------------------------------------
(* The info frame.                                                         *)

Call(t, m, x) ==
  /\ At(t, "idle") /\ Goto(t, "check")
  /\ <<m, x>> \in program.logs /\ calls[t] < program.calls
  /\ calls' = [calls EXCEPT ![t] = @ + 1]
  /\ job' = [job EXCEPT ![t] = NewJob(m, x, NoIndex)]
  /\ UNCHANGED <<buffer, outer, has_info, caches, body, lost>>

(* Mutant: has_info is never looked at.                                    *)
CheckNothing(t) ==
  /\ At(t, "check") /\ Goto(t, "info")
  /\ UNCHANGED <<buffer, job, outer, has_info, caches, body, calls, lost>>

(* if (!msg::has_info): read without a lock, so several threads can pass.  *)
CheckInfo(t) ==
  /\ At(t, "check")
  /\ Goto(t, IF job[t].msg \in has_info THEN "measure" ELSE "info")
  /\ UNCHANGED <<buffer, job, outer, has_info, caches, body, calls, lost>>

(* Mutant: has_info is set before the frame is asked for.                  *)
InfoReserveAfterFlag(t) ==
  /\ At(t, "info")
  /\ has_info' = has_info \cup {job[t].msg}
  /\ IF mapped
       THEN /\ Buf!FetchAdd(t, InfoWords,
                 [part |-> "info", msg |-> job[t].msg, arg |-> Plain])
            /\ Goto(t, "info_header") /\ UNCHANGED job
       ELSE /\ Goto(t, "measure") /\ UNCHANGED buffer
            /\ job' = [job EXCEPT ![t].blind = TRUE]
  /\ UNCHANGED <<outer, caches, body, calls, lost>>

InfoReserve(t) ==
  /\ At(t, "info")
  /\ IF mapped
       THEN /\ Buf!FetchAdd(t, InfoWords,
                 [part |-> "info", msg |-> job[t].msg, arg |-> Plain])
            /\ Goto(t, "info_header") /\ UNCHANGED job
       ELSE /\ Goto(t, "measure") /\ UNCHANGED buffer
            /\ job' = [job EXCEPT ![t].blind = TRUE]
  /\ UNCHANGED <<outer, has_info, caches, body, calls, lost>>

InfoHeader(t) ==
  /\ At(t, "info_header") /\ Goto(t, "info_body")
  /\ Buf!Construct(t)
  /\ job' = [job EXCEPT ![t].frame = claim[t].off]
  /\ UNCHANGED <<outer, has_info, caches, body, calls, lost>>

(* The memcpy of the text and has_info = true are plain stores to          *)
(* unrelated memory: the build may make them in either order.              *)
InfoCopy(t) ==
  /\ \/ At(t, "info_body") /\ Goto(t, "info_flag")
     \/ At(t, "info_copy") /\ Goto(t, "measure")
  /\ body' = body \cup {[off |-> job[t].frame, val |-> NoIndex]}
  /\ UNCHANGED <<buffer, job, outer, has_info, caches, calls, lost>>

InfoFlag(t) ==
  /\ \/ At(t, "info_body") /\ Goto(t, "info_copy")
     \/ At(t, "info_flag") /\ Goto(t, "measure")
  /\ has_info' = has_info \cup {job[t].msg}
  /\ UNCHANGED <<buffer, job, outer, caches, body, calls, lost>>

----------------------------------------------------------------------------
(* The measuring pass, and the registrations made from it.                 *)

(* The call waits while do_log() describes its argument, with index v.     *)
Describe(t, v) ==
  /\ outer' = [outer EXCEPT ![t] = [job[t] EXCEPT !.val = v]]
  /\ job' = [job EXCEPT ![t] = NewJob(Describing(job[t].arg), job[t].arg, v)]
  /\ Goto(t, "check")

MeasurePlain(t) ==
  /\ At(t, "measure") /\ Goto(t, "reserve")
  /\ job[t].arg = Plain \/ Describes(job[t])
  /\ UNCHANGED <<buffer, job, outer, has_info, caches, body, calls, lost>>

(* register_nie_string(): the lookup under the shared lock ...             *)
StringLookup(t) ==
  /\ At(t, "measure") /\ ~Describes(job[t]) /\ job[t].arg \in Strings
  /\ string_lock = NoThread
  /\ Goto(t, IF job[t].arg \in strings THEN "reserve" ELSE "lock")
  /\ UNCHANGED <<buffer, job, outer, has_info, caches, body, calls, lost>>

(* Mutant: the second lookup, under the exclusive lock, is left out.       *)
StringLockUnchecked(t) ==
  /\ At(t, "lock") /\ string_lock = NoThread
  /\ string_lock' = t
  /\ Describe(t, NoIndex)
  /\ UNCHANGED <<buffer, has_info, strings, locations, ctr, schemas, logged,
                 body, calls, lost>>

(* ... again under the exclusive lock, which is kept while the string is   *)
(* being described ...                                                     *)
StringLock(t) ==
  /\ At(t, "lock") /\ string_lock = NoThread
  /\ IF job[t].arg \in strings
       THEN Goto(t, "reserve") /\ UNCHANGED <<string_lock, job, outer>>
       ELSE string_lock' = t /\ Describe(t, NoIndex)
  /\ UNCHANGED <<buffer, has_info, strings, locations, ctr, schemas, logged,
                 body, calls, lost>>

(* Mutant: the exclusive lock is not released.                             *)
StringInsertKeepsLock(t) ==
  /\ At(t, "insert") /\ job[t].arg \in Strings
  /\ strings' = strings \cup {job[t].arg}
  /\ Goto(t, "reserve")
  /\ UNCHANGED <<buffer, job, outer, has_info, string_lock, locations, ctr,
                 schemas, logged, body, calls, lost>>

(* ... and released.                                                       *)
StringInsert(t) ==
  /\ At(t, "insert") /\ job[t].arg \in Strings
  /\ strings' = strings \cup {job[t].arg}
  /\ string_lock' = NoThread
  /\ Goto(t, "reserve")
  /\ UNCHANGED <<buffer, job, outer, has_info, locations, ctr, schemas, logged,
                 body, calls, lost>>

(* lookup_source_location(): the lookup under the shared lock ...          *)
LocationLookup(t) ==
  /\ At(t, "measure") /\ ~Describes(job[t]) /\ job[t].arg \in Locations
  /\ Goto(t, IF locations[job[t].arg] # NoIndex THEN "reserve" ELSE "index")
  /\ UNCHANGED <<buffer, job, outer, has_info, caches, body, calls, lost>>

(* Mutant: the index is read, and stored back one higher after the insert. *)
LocationIndexStale(t) ==
  /\ At(t, "index")
  /\ ctr' = Cardinality({l \in Locations : locations[l] # NoIndex})
  /\ Describe(t, ctr')
  /\ UNCHANGED <<buffer, has_info, strings, string_lock, locations, schemas,
                 logged, body, calls, lost>>

(* ... ctr++ without the lock, so two threads may describe one location    *)
(* under two indexes ...                                                   *)
LocationIndex(t) ==
  /\ At(t, "index")
  /\ ctr' = ctr + 1
  /\ Describe(t, ctr)
  /\ UNCHANGED <<buffer, has_info, strings, string_lock, locations, schemas,
                 logged, body, calls, lost>>

(* ... and the first to insert decides.                                    *)
LocationInsert(t) ==
  /\ At(t, "insert") /\ job[t].arg \in Locations
  /\ locations' = [locations EXCEPT ![job[t].arg] =
                     IF @ = NoIndex THEN job[t].val ELSE @]
  /\ Goto(t, "reserve")
  /\ UNCHANGED <<buffer, job, outer, has_info, strings, string_lock, ctr,
                 schemas, logged, body, calls, lost>>

(* Mutant: the schema is inserted first, as node_handle does.              *)
SchemaLookupInserts(t) ==
  /\ At(t, "measure") /\ ~Describes(job[t]) /\ job[t].arg \in Schemas
  /\ schemas' = schemas \cup {job[t].arg}
  /\ IF job[t].arg \in schemas
       THEN Goto(t, "reserve") /\ UNCHANGED <<job, outer>>
       ELSE Describe(t, NoIndex)
  /\ UNCHANGED <<buffer, has_info, strings, string_lock, locations, ctr,
                 logged, body, calls, lost>>

(* register_capnp(): described outside the lock, then inserted.            *)
SchemaLookup(t) ==
  /\ At(t, "measure") /\ ~Describes(job[t]) /\ job[t].arg \in Schemas
  /\ IF job[t].arg \in schemas
       THEN Goto(t, "reserve") /\ UNCHANGED <<job, outer>>
       ELSE Describe(t, NoIndex)
  /\ UNCHANGED <<buffer, has_info, caches, body, calls, lost>>

SchemaInsert(t) ==
  /\ At(t, "insert") /\ job[t].arg \in Schemas
  /\ schemas' = schemas \cup {job[t].arg}
  /\ Goto(t, "reserve")
  /\ UNCHANGED <<buffer, job, outer, has_info, strings, string_lock, locations,
                 ctr, logged, body, calls, lost>>

(* Mutant: the result of the exchange is taken the wrong way round.        *)
NodeExchangeInverted(t) ==
  /\ At(t, "measure") /\ ~Describes(job[t]) /\ job[t].arg \in Nodes
  /\ logged' = logged \cup {job[t].arg}
  /\ IF job[t].arg \notin logged
       THEN Goto(t, "reserve") /\ UNCHANGED <<job, outer>>
       ELSE Describe(t, NoIndex)
  /\ UNCHANGED <<buffer, has_info, strings, string_lock, locations, ctr,
                 schemas, body, calls, lost>>

(* A node: logged.exchange(true) comes first, the description after it.    *)
NodeExchange(t) ==
  /\ At(t, "measure") /\ ~Describes(job[t]) /\ job[t].arg \in Nodes
  /\ logged' = logged \cup {job[t].arg}
  /\ IF job[t].arg \in logged
       THEN Goto(t, "reserve") /\ UNCHANGED <<job, outer>>
       ELSE Describe(t, NoIndex)
  /\ UNCHANGED <<buffer, has_info, strings, string_lock, locations, ctr,
                 schemas, body, calls, lost>>

----------------------------------------------------------------------------
(* The record frame.                                                       *)

Reserve(t) ==
  /\ At(t, "reserve")
  /\ IF mapped
       THEN /\ Buf!FetchAdd(t, RecordWords,
                 [part |-> "record", msg |-> job[t].msg, arg |-> job[t].arg])
            /\ Goto(t, "header") /\ UNCHANGED lost
       ELSE /\ Goto(t, "print") /\ UNCHANGED buffer
            /\ lost' = IF Describes(job[t]) THEN lost \cup {job[t].arg} ELSE lost
  /\ UNCHANGED <<job, outer, has_info, caches, body, calls>>

Header(t) ==
  /\ At(t, "header") /\ Goto(t, "body")
  /\ Buf!Construct(t)
  /\ job' = [job EXCEPT ![t].frame = claim[t].off]
  /\ UNCHANGED <<outer, has_info, caches, body, calls, lost>>

(* log_frame() finds no room for either frame.                             *)
BufferFull(t) ==
  /\ pc[t] \in {"info_header", "header"}
  /\ Buf!BufferFull(t)
  /\ UNCHANGED <<pc, job, outer, has_info, caches, body, calls, lost>>

(* The writing pass looks strings and locations up again: the shared lock  *)
(* waits for a thread that is describing another string.                   *)
Body(t) ==
  /\ At(t, "body") /\ Goto(t, "print")
  /\ ~Describes(job[t]) /\ job[t].arg \in Strings => string_lock = NoThread
  /\ body' = body \cup
       {[off |-> job[t].frame,
         val |-> IF ~Describes(job[t]) /\ job[t].arg \in Locations
                   THEN locations[job[t].arg] ELSE job[t].val]}
  /\ UNCHANGED <<buffer, job, outer, has_info, caches, calls, lost>>

(* Mutant: a nested call returns as if nobody waited for it.               *)
ReturnToIdle(t) ==
  /\ At(t, "print")
  /\ job[t].msg \notin FatalMessages
  /\ job' = [job EXCEPT ![t] = outer[t]]
  /\ outer' = [outer EXCEPT ![t] = NoJob]
  /\ Goto(t, "idle")
  /\ UNCHANGED <<buffer, has_info, caches, body, calls, lost>>

(* The line of text is printed and the call returns, to the call that      *)
(* needed the description if there is one.                                 *)
Return(t) ==
  /\ At(t, "print")
  /\ job[t].msg \notin FatalMessages \cup {"fatal"}
  /\ job' = [job EXCEPT ![t] = outer[t]]
  /\ outer' = [outer EXCEPT ![t] = NoJob]
  /\ Goto(t, IF outer[t] = NoJob THEN "idle"
             ELSE IF outer[t].arg \in Nodes THEN "reserve" ELSE "insert")
  /\ UNCHANGED <<buffer, has_info, caches, body, calls, lost>>

(* A fatal message does not return: nie::fatal() is called, which logs ... *)
Fatal(t) ==
  /\ At(t, "print") /\ Goto(t, "check")
  /\ job[t].msg \in FatalMessages
  /\ job' = [job EXCEPT ![t] = NewJob("fatal", FatalArg, NoIndex)]
  /\ UNCHANGED <<buffer, outer, has_info, caches, body, calls, lost>>

(* ... and stores through a null pointer.                                  *)
Abort(t) ==
  /\ At(t, "print")
  /\ job[t].msg = "fatal"
  /\ halted' = TRUE
  /\ UNCHANGED <<mapped, content_length, claim, frames, pc, job, outer,
                 has_info, caches, body, calls, lost>>

----------------------------------------------------------------------------

(* A thread goes on with the call it is in.                                *)
Proceed(t) ==
  \/ CheckInfo(t) \/ InfoReserve(t) \/ InfoHeader(t)
  \/ InfoCopy(t) \/ InfoFlag(t)
  \/ MeasurePlain(t)
  \/ StringLookup(t) \/ StringLock(t) \/ StringInsert(t)
  \/ LocationLookup(t) \/ LocationIndex(t) \/ LocationInsert(t)
  \/ SchemaLookup(t) \/ SchemaInsert(t)
  \/ NodeExchange(t)
  \/ Reserve(t) \/ Header(t) \/ BufferFull(t)
  \/ Body(t) \/ Return(t) \/ Fatal(t) \/ Abort(t)

Next ==
  /\ UNCHANGED program
  /\ \/ InitLog
     \/ Stop
     \/ \E t \in Threads :
          \/ \E m \in Messages, x \in Args : Call(t, m, x)
          \/ Proceed(t)

Spec == Init /\ [][Next]_vars

(* The scheduler runs every thread that can run.                           *)
FairSpec == Spec /\ \A t \in Threads : WF_vars(Proceed(t) /\ UNCHANGED program)

----------------------------------------------------------------------------
(* Properties.                                                             *)

Labels == {"idle", "check", "info", "info_header", "info_body", "info_copy",
           "info_flag", "measure", "lock", "index", "insert", "reserve",
           "header", "body", "print"}

(* The variables have their types, a thread is in a call exactly when it   *)
(* is not idle, and only a description is nested (log.hpp:392-527).        *)
TypeOK ==
  /\ program \in Programs
  /\ Buf!TypeOK
  /\ pc \in [Threads -> Labels]
  /\ job \in [Threads -> Job \cup {NoJob}]
  /\ outer \in [Threads -> Job \cup {NoJob}]
  /\ \A t \in Threads :
       /\ pc[t] = "idle" <=> job[t] = NoJob
       /\ outer[t] # NoJob => job[t] # NoJob /\ Describes(job[t])
  /\ has_info \subseteq AllMessages
  /\ strings \subseteq Strings /\ string_lock \in Threads \cup {NoThread}
  /\ locations \in [Locations -> Nat \cup {NoIndex}] /\ ctr \in Nat
  /\ schemas \subseteq Schemas /\ logged \subseteq Nodes
  /\ body \subseteq [off : Nat, val : Nat \cup {NoIndex}]
  /\ lost \subseteq Things
  /\ calls \in [Threads -> 0..program.calls]

(* The calls the pipeline makes to the buffer are those LogBuffer allows,  *)
(* and the buffer changes in no other way.                                 *)
BufferUsed == Buf!Spec

(* No room is reserved for a record before the header of an info frame for *)
(* its message is in the file, although has_info is a plain bool that any  *)
(* number of threads test and set (log.hpp:412-422); except by a call that *)
(* found no buffer when it looked.                                         *)
InfoBeforeUse ==
  [][\A t \in Threads :
       claim'[t] # claim[t] /\ claim'[t] # NoClaim /\ ~job[t].blind
         => LET tag == claim'[t].tag IN
            tag.part = "record" =>
              \E f \in frames : f.tag.part = "info" /\ f.tag.msg = tag.msg]_vars

(* The race on has_info costs at most one extra info frame per thread: no  *)
(* thread writes the info of a message again after it has written it once. *)
InfoFramesBounded ==
  \A m \in AllMessages :
    Cardinality({f \in Buf!Pieces : f.tag.part = "info" /\ f.tag.msg = m})
      <= Cardinality(Threads)

(* The record frames whose payload is complete, with what it says.         *)
Record(f, b) ==
  [off |-> f.off, end |-> Buf!End(f), msg |-> f.tag.msg, arg |-> f.tag.arg,
   val |-> b.val]

Written ==
  UNION {{Record(f, b) : b \in {b \in body : b.off = f.off}} :
         f \in {f \in frames : f.tag.part = "record"}}

Uses(r, x) == r.msg \in UserMessages /\ r.arg = x
Defines(r, x) == r.msg \notin UserMessages /\ r.arg = x

(* A number in a record can be looked up: the string, the location under   *)
(* that index, or the schema is described, completely, earlier in the file *)
(* (log.cpp:128-174), whichever threads race to describe it and wherever a *)
(* crash cuts the file short.  Only what was described before init_log()   *)
(* is lost: the caches remember it and the file does not have it.          *)
ReferencesResolve ==
  \A x \in (Strings \cup Locations \cup Schemas) \ lost :
    \A r \in Written : Uses(r, x) =>
      \E d \in Written : Defines(d, x) /\ d.end <= r.off /\ d.val = r.val

(* An index means one location, although it is taken without the lock, and *)
(* all users of a location agree on one of its indexes (log.cpp:165-173).  *)
IndexesAgree ==
  \A r, q \in Written : r.arg \in Locations /\ q.arg \in Locations =>
    /\ r.val = q.val => r.arg = q.arg
    /\ r.arg = q.arg /\ r.msg \in UserMessages /\ q.msg \in UserMessages
         => r.val = q.val

(* A string is described at most once, however many threads meet it first  *)
(* (log.cpp:149-153): the second look under the lock, which is kept while  *)
(* the description is written.                                             *)
StringsDescribedOnce ==
  \A s \in Strings :
    Cardinality({f \in Buf!Pieces : /\ f.tag.part = "record" /\ f.tag.arg = s
                                    /\ f.tag.msg \notin UserMessages}) <= 1

(* A call returns or the process ends, so a thread is outside of calls     *)
(* again and again: the string mutex held across a nested call blocks      *)
(* nobody for ever (log.cpp:149-154).                                      *)
CallsReturn ==
  \A t \in Threads : []<>(pc[t] = "idle" \/ halted)

(* A node whose flag is set, which it stays, gets its description,         *)
(* although the flag is set first and records of other threads may come    *)
(* before it (log.hpp:533-535).                                            *)
NodesGetDescribed ==
  \A n \in Nodes :
    []<>(n \in logged => n \in lost \/ halted \/ \E r \in Written : Defines(r, n))

============================================================================
