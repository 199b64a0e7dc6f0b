-------------------------- MODULE MCQueueFrontEnd --------------------------
(* Three threads around a queue.  A: one with a token, one without, and a  *)
(* consumer without a token.  B: two with tokens, and a consumer that goes *)
(* from one producer to the next.  C: two without tokens, under three ids  *)
(* of which two meet in a table of four slots, which is half full with the *)
(* second.  D: one with a token, and two consumers that rotate.            *)
EXTENDS QueueFrontEnd, TLC

CONSTANTS t1, t2, t3
MCThreads == {t1, t2, t3}
MCSymmetry == Permutations(MCThreads)

(* Every way to give the parts to the threads.                             *)
Casts(a, b, c) ==
  {[t \in MCThreads |-> CASE t = x -> a [] t = y -> b [] OTHER -> c] :
     <<x, y>> \in {p \in MCThreads \X MCThreads : p[1] # p[2]}}
Setting(roles, ids, calls, most) ==
  {[role |-> r, ids |-> ids, calls |-> calls, size |-> most] : r \in roles}

Call(way, bulk, max) == [way |-> way, bulk |-> bulk, max |-> max]
Plain == {Call("scored", FALSE, 1), Call("list", TRUE, 2)}
WithToken == {Call("token", FALSE, 1), Call("token", TRUE, 2)}

MCA == Setting(Casts("token", "implicit", "consumer"), {0}, Plain, 1)
MCB == Setting(Casts("token", "token", "consumer"), {}, WithToken, 1)
MCC == Setting(Casts("implicit", "implicit", "idle"), {0, 1, 4}, {}, 0)
MCD == Setting(Casts("token", "consumer", "consumer"), {}, WithToken, 1)
MCSetups == MCA \cup MCB \cup MCC \cup MCD
=============================================================================
