---------------------------- MODULE MCLogBuffer ----------------------------
(* Instance of LogBuffer: three threads race for a buffer of a few frames. *)
EXTENDS LogBuffer, TLC

CONSTANTS t1, t2, t3

MCThreads == {t1, t2, t3}
MCSizes == 0..2
MCSymmetry == Permutations(MCThreads)
============================================================================
