---------------------------- MODULE MCKeyedMutex ----------------------------
(* KeyedMutex with three goroutines on two keys. *)
EXTENDS KeyedMutex, TLC

CONSTANTS p1, p2, p3, k1, k2, e1, e2, e3

MCProcs == {p1, p2, p3}
MCKeys == {k1, k2}
MCEntries == {e1, e2, e3}
=============================================================================
