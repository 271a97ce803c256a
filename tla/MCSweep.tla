------------------------------ MODULE MCSweep ------------------------------
(* A home of two instances, a disk attached to each. *)
EXTENDS Sweep, TLC

CONSTANTS n1, n2, d1, d2, c1

MCNames == {n1, n2}
MCDiskNames == {d1, d2}
MCAttachedTo == d1 :> n1 @@ d2 :> n2
MCConfigs == {c1}
MCFaults == {}
=============================================================================
