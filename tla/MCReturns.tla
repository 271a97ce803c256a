----------------------------- MODULE MCReturns -----------------------------
(* Two goroutines that create, reconfigure and delete one instance, for the *)
(* liveness property.                                                       *)
EXTENDS Lifecycle, TLC

CONSTANTS p1, p2, n1, n2, c1, home

MCProcs == {p1, p2}
MCNames == {n1, n2}
MCKeys == {n1, n2, home}
MCConfigs == {c1}

MCCalls ==
  {[op |-> "create", name |-> n1, config |-> c1, start |-> TRUE, protect |-> FALSE],
   [op |-> "run", name |-> n1, want |-> FALSE],
   [op |-> "create", name |-> n2, config |-> c1, start |-> FALSE, protect |-> FALSE],
   [op |-> "delete", name |-> n1]}

MCFaults == {"boot_breaks"}
MCUserActs == {}
=============================================================================
