------------------------------ MODULE MCUsers ------------------------------
(* A goroutine whose instance users create, start, stop and delete, and     *)
(* whose inspections fail now and then.                                     *)
EXTENDS Lifecycle, TLC

CONSTANTS p1, n1, c1, c2, home

MCProcs == {p1}
MCNames == {n1}
MCKeys == {n1, home}
MCConfigs == {c1, c2}

MCCalls ==
  {[op |-> "create", name |-> n1, config |-> c1, start |-> TRUE, protect |-> FALSE],
   [op |-> "resize", name |-> n1, config |-> c2, want |-> TRUE],
   [op |-> "run", name |-> n1, want |-> FALSE],
   [op |-> "delete", name |-> n1]}

MCFaults == {"list", "list_empty", "start", "degraded"}
MCUserActs == {"create", "start", "stop", "delete"}
=============================================================================
