---------------------------- MODULE MCLifecycle ----------------------------
(* Two goroutines that make every kind of call on one instance. *)
EXTENDS Lifecycle, TLC

CONSTANTS p1, p2, n1, c1, c2, home

MCProcs == {p1, p2}
MCNames == {n1}
MCKeys == {n1, home}
MCConfigs == {c1, c2}

MCCalls ==
  {[op |-> "create", name |-> n1, config |-> c1, start |-> b, protect |-> b] : b \in BOOLEAN}
    \cup [op : {"resize"}, name : MCNames, config : {c2}, want : BOOLEAN]
    \cup [op : {"run", "protect"}, name : MCNames, want : BOOLEAN]
    \cup [op : {"delete"}, name : MCNames]

MCFaults == FaultKinds \ {"list", "list_empty"}
MCUserActs == {}
MCSymmetry == Permutations(MCProcs)
=============================================================================
