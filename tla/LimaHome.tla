------------------------------ MODULE LimaHome ------------------------------
(***************************************************************************)
(* limactl as the service sees it: what each command may do to one         *)
(* instance of a Lima home, and how it may exit.  The commands themselves  *)
(* are Lima's; their refusals are those the repository's stateful fake     *)
(* (internal/testutil/fake_limactl.go) reproduces, and the classification  *)
(* of an exit is ExecClient's (internal/lima/exec_client.go).              *)
(*                                                                         *)
(* An outcome is a record [vm, exit]: the instance the command leaves and  *)
(* the error class its caller gets.  A fault is a way a command may fail   *)
(* that the instance's state does not explain.                             *)
(***************************************************************************)

CONSTANTS Configs,   (* instance configurations                            *)
          NoConfig,  (* the configuration of an absent instance            *)
          Faults     (* the faults that may happen, a subset of FaultKinds *)

ASSUME NoConfigAssumption == NoConfig \notin Configs

FaultKinds == {"create", "create_partial", "validate", "start", "degraded",
               "boot_breaks", "stop", "edit", "protect", "delete", "list",
               "list_empty"}

ASSUME FaultsAssumption == Faults \subseteq FaultKinds

-----------------------------------------------------------------------------

\* creating: registered, not yet settled.  deleting: removed, still listed.
Statuses == {"absent", "creating", "stopped", "running", "broken", "deleting"}

Absent == [status |-> "absent", protected |-> FALSE, config |-> NoConfig]

VM == {Absent}
  \cup [status : Statuses \ {"absent"}, protected : BOOLEAN, config : Configs]

Listed(v) == v.status # "absent"
Usable(v) == v.status \notin {"absent", "deleting"}
Running(v) == v.status = "running"
Stopped(v) == v.status = "stopped"

New(c, s) == [status |-> s, protected |-> FALSE, config |-> c]

Outcome(v, e) == [vm |-> v, exit |-> e]
Becomes(v, s) == Outcome([v EXCEPT !.status = s], "ok")

\* v as it was and exit e, if fault f may happen.
Fault(f, v, e) == {Outcome(v, e) : x \in {f} \cap Faults}

-----------------------------------------------------------------------------

\* limactl list <name>, through Inspect: a failure with nothing on stdout is
\* taken for absence, whatever its cause.
InspectOutcomes(v) ==
  {Outcome(v, IF Listed(v) THEN "ok" ELSE "notfound")}
    \cup Fault("list", v, "failed")
    \cup Fault("list_empty", v, "notfound")

ValidateOutcomes(v) == {Outcome(v, "ok")} \cup Fault("validate", v, "failed")

\* An instance under that name is refused.  A failure may leave a directory
\* behind, which Lima then lists as broken.
CreateOutcomes(v, c) ==
  IF Listed(v) THEN {Outcome(v, "exists")}
  ELSE {Outcome(New(c, s), "ok") : s \in {"stopped", "creating"}}
         \cup Fault("create", v, "failed")
         \cup Fault("create_partial", New(c, "broken"), "failed")

\* A degraded start is a running instance and a failure.
StartOutcomes(v) ==
  IF ~Usable(v) THEN {Outcome(v, "failed")}
  ELSE {Becomes(v, "running")}
         \cup Fault("start", v, "failed")
         \cup Fault("degraded", [v EXCEPT !.status = "running"], "failed")
         \cup Fault("boot_breaks", [v EXCEPT !.status = "broken"], "ok")

\* Lima refuses to stop what is not running.
StopOutcomes(v) ==
  IF ~Running(v) THEN {Outcome(v, "failed")}
  ELSE {Becomes(v, "stopped")} \cup Fault("stop", v, "failed")

\* Lima refuses to edit a running instance.
EditOutcomes(v, c) ==
  IF ~Usable(v) \/ Running(v) THEN {Outcome(v, "failed")}
  ELSE {Outcome([v EXCEPT !.config = c], "ok")} \cup Fault("edit", v, "failed")

ProtectOutcomes(v, b) ==
  IF ~Usable(v) THEN {Outcome(v, "failed")}
  ELSE {Outcome([v EXCEPT !.protected = b], "ok")} \cup Fault("protect", v, "failed")

\* An absent instance is a warning, a protected one a refusal.  Deletion may
\* outlast the command.
DeleteOutcomes(v) ==
  IF ~Listed(v) THEN {Outcome(v, "ok")}
  ELSE IF v.protected THEN {Outcome(v, "protected")}
  ELSE {Outcome(Absent, "ok"), Becomes(v, "deleting")} \cup Fault("delete", v, "failed")

\* What the file system catches up with on its own.
Settled(v) ==
  CASE v.status = "creating" -> [v EXCEPT !.status = "stopped"]
    [] v.status = "deleting" -> Absent
    [] OTHER -> v

=============================================================================
