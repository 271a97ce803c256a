-------------------------------- MODULE Sweep --------------------------------
(***************************************************************************)
(* lima.Sweep (internal/lima/sweep.go): removes every instance and disk of *)
(* a Lima home after an interrupted acceptance run, one call of Service or *)
(* DiskService at a time.  A step is one such call; what a call of Service *)
(* may do is its Contract.                                                 *)
(*                                                                         *)
(* The sweep works from two listings.  Between its calls the users of the  *)
(* home, other test processes among them, go on.  Homes are absolute paths *)
(* without symbolic links.                                                 *)
(***************************************************************************)
EXTENDS Naturals, Contract

CONSTANTS Names,       (* instance names                                   *)
          DiskNames,   (* disk names                                       *)
          AttachedTo,  (* the instance each disk is attached to            *)
          NoName,      (* no name                                          *)
          MaxTrouble   (* failures, acts of users and the deadline at most *)

ASSUME SweepAssumption ==
  /\ AttachedTo \in [DiskNames -> Names]
  /\ Names \cap DiskNames = {} /\ NoName \notin Names
  /\ MaxTrouble \in Nat

VARIABLES
  home,      (* SweepOptions.Home                                          *)
  allow,     (* SweepOptions.AllowDefaultHome                              *)
  pc,        (* the phase the sweep is in                                  *)
  todo,      (* instances and disks that are listed and still to come      *)
  flagged,   (* listed instances that were protected when they were listed *)
  tried,     (* the instance that unprotecting was tried for, or NoName    *)
  removed,   (* SweepReport.Instances and Disks                            *)
  failures,  (* SweepReport.Failures                                       *)
  err,       (* the class of the error returned                            *)
  late,      (* the context is done                                        *)
  vm,        (* the instances                                              *)
  disks,     (* the disks that exist                                       *)
  trouble,   (* what may still go wrong                                    *)
  made,      (* what users created since the sweep began (for properties)  *)
  guarded    (* what users protected since it was listed (for properties)  *)

options == <<home, allow>>
report == <<removed, failures>>
lima == <<vm, disks>>
users == <<made, guarded>>
vars == <<options, pc, todo, flagged, tried, report, err, late, lima, trouble, users>>

\* Ways to give a home: the default's none, the default's spelled out with
\* separators or dots that mean nothing, another.
Homes == {"", "~/.lima/.", "/tmp/acc"}

Init ==
  /\ home \in Homes /\ allow \in BOOLEAN
  /\ pc = "refuse"
  /\ todo = {} /\ flagged = {} /\ tried = NoName
  /\ removed = {} /\ failures = {}
  /\ err = "ok" /\ late = FALSE
  /\ vm \in [Names -> {v \in VM : Settled(v) = v}]
  /\ disks \in SUBSET DiskNames
  /\ trouble = MaxTrouble
  /\ made = {} /\ guarded = {}

At(l) == pc = l
Return(e) == pc' = "done" /\ err' = e
Failure(x, c, e) == [of |-> x, call |-> c, error |-> e]

-----------------------------------------------------------------------------
(* The order of the phases.                                                *)

\* Mutant: disks go first.
AfterDisksFirst(l) ==
  CASE l = "refuse"     -> "list"
    [] l = "list"       -> "list_disks"
    [] l = "list_disks" -> "disks"
    [] l = "disks"      -> "instances"
    [] l = "instances"  -> "done"

\* A running instance holds its disks.
After(l) ==
  CASE l = "refuse"     -> "list"
    [] l = "list"       -> "instances"
    [] l = "instances"  -> "list_disks"
    [] l = "list_disks" -> "disks"
    [] l = "disks"      -> "done"

SweepError == IF failures = {} THEN "ok" ELSE "failures"

Proceed(l) ==
  IF After(l) = "done" THEN Return(SweepError) ELSE pc' = After(l) /\ UNCHANGED err

-----------------------------------------------------------------------------
(* The sweep.                                                              *)

ResolveHome(h) == IF h = "" THEN "~/.lima" ELSE h
Clean(path) == IF path = "~/.lima/." THEN "~/.lima" ELSE path

\* The home limactl is pointed at.
Swept == Clean(ResolveHome(home))

\* Mutant: the home is compared as it was given.
RefusedAsGiven(h) == h = ResolveHome("")

Refused(h) == Clean(ResolveHome(h)) = Clean(ResolveHome(""))

RefuseDefaultHome ==
  /\ At("refuse")
  /\ IF ~allow /\ Refused(home) THEN Return("refused") ELSE Proceed("refuse")
  /\ UNCHANGED <<options, todo, flagged, tried, report, late, lima, trouble, users>>

\* A command or call fails for a reason of its own, or the deadline ends it.
Trouble(e) ==
  IF late THEN e = "timeout" /\ UNCHANGED <<late, trouble>>
  ELSE /\ e \in {"failed", "timeout"}
       /\ trouble > 0 /\ trouble' = trouble - 1
       /\ late' = (e = "timeout")

NoTrouble == ~late /\ UNCHANGED <<late, trouble>>

List ==
  /\ At("list")
  /\ \/ /\ NoTrouble
        /\ todo' = {n \in Names : Listed(vm[n])}
        /\ flagged' = {n \in Names : vm[n].protected}
        /\ Proceed("list")
     \/ \E e \in {"failed", "timeout"} :
          Trouble(e) /\ Return("listing") /\ UNCHANGED <<todo, flagged>>
  /\ UNCHANGED <<options, tried, report, lima, users>>

\* The context is looked at before every instance and disk.
Cancelled ==
  /\ pc \in {"instances", "disks"} /\ todo # {} /\ tried = NoName
  /\ late
  /\ Return("timeout")
  /\ UNCHANGED <<options, todo, flagged, tried, report, late, lima, trouble, users>>

\* A call of Service for n that returns e.
Calls(n, c, e) ==
  \E w \in VM :
    /\ vm' = [vm EXCEPT ![n] = w]
    /\ IF e \in {"failed", "timeout"} THEN Trouble(e) ELSE NoTrouble
    /\ late => w = vm[n]
    /\ Promised(c, vm[n], w, e, FALSE, late')

Unprotect(n) ==
  /\ At("instances") /\ n \in todo /\ tried = NoName /\ ~late
  /\ n \in flagged
  /\ \E e \in Errors :
       /\ Calls(n, [op |-> "protect", want |-> FALSE], e)
       /\ failures' = IF e = "ok" THEN failures
                      ELSE failures \cup {Failure(n, "unprotect", e)}
  /\ tried' = n
  /\ UNCHANGED <<options, pc, todo, flagged, removed, err, disks, users>>

\* The delete is attempted though unprotecting failed.
Delete(n) ==
  /\ At("instances") /\ n \in todo
  /\ \/ tried = n
     \/ tried = NoName /\ ~late /\ n \notin flagged
  /\ \E e \in Errors :
       /\ Calls(n, [op |-> "delete"], e)
       /\ IF e = "ok" THEN removed' = removed \cup {n} /\ UNCHANGED failures
          ELSE failures' = failures \cup {Failure(n, "delete", e)} /\ UNCHANGED removed
  /\ todo' = todo \ {n} /\ tried' = NoName
  /\ UNCHANGED <<options, pc, flagged, err, disks, users>>

InstancesDone ==
  /\ At("instances") /\ todo = {}
  /\ Proceed("instances")
  /\ UNCHANGED <<options, todo, flagged, tried, report, late, lima, trouble, users>>

\* Disks are listed once the instances are gone.
ListDisks ==
  /\ At("list_disks")
  /\ \/ NoTrouble /\ todo' = disks /\ Proceed("list_disks") /\ UNCHANGED failures
     \/ \E e \in {"failed", "timeout"} :
          /\ Trouble(e) /\ Return("failures")
          /\ failures' = failures \cup {Failure(NoName, "list", e)}
          /\ UNCHANGED todo
  /\ UNCHANGED <<options, flagged, tried, removed, lima, users>>

InUse(d) == d \in disks /\ Running(vm[AttachedTo[d]])

\* DiskService.Delete: a disk that is gone is deleted, one in use is not.
DeletesDisk(d, e) ==
  \/ /\ e = "ok" /\ NoTrouble
     /\ ~InUse(d) /\ disks' = disks \ {d}
  \/ /\ e = "inuse" /\ NoTrouble
     /\ InUse(d) /\ UNCHANGED disks
  \/ /\ Trouble(e)
     /\ \/ UNCHANGED disks
        \/ e = "timeout" /\ ~late /\ ~InUse(d) /\ disks' = disks \ {d}

\* Mutant: the first failure ends the sweep's list of disks.
DeleteDiskStopping(d) ==
  /\ At("disks") /\ d \in todo /\ ~late
  /\ \E e \in {"ok", "inuse", "failed", "timeout"} :
       /\ DeletesDisk(d, e)
       /\ IF e = "ok" THEN /\ removed' = removed \cup {d} /\ todo' = todo \ {d}
                           /\ UNCHANGED failures
          ELSE /\ failures' = failures \cup {Failure(d, "delete", e)} /\ todo' = {}
               /\ UNCHANGED removed
  /\ UNCHANGED <<options, pc, flagged, tried, err, vm, users>>

DeleteDisk(d) ==
  /\ At("disks") /\ d \in todo /\ ~late
  /\ \E e \in {"ok", "inuse", "failed", "timeout"} :
       /\ DeletesDisk(d, e)
       /\ IF e = "ok" THEN removed' = removed \cup {d} /\ UNCHANGED failures
          ELSE failures' = failures \cup {Failure(d, "delete", e)} /\ UNCHANGED removed
  /\ todo' = todo \ {d}
  /\ UNCHANGED <<options, pc, flagged, tried, err, vm, users>>

DisksDone ==
  /\ At("disks") /\ todo = {}
  /\ Proceed("disks")
  /\ UNCHANGED <<options, todo, flagged, tried, report, late, lima, trouble, users>>

-----------------------------------------------------------------------------
(* What happens beside the sweep.                                          *)

Expire ==
  /\ ~At("done") /\ ~late
  /\ trouble > 0 /\ trouble' = trouble - 1
  /\ late' = TRUE
  /\ UNCHANGED <<options, pc, todo, flagged, tried, report, err, lima, users>>

\* What the file system catches up with.
Settle(n) ==
  /\ Settled(vm[n]) # vm[n]
  /\ vm' = [vm EXCEPT ![n] = Settled(@)]
  /\ UNCHANGED <<options, pc, todo, flagged, tried, report, err, late, disks, trouble, users>>

\* A user runs limactl protect, unprotect, start, stop, delete or create.
UserResults(v) ==
  IF ~Listed(v) THEN {New(c, "stopped") : c \in Configs}
  ELSE IF ~Usable(v) THEN {}
  ELSE {[v EXCEPT !.protected = ~@]}
         \cup {[v EXCEPT !.status = s] : s \in {"running", "stopped"}}
         \cup IF v.protected THEN {} ELSE {Absent}

User(n) ==
  /\ trouble > 0 /\ trouble' = trouble - 1
  /\ vm' \in {[vm EXCEPT ![n] = w] : w \in UserResults(vm[n]) \ {vm[n]}}
  /\ made' = IF Listed(vm[n]) THEN made ELSE made \cup {n}
  /\ guarded' = IF vm'[n].protected /\ ~vm[n].protected THEN guarded \cup {n} ELSE guarded
  /\ UNCHANGED <<options, pc, todo, flagged, tried, report, err, late, disks>>

UserDisk(d) ==
  /\ trouble > 0 /\ trouble' = trouble - 1
  /\ IF d \in disks THEN ~InUse(d) /\ disks' = disks \ {d} /\ UNCHANGED made
     ELSE disks' = disks \cup {d} /\ made' = made \cup {d}
  /\ UNCHANGED <<options, pc, todo, flagged, tried, report, err, late, vm, guarded>>

-----------------------------------------------------------------------------

Step ==
  \/ RefuseDefaultHome \/ List \/ Cancelled \/ InstancesDone \/ ListDisks \/ DisksDone
  \/ \E n \in Names : Unprotect(n) \/ Delete(n)
  \/ \E d \in DiskNames : DeleteDisk(d)

Next ==
  \/ Step
  \/ Expire
  \/ \E n \in Names : Settle(n) \/ User(n)
  \/ \E d \in DiskNames : UserDisk(d)

Spec == Init /\ [][Next]_vars

-----------------------------------------------------------------------------
(* Properties.                                                             *)

TypeOK ==
  /\ home \in Homes /\ allow \in BOOLEAN
  /\ pc \in {"refuse", "list", "instances", "list_disks", "disks", "done"}
  /\ todo \in SUBSET (Names \cup DiskNames)
  /\ flagged \in SUBSET Names
  /\ tried \in Names \cup {NoName}
  /\ (tried # NoName) => (At("instances") /\ tried \in todo)
  /\ removed \in SUBSET (Names \cup DiskNames)
  /\ \A f \in failures : f.of \in Names \cup DiskNames \cup {NoName}
  /\ err \in {"ok", "refused", "listing", "failures", "timeout"}
  /\ late \in BOOLEAN
  /\ vm \in [Names -> VM]
  /\ disks \in SUBSET DiskNames
  /\ trouble \in 0..MaxTrouble
  /\ made \in SUBSET (Names \cup DiskNames) /\ guarded \in SUBSET Names

\* What is still in the home though no user put it there since the sweep began.
Left == ({n \in Names : Listed(vm[n])} \cup disks) \ made

Failed(x) == \E f \in failures : f.of = x /\ f.call = "delete"

\* A sweep that returns nil has emptied the home of all that was there when it
\* began.  One that ends with failures names everything it leaves; a failure is
\* never lost, and nothing that is left is reported as removed
\* (sweep.go:41-49, 60-63).
Accounted ==
  /\ removed \cap Left = {}
  /\ (At("done") /\ err = "ok") => (Left = {} /\ failures = {})
  /\ (At("done") /\ err = "failures") =>
       /\ failures # {}
       /\ \/ \E f \in failures : f.call = "list"
          \/ \A x \in Left : Failed(x)

\* A delete is refused for protection only where a user protected the instance
\* after it was listed, or unprotecting it failed and says so; and for use only
\* where the disk's instance is one the sweep failed to delete or a user made
\* since (sweep.go:53-58, 85-88).
RefusalsExplained ==
  \A f \in failures :
    /\ f.error = "protected" =>
         f.of \in guarded \/ \E g \in failures : g.of = f.of /\ g.call = "unprotect"
    /\ f.error = "inuse" => Failed(AttachedTo[f.of]) \/ AttachedTo[f.of] \in made

\* Lima's default home, which holds real machines, is changed by no step of a
\* sweep that is not allowed to, however the home is spelled (sweep.go:127-131).
DefaultHomeKept ==
  [][Step /\ Swept = "~/.lima" /\ ~allow => UNCHANGED lima]_vars

=============================================================================
