---------------------------- MODULE DiskResource ----------------------------
(***************************************************************************)
(* lima_disk resources (internal/provider/disk_resource.go) for one disk,  *)
(* and the DiskService they share (internal/lima/disk.go).  A step is one  *)
(* limactl command or one operation of the disk's lock.                    *)
(*                                                                         *)
(* An instance that is started or stopped meanwhile holds the disk or lets *)
(* it go: its lock is another one.  Terraform plans and applies each       *)
(* resource, with a delete and a create where it replaces.                 *)
(***************************************************************************)
EXTENDS Naturals, FiniteSets, KeyedLock

CONSTANTS Disk,       (* the disk's lock key                                *)
          MaxSize,    (* sizes are 1..MaxSize                               *)
          Formats,    (* disk formats                                       *)
          NoFormat,   (* an attribute that is not set                       *)
          MaxTrouble  (* failures, holds and changes of mind at most         *)

ASSUME DiskAssumption ==
  /\ Keys = {Disk} /\ NoFormat \notin Formats
  /\ MaxSize \in Nat \ {0} /\ MaxTrouble \in Nat

VARIABLES
  want,     (* each resource's configuration                               *)
  tf,       (* its Terraform state                                         *)
  pc,       (* the next step of its handler                                *)
  op,       (* the handler                                                 *)
  late,     (* its context is done                                         *)
  err,      (* the error it returns                                        *)
  before,   (* the disk when it took the lock (for the properties)         *)
  disk,     (* the disk                                                    *)
  busy,     (* a running instance holds it                                 *)
  trouble   (* what may still go wrong                                     *)

resources == <<want, tf, op>>
lima == <<disk, busy, trouble>>
vars == <<want, tf, pc, op, late, err, before, disk, busy, trouble, holder>>

Gone == [size |-> 0, format |-> NoFormat]
Wishes == [size : 1..MaxSize, format : Formats \cup {NoFormat}]
Disks == [size : 1..MaxSize, format : Formats]

Exists == disk # Gone

\* What the resource of a disk that exists may have in state.
Recorded == {[disk EXCEPT !.format = f] : f \in Formats \cup {NoFormat}}

\* An earlier run of Terraform created or imported the disk, or none did.
Init ==
  /\ disk \in Disks \cup {Gone}
  /\ want \in [Procs -> Wishes \cup {Gone}]
  /\ tf \in [Procs -> IF Exists THEN Recorded \cup {Gone} ELSE {Gone}]
  /\ Cardinality({p \in Procs : tf[p] # Gone}) <= 1
  /\ pc = [p \in Procs |-> "idle"]
  /\ op = [p \in Procs |-> "none"]
  /\ late = [p \in Procs |-> FALSE]
  /\ err = [p \in Procs |-> "ok"]
  /\ before = [p \in Procs |-> Gone]
  /\ busy = FALSE
  /\ trouble = MaxTrouble
  /\ LockInit

At(p, l) == pc[p] = l
Goto(p, l) == pc' = [pc EXCEPT ![p] = l]
Fail(p, e) == Goto(p, "unlock") /\ err' = [err EXCEPT ![p] = e]
Record(p, s) == tf' = [tf EXCEPT ![p] = s]

-----------------------------------------------------------------------------
(* limactl disk, as the service sees it.                                   *)

Outcome(d, e) == [disk |-> d, exit |-> e]

CreateOutcomes(w) ==
  IF Exists THEN {Outcome(disk, "exists")}
  ELSE {Outcome([w EXCEPT !.format = f], "ok") : f \in Formats}

\* Lima resizes no disk in use, and none to less.
ResizeOutcomes(s) ==
  IF ~Exists \/ s < disk.size THEN {Outcome(disk, "failed")}
  ELSE IF busy THEN {Outcome(disk, "inuse")}
  ELSE {Outcome([disk EXCEPT !.size = s], "ok")}

DeleteOutcomes ==
  IF busy THEN {Outcome(disk, "inuse")} ELSE {Outcome(Gone, "ok")}

\* How a command of p ends when it may end with outs: as one of them, as a
\* failure for no reason of the disk's, or killed with its effect done or not.
Ends(p, outs, o) ==
  /\ IF late[p] THEN o = Outcome(disk, "timeout") /\ UNCHANGED trouble
     ELSE \/ o \in outs /\ UNCHANGED trouble
          \/ /\ trouble > 0 /\ trouble' = trouble - 1
             /\ \/ o = Outcome(disk, "failed")
                \/ o.exit = "timeout" /\ o.disk \in {disk} \cup {q.disk : q \in outs}
  /\ disk' = o.disk
  /\ late' = [late EXCEPT ![p] = @ \/ o.exit = "timeout"]

Results == [disk : Disks \cup {Gone},
            exit : {"ok", "failed", "timeout", "exists", "inuse", "notfound"}]

InspectOutcomes == {Outcome(disk, IF Exists THEN "ok" ELSE "notfound")}

Then(p, o, next) ==
  IF o.exit = "ok" THEN Goto(p, next) /\ UNCHANGED err ELSE Fail(p, o.exit)

Service == <<want, op, before, busy, holder>>

-----------------------------------------------------------------------------
(* Terraform: refresh, import, plan.                                       *)

\* Mutant: a disk that is not found leaves state alone.
RefreshKeepingLost(p) ==
  /\ At(p, "idle") /\ tf[p] # Gone
  /\ Record(p, IF Exists THEN [tf[p] EXCEPT !.size = disk.size] ELSE tf[p])
  /\ op' = [op EXCEPT ![p] = "read"]
  /\ UNCHANGED <<want, pc, late, err, before, lima, holder>>

\* Read.  One that fails changes nothing, which is a refresh not taken.
Refresh(p) ==
  /\ At(p, "idle") /\ tf[p] # Gone
  /\ Record(p, IF Exists THEN [tf[p] EXCEPT !.size = disk.size] ELSE Gone)
  /\ op' = [op EXCEPT ![p] = "read"]
  /\ UNCHANGED <<want, pc, late, err, before, lima, holder>>

\* The format is not imported.  Terraform imports what is configured.
ImportState(p) ==
  /\ At(p, "idle") /\ tf[p] = Gone /\ want[p] # Gone /\ Exists
  /\ trouble > 0 /\ trouble' = trouble - 1
  /\ Record(p, [size |-> disk.size, format |-> NoFormat])
  /\ op' = [op EXCEPT ![p] = "import"]
  /\ UNCHANGED <<want, pc, late, err, before, disk, busy, holder>>

\* format has RequiresReplace.
Replaces(p) == tf[p].format # want[p].format

\* The plan fails.
Shrinks(p) == tf[p] # Gone /\ want[p] # Gone /\ want[p].size < tf[p].size

Plan(p) ==
  IF tf[p] = want[p] \/ Shrinks(p) THEN "none"
  ELSE IF tf[p] = Gone THEN "create"
  ELSE IF want[p] = Gone \/ Replaces(p) THEN "delete"
  ELSE "resize"

Apply(p) ==
  /\ At(p, "idle") /\ Plan(p) # "none"
  /\ Goto(p, "lock")
  /\ op' = [op EXCEPT ![p] = Plan(p)]
  /\ late' = [late EXCEPT ![p] = FALSE]
  /\ err' = [err EXCEPT ![p] = "ok"]
  /\ UNCHANGED <<want, tf, before, lima, holder>>

Expire(p) ==
  /\ ~At(p, "idle") /\ ~late[p]
  /\ trouble > 0 /\ trouble' = trouble - 1
  /\ late' = [late EXCEPT ![p] = TRUE]
  /\ UNCHANGED <<resources, pc, err, before, disk, busy, holder>>

-----------------------------------------------------------------------------
(* The service.                                                            *)

FirstStep(o) ==
  CASE o = "create" -> "create_exists"
    [] o = "resize" -> "resize_inspect"
    [] o = "delete" -> "delete_inspect"

\* Mutant: every instance of the service has a mutex of its own.
LockUnshared(p) ==
  /\ At(p, "lock")
  /\ Acquire(p, Disk) \/ (holder[Disk] # NoProc /\ UNCHANGED holder)
  /\ Goto(p, FirstStep(op[p]))
  /\ before' = [before EXCEPT ![p] = disk]
  /\ UNCHANGED <<resources, late, err, lima>>

Lock(p) ==
  /\ At(p, "lock")
  /\ Acquire(p, Disk)
  /\ Goto(p, FirstStep(op[p]))
  /\ before' = [before EXCEPT ![p] = disk]
  /\ UNCHANGED <<resources, late, err, lima>>

LockRefused(p) ==
  /\ At(p, "lock") /\ late[p]
  /\ Goto(p, "idle")
  /\ err' = [err EXCEPT ![p] = "timeout"]
  /\ UNCHANGED <<resources, late, before, lima, holder>>

CreateExists(p) ==
  /\ At(p, "create_exists")
  /\ \E o \in Results :
       /\ Ends(p, InspectOutcomes, o)
       /\ CASE o.exit = "notfound" -> Goto(p, "create_run") /\ UNCHANGED err
            [] o.exit = "ok"       -> Fail(p, "exists")
            [] OTHER               -> Fail(p, o.exit)
  /\ UNCHANGED <<Service, tf>>

CreateRun(p) ==
  /\ At(p, "create_run")
  /\ \E o \in Results : Ends(p, CreateOutcomes(want[p]), o) /\ Then(p, o, "create_inspect")
  /\ UNCHANGED <<Service, tf>>

\* The disk is recorded only when the read that ends its create succeeds.
CreateInspect(p) ==
  /\ At(p, "create_inspect")
  /\ \E o \in Results :
       /\ Ends(p, InspectOutcomes, o)
       /\ Then(p, o, "unlock")
       /\ IF o.exit = "ok" THEN Record(p, [want[p] EXCEPT !.size = o.disk.size])
          ELSE UNCHANGED tf
  /\ UNCHANGED Service

\* A disk that has its size already is left alone, in use or not.
ResizeInspect(p) ==
  /\ At(p, "resize_inspect")
  /\ \E o \in Results :
       /\ Ends(p, InspectOutcomes, o)
       /\ IF o.exit # "ok" THEN Fail(p, o.exit)
          ELSE CASE o.disk.size = want[p].size -> Goto(p, "unlock") /\ UNCHANGED err
                 [] o.disk.size > want[p].size -> Fail(p, "failed")
                 [] o.disk.size < want[p].size ->
                      IF busy THEN Fail(p, "inuse") ELSE Goto(p, "resize_run") /\ UNCHANGED err
  /\ UNCHANGED <<Service, tf>>

ResizeRun(p) ==
  /\ At(p, "resize_run")
  /\ \E o \in Results : Ends(p, ResizeOutcomes(want[p].size), o) /\ Then(p, o, "unlock")
  /\ UNCHANGED <<Service, tf>>

DeleteInspect(p) ==
  /\ At(p, "delete_inspect")
  /\ \E o \in Results :
       /\ Ends(p, InspectOutcomes, o)
       /\ CASE o.exit = "notfound"     -> Goto(p, "unlock") /\ UNCHANGED err
            [] o.exit = "ok" /\ busy   -> Fail(p, "inuse")
            [] OTHER                   -> Then(p, o, "delete_run")
  /\ UNCHANGED <<Service, tf>>

DeleteRun(p) ==
  /\ At(p, "delete_run")
  /\ \E o \in Results : Ends(p, DeleteOutcomes, o) /\ Then(p, o, "unlock")
  /\ UNCHANGED <<Service, tf>>

\* The service returns; a resize that succeeded is followed by a read.
Unlock(p) ==
  /\ At(p, "unlock")
  /\ Release(p, Disk)
  /\ Goto(p, IF op[p] = "resize" /\ err[p] = "ok" THEN "get" ELSE "idle")
  /\ IF op[p] = "delete" /\ err[p] = "ok" THEN Record(p, Gone) ELSE UNCHANGED tf
  /\ before' = [before EXCEPT ![p] = Gone]
  /\ UNCHANGED <<want, op, late, err, lima>>

\* An update whose read fails keeps the old state.
Get(p) ==
  /\ At(p, "get")
  /\ \E o \in Results :
       /\ Ends(p, InspectOutcomes, o)
       /\ err' = [err EXCEPT ![p] = o.exit]
       /\ IF o.exit = "ok" THEN Record(p, [want[p] EXCEPT !.size = o.disk.size])
          ELSE UNCHANGED tf
  /\ Goto(p, "idle")
  /\ UNCHANGED Service

-----------------------------------------------------------------------------
(* What happens beside the resources.                                      *)

\* An instance the disk is attached to starts.
Hold ==
  /\ Exists /\ ~busy
  /\ trouble > 0 /\ trouble' = trouble - 1
  /\ busy' = TRUE
  /\ UNCHANGED <<resources, pc, late, err, before, disk, holder>>

LetGo ==
  /\ busy /\ busy' = FALSE
  /\ UNCHANGED <<resources, pc, late, err, before, disk, trouble, holder>>

ChangeWant(p) ==
  /\ At(p, "idle")
  /\ trouble > 0 /\ trouble' = trouble - 1
  /\ \E w \in (Wishes \cup {Gone}) \ {want[p]} : want' = [want EXCEPT ![p] = w]
  /\ UNCHANGED <<tf, op, pc, late, err, before, disk, busy, holder>>

-----------------------------------------------------------------------------

Step(p) ==
  \/ LockRefused(p) \/ CreateExists(p) \/ CreateRun(p) \/ CreateInspect(p)
  \/ ResizeInspect(p) \/ ResizeRun(p) \/ DeleteInspect(p) \/ DeleteRun(p)
  \/ Unlock(p) \/ Get(p)

Next ==
  \/ \E p \in Procs : \/ Refresh(p) \/ ImportState(p) \/ Apply(p) \/ Expire(p)
                      \/ Lock(p) \/ Step(p) \/ ChangeWant(p)
  \/ Hold \/ LetGo

Spec == Init /\ [][Next]_vars

(***************************************************************************)
(* Handlers run, the lock is served (KeyedMutex), and each resource is     *)
(* refreshed and applied while there is something to apply.  No instance   *)
(* need ever let the disk go.                                              *)
(***************************************************************************)
FairSpec ==
  Spec /\ \A p \in Procs : /\ WF_vars(Step(p)) /\ SF_vars(Lock(p))
                           /\ WF_vars(Apply(p)) /\ SF_vars(Refresh(p))

-----------------------------------------------------------------------------
(* Properties.                                                             *)

Steps == {"idle", "lock", "create_exists", "create_run", "create_inspect",
          "resize_inspect", "resize_run", "delete_inspect", "delete_run", "unlock",
          "get"}

TypeOK ==
  /\ want \in [Procs -> Wishes \cup {Gone}]
  /\ tf \in [Procs -> Wishes \cup {Gone}]
  /\ pc \in [Procs -> Steps]
  /\ op \in [Procs -> {"none", "read", "import", "create", "resize", "delete"}]
  /\ late \in [Procs -> BOOLEAN]
  /\ err \in [Procs -> {"ok", "failed", "timeout", "exists", "inuse", "notfound"}]
  /\ before \in [Procs -> Disks \cup {Gone}]
  /\ disk \in Disks \cup {Gone}
  /\ busy \in BOOLEAN /\ (busy => Exists)
  /\ trouble \in 0..MaxTrouble
  /\ LockTypeOK

\* What call o for configuration w makes of the disk that was there, with error e,
\* its context done or not (x).
Kept(o, w, was, d, e, x) ==
  LET resized == [was EXCEPT !.size = w.size]
      grows == was # Gone /\ was.size < w.size
  IN CASE o = "create" ->
            CASE e = "ok"     -> was = Gone /\ d.size = w.size
              [] e = "exists" -> was # Gone /\ d = was
              [] OTHER        -> d = was \/ (was = Gone /\ d.size = w.size)
       [] o = "resize" ->
            CASE e = "ok"       -> was # Gone /\ d = resized /\ was.size <= d.size
              [] e = "inuse"    -> grows /\ d = was
              [] e = "notfound" -> was = Gone /\ d = was
              [] OTHER          -> d = was \/ (x /\ grows /\ d = resized)
       [] o = "delete" ->
            CASE e = "ok"    -> d = Gone
              [] e = "inuse" -> was # Gone /\ d = was
              [] OTHER       -> d = was \/ x

\* A call of DiskService about to return did what its result says: a success all
\* of it, a collision or a disk in use nothing.  In use is only said of a disk
\* that would have to change: a resize retried after it was killed succeeds.
ContractKept ==
  \A p \in Procs :
    At(p, "unlock") => Kept(op[p], want[p], before[p], disk, err[p], late[p])

\* An imported disk whose configuration says what it is plans clean
\* (docs/resources/disk.md:158-160).
ImportedPlansClean ==
  \A p \in Procs :
    /\ At(p, "idle") /\ op[p] = "import" /\ Exists
    /\ want[p].size = disk.size /\ want[p].format \in {NoFormat, disk.format}
    /\ tf[p].size = disk.size
    => Plan(p) = "none"

Clean(p) ==
  /\ At(p, "idle") /\ tf[p] = want[p]
  /\ want[p] # Gone => disk.size = want[p].size

\* What only the user can resolve: a disk that state does not know, whether it is
\* not the resource's or a create of the resource made it and could not read it
\* back, one in use, one that would have to shrink.
NeedsUser(p) ==
  \/ tf[p] = Gone /\ want[p] # Gone /\ Exists
  \/ tf[p] # Gone /\ tf[p] # want[p] /\ busy
  \/ Shrinks(p)

\* However often commands fail or are killed, instances take the disk and other
\* resources change it, going on refreshing and applying ends with a clean plan
\* and the disk that was asked for, or with a refusal only the user can resolve.
Converges == \A p \in Procs : <>[]Clean(p) \/ <>[]NeedsUser(p)

=============================================================================
