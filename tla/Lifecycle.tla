----------------------------- MODULE Lifecycle -----------------------------
(***************************************************************************)
(* lima.Service (internal/lima/lifecycle.go): the sequences of limactl     *)
(* commands that create, reconfigure, protect and delete instances, run by *)
(* the goroutines Terraform calls the provider from.  A step is one limactl*)
(* command, one lock operation or one read or write of sharedReady; what   *)
(* the goroutine computes between two of these belongs to the step before. *)
(*                                                                         *)
(* A call takes the lock of its instance (locks.go, through KeyedLock) and *)
(* a create the lock of the home as well, until a first create succeeded.  *)
(***************************************************************************)
EXTENDS Naturals, FiniteSets, KeyedLock, Contract

CONSTANTS Names,      (* instance names, which are also their lock keys      *)
          Home,       (* the home's lock key                                 *)
          Calls,      (* the calls the goroutines make                       *)
          NoCall,
          Deadlines,  (* contexts may be done before the call returns        *)
          UserActs    (* what users of the home do beside the provider       *)

ASSUME KeysAssumption == Home \notin Names /\ Keys = Names \cup {Home}

\* The calls and their arguments; a run is a resize that asks for no change.
CallRecords ==
  [op : {"create"}, name : Names, config : Configs, start : BOOLEAN, protect : BOOLEAN]
    \cup [op : {"resize"}, name : Names, config : Configs, want : BOOLEAN]
    \cup [op : {"run", "protect"}, name : Names, want : BOOLEAN]
    \cup [op : {"delete"}, name : Names]

ASSUME CallsAssumption ==
  /\ Calls \subseteq CallRecords /\ NoCall \notin CallRecords
  /\ Deadlines \in BOOLEAN
  /\ UserActs \subseteq {"create", "start", "stop", "delete"}

VARIABLES
  pc,           (* the next step of each goroutine                         *)
  call,         (* its call                                                *)
  expired,      (* its context is done                                     *)
  err,          (* the error its call returns, "ok" for nil                *)
  registered,   (* CreateResult.Registered                                 *)
  editing,      (* a resize found something to change                      *)
  before,       (* the instance when the call took its lock (for the       *)
                (* properties)                                             *)
  sharedReady,  (* Service.sharedReady                                     *)
  vm,           (* the instances of the home                               *)
  maker,        (* the create in progress that registered an instance (for  *)
                (* the properties)                                         *)
  keypair       (* the home has its SSH keypair                            *)

args == <<call, before>>
result == <<err, registered, editing>>
world == <<vm, maker, keypair>>
vars == <<pc, call, expired, err, registered, editing, before, sharedReady,
          vm, maker, keypair, holder>>

Op(p) == call[p].op
Name(p) == call[p].name
Instance(p) == vm[Name(p)]

Init ==
  /\ pc = [p \in Procs |-> "idle"]
  /\ call = [p \in Procs |-> NoCall]
  /\ expired = [p \in Procs |-> FALSE]
  /\ err = [p \in Procs |-> "ok"]
  /\ registered = [p \in Procs |-> FALSE]
  /\ editing = [p \in Procs |-> FALSE]
  /\ before = [p \in Procs |-> Absent]
  /\ sharedReady = FALSE
  /\ vm \in [Names -> {Absent} \cup {New(c, "stopped") : c \in Configs}]
  /\ maker = [n \in Names |-> NoProc]
  /\ keypair \in BOOLEAN
  /\ LockInit

-----------------------------------------------------------------------------
(* Steps.                                                                  *)

At(p, l) == pc[p] = l
Goto(p, l) == pc' = [pc EXCEPT ![p] = l]

\* Resize wraps the errors of the start that follows its edit.
StartSteps == {"start_inspect", "start_run", "start_degraded", "start_wait"}
Fail(p, e) ==
  err' = [err EXCEPT ![p] =
            IF editing[p] /\ pc[p] \in StartSteps THEN "restart" ELSE e]

\* How a command of p ends when limactl's outcomes are outs.  A live context
\* lets it finish, or kills it with its effect done or not; after the deadline
\* it is not started.
Ends(p, outs) ==
  IF expired[p] THEN {Outcome(Instance(p), "timeout")}
  ELSE outs \cup {Outcome(o.vm, "timeout") : o \in {q \in outs : Deadlines}}

\* A command of p ends with outcome o.
Runs(p, o) ==
  LET n == Name(p) IN
  /\ vm' = [vm EXCEPT ![n] = o.vm]
  /\ maker' = [maker EXCEPT ![n] = IF ~Listed(o.vm) THEN NoProc
                                   ELSE IF ~Listed(vm[n]) THEN p ELSE @]
  /\ expired' = [expired EXCEPT ![p] = @ \/ o.exit = "timeout"]

Inspections(p) == Ends(p, InspectOutcomes(Instance(p)))

\* The call goes on at next after a success and returns a failure's error.
OnSuccess(p, o, next) ==
  IF o.exit = "ok" THEN Goto(p, next) /\ UNCHANGED err
  ELSE Goto(p, "unlock") /\ Fail(p, o.exit)

\* What a step of a command leaves alone.
Service == <<args, registered, editing, sharedReady, keypair, holder>>

-----------------------------------------------------------------------------
(* Calls, contexts and locks.                                              *)

Begin(p, c) ==
  /\ At(p, "idle")
  /\ call' = [call EXCEPT ![p] = c]
  /\ Goto(p, IF c.op = "create" THEN "setup_ready" ELSE "lock")
  /\ UNCHANGED <<before, expired, result, sharedReady, world, holder>>

Expire(p) ==
  /\ Deadlines /\ ~At(p, "idle") /\ ~expired[p]
  /\ expired' = [expired EXCEPT ![p] = TRUE]
  /\ UNCHANGED <<pc, args, result, sharedReady, world, holder>>

\* The call returns and its goroutine forgets it.
Return(p) ==
  /\ Goto(p, "idle")
  /\ call' = [call EXCEPT ![p] = NoCall]
  /\ expired' = [expired EXCEPT ![p] = FALSE]
  /\ err' = [err EXCEPT ![p] = "ok"]
  /\ registered' = [registered EXCEPT ![p] = FALSE]
  /\ editing' = [editing EXCEPT ![p] = FALSE]
  /\ before' = [before EXCEPT ![p] = Absent]

\* awaitSharedSetup: the first read of sharedReady.
SetupReady(p) ==
  /\ At(p, "setup_ready")
  /\ Goto(p, IF sharedReady THEN "lock" ELSE "setup_lock")
  /\ UNCHANGED <<args, expired, result, sharedReady, world, holder>>

SetupLock(p) ==
  /\ At(p, "setup_lock")
  /\ Acquire(p, Home)
  /\ Goto(p, "setup_recheck")
  /\ UNCHANGED <<args, expired, result, sharedReady, world>>

SetupRefused(p) ==
  /\ At(p, "setup_lock") /\ expired[p]
  /\ Return(p)
  /\ UNCHANGED <<sharedReady, world, holder>>

\* Mutant: the second read returns without its unlock().
SetupRecheckKeepingLock(p) ==
  /\ At(p, "setup_recheck")
  /\ Goto(p, "lock")
  /\ UNCHANGED <<args, expired, result, sharedReady, world, holder>>

\* The second read, under the home's lock: another create may have finished.
SetupRecheck(p) ==
  /\ At(p, "setup_recheck")
  /\ Goto(p, "lock")
  /\ IF sharedReady THEN Release(p, Home) ELSE UNCHANGED holder
  /\ UNCHANGED <<args, expired, result, sharedReady, world>>

RunState(want) == IF want THEN "start_inspect" ELSE "stop_inspect"

FirstStep(c) ==
  CASE c.op = "create" -> "create_exists"
    [] c.op = "resize" -> "resize_inspect"
    [] c.op = "run" -> RunState(c.want)
    [] c.op = "protect" -> "protect_inspect"
    [] c.op = "delete" -> "delete_inspect"

\* Mutant: the call goes on when somebody else holds the lock.
LockInstanceShared(p) ==
  /\ At(p, "lock")
  /\ Acquire(p, Name(p)) \/ (holder[Name(p)] # NoProc /\ UNCHANGED holder)
  /\ Goto(p, FirstStep(call[p]))
  /\ before' = [before EXCEPT ![p] = Instance(p)]
  /\ UNCHANGED <<call, expired, result, sharedReady, world>>

LockInstance(p) ==
  /\ At(p, "lock")
  /\ Acquire(p, Name(p))
  /\ Goto(p, FirstStep(call[p]))
  /\ before' = [before EXCEPT ![p] = Instance(p)]
  /\ UNCHANGED <<call, expired, result, sharedReady, world>>

\* Mutant: the deferred releaseSetup is set up after the instance's lock.
LockRefusedKeepingHome(p) ==
  /\ At(p, "lock") /\ expired[p]
  /\ Return(p)
  /\ UNCHANGED <<sharedReady, world, holder>>

\* The deferred releaseSetup runs although the instance's lock was refused.
LockRefused(p) ==
  /\ At(p, "lock") /\ expired[p]
  /\ IF Holds(p, Home)
     THEN /\ Goto(p, "setup_mark") /\ Fail(p, "timeout")
          /\ UNCHANGED <<args, expired, registered, editing>>
     ELSE Return(p)
  /\ UNCHANGED <<sharedReady, world, holder>>

\* The deferred unlock, and the return of a call that does not hold the home.
Unlock(p) ==
  /\ At(p, "unlock")
  /\ Release(p, Name(p))
  /\ IF Holds(p, Home)
     THEN /\ Goto(p, "setup_mark")
          /\ UNCHANGED <<args, expired, result>>
     ELSE Return(p)
  /\ maker' = [maker EXCEPT ![Name(p)] = NoProc]
  /\ UNCHANGED <<sharedReady, vm, keypair>>

\* Mutant: any create that came this far marks the home ready.
SetupMarkAlways(p) ==
  /\ At(p, "setup_mark")
  /\ sharedReady' = TRUE
  /\ Goto(p, "setup_unlock")
  /\ UNCHANGED <<args, expired, result, world, holder>>

\* releaseSetup(res.Registered), before its unlock().
SetupMark(p) ==
  /\ At(p, "setup_mark")
  /\ sharedReady' = (sharedReady \/ registered[p])
  /\ Goto(p, "setup_unlock")
  /\ UNCHANGED <<args, expired, result, world, holder>>

SetupUnlock(p) ==
  /\ At(p, "setup_unlock")
  /\ Release(p, Home)
  /\ Return(p)
  /\ UNCHANGED <<sharedReady, world>>

-----------------------------------------------------------------------------
(* Poll: one inspection of waitForStatus or waitForAbsence.  The sleep      *)
(* between two of them ends with the context, as the next inspection does. *)

Seen(o) == IF o.exit = "ok" THEN o.vm.status ELSE o.exit

Polls(p, want, fatal, next) ==
  \E o \in Inspections(p) :
    /\ Runs(p, o)
    /\ CASE Seen(o) \in want  -> Goto(p, next) /\ UNCHANGED err
         [] Seen(o) \in fatal -> Goto(p, "unlock") /\ Fail(p, Seen(o))
         [] OTHER             -> UNCHANGED <<pc, err>>
    /\ UNCHANGED Service

\* Mutant: a failed inspection is a reason to look again, a timeout too.
WaitForStatusUndaunted(p, want, next) == Polls(p, want, {"broken"}, next)

WaitForStatus(p, want, next) == Polls(p, want, {"broken", "failed", "timeout"}, next)

WaitForAbsence(p) == Polls(p, {"notfound"}, {"failed", "timeout"}, "unlock")

-----------------------------------------------------------------------------
(* Create.                                                                 *)

AfterStart(p) ==
  IF Op(p) = "create" /\ call[p].protect THEN "create_protect"
  ELSE IF Op(p) = "create" THEN "create_inspect" ELSE "unlock"

AfterCreate(p) == IF call[p].start THEN "start_inspect" ELSE AfterStart(p)

\* The collision check, under the instance's lock.
CreateExists(p) ==
  /\ At(p, "create_exists")
  /\ \E o \in Inspections(p) :
       /\ Runs(p, o)
       /\ IF o.exit = "notfound" THEN Goto(p, "create_validate") /\ UNCHANGED err
          ELSE Goto(p, "unlock") /\ Fail(p, IF o.exit = "ok" THEN "exists" ELSE o.exit)
  /\ UNCHANGED Service

CreateValidate(p) ==
  /\ At(p, "create_validate")
  /\ \E o \in Ends(p, ValidateOutcomes(Instance(p))) :
       Runs(p, o) /\ OnSuccess(p, o, "create_run")
  /\ UNCHANGED Service

\* limactl create ended with one of outs.
Created(p, outs) ==
  \E o \in Ends(p, outs) :
    /\ Runs(p, o)
    /\ registered' = [registered EXCEPT ![p] = (o.exit = "ok")]
    /\ IF o.exit = "ok" THEN Goto(p, "create_wait") /\ UNCHANGED err
       ELSE Goto(p, "create_recheck") /\ Fail(p, o.exit)

\* limactl create in a home that has its keypair; without one it first runs
\* ssh-keygen, with no lock.
CreateRun(p) ==
  /\ At(p, "create_run")
  /\ IF keypair \/ expired[p]
     THEN Created(p, CreateOutcomes(Instance(p), call[p].config))
     ELSE Goto(p, "create_keygen") /\ UNCHANGED <<err, registered, expired, vm, maker>>
  /\ UNCHANGED <<args, editing, sharedReady, keypair, holder>>

\* ssh-keygen refuses to overwrite a keypair that appeared meanwhile.
CreateKeygen(p) ==
  /\ At(p, "create_keygen")
  /\ Created(p, IF keypair THEN {Outcome(Instance(p), "failed")}
                ELSE CreateOutcomes(Instance(p), call[p].config))
  /\ keypair' = (keypair \/ ~expired[p])
  /\ UNCHANGED <<args, editing, sharedReady, holder>>

\* Mutant: a failed create is taken to have registered nothing.
CreateRecheckSkipped(p) ==
  /\ At(p, "create_recheck")
  /\ Goto(p, "unlock")
  /\ UNCHANGED <<args, expired, result, sharedReady, world, holder>>

\* Create failed: did Lima register the instance all the same?
CreateRecheck(p) ==
  /\ At(p, "create_recheck")
  /\ \E o \in Inspections(p) :
       /\ Runs(p, o)
       /\ registered' = [registered EXCEPT ![p] = (o.exit = "ok")]
  /\ Goto(p, "unlock")
  /\ UNCHANGED <<args, err, editing, sharedReady, keypair, holder>>

CreateWait(p) ==
  /\ At(p, "create_wait")
  /\ WaitForStatus(p, {"stopped", "running"}, AfterCreate(p))

CreateProtect(p) ==
  /\ At(p, "create_protect")
  /\ \E o \in Ends(p, ProtectOutcomes(Instance(p), TRUE)) :
       Runs(p, o) /\ OnSuccess(p, o, "create_inspect")
  /\ UNCHANGED Service

CreateInspect(p) ==
  /\ At(p, "create_inspect")
  /\ \E o \in Inspections(p) : Runs(p, o) /\ OnSuccess(p, o, "unlock")
  /\ UNCHANGED Service

-----------------------------------------------------------------------------
(* startLocked and stopLocked.                                             *)

StartInspect(p) ==
  /\ At(p, "start_inspect")
  /\ \E o \in Inspections(p) :
       /\ Runs(p, o)
       /\ OnSuccess(p, o, IF Running(o.vm) THEN AfterStart(p) ELSE "start_run")
  /\ UNCHANGED Service

StartRun(p) ==
  /\ At(p, "start_run")
  /\ \E o \in Ends(p, StartOutcomes(Instance(p))) :
       /\ Runs(p, o)
       /\ IF o.exit = "ok" THEN Goto(p, "start_wait") /\ UNCHANGED err
          ELSE Goto(p, "start_degraded") /\ Fail(p, o.exit)
  /\ UNCHANGED Service

\* A failed start that left the instance running is a degraded start.
StartDegraded(p) ==
  /\ At(p, "start_degraded")
  /\ \E o \in Inspections(p) :
       /\ Runs(p, o)
       /\ IF o.exit = "ok" /\ Running(o.vm)
          THEN Goto(p, "start_wait") /\ err' = [err EXCEPT ![p] = "ok"]
          ELSE Goto(p, "unlock") /\ UNCHANGED err
  /\ UNCHANGED Service

StartWait(p) ==
  /\ At(p, "start_wait")
  /\ WaitForStatus(p, {"running"}, AfterStart(p))

AfterStop(p) == IF editing[p] THEN "edit_run" ELSE "unlock"

StopInspect(p) ==
  /\ At(p, "stop_inspect")
  /\ \E o \in Inspections(p) :
       /\ Runs(p, o)
       /\ OnSuccess(p, o, IF Stopped(o.vm) THEN AfterStop(p) ELSE "stop_run")
  /\ UNCHANGED Service

StopRun(p) ==
  /\ At(p, "stop_run")
  /\ \E o \in Ends(p, StopOutcomes(Instance(p))) :
       Runs(p, o) /\ OnSuccess(p, o, "stop_wait")
  /\ UNCHANGED Service

StopWait(p) ==
  /\ At(p, "stop_wait")
  /\ WaitForStatus(p, {"stopped"}, AfterStop(p))

-----------------------------------------------------------------------------
(* Resize.                                                                 *)

\* Mutant: the run state alone decides, the configuration is always edited.
ResizeInspectUnfiltered(p) ==
  /\ At(p, "resize_inspect")
  /\ \E o \in Inspections(p) :
       /\ Runs(p, o)
       /\ editing' = [editing EXCEPT ![p] = (o.exit = "ok")]
       /\ OnSuccess(p, o, IF Running(o.vm) THEN "stop_inspect" ELSE "edit_run")
  /\ UNCHANGED <<args, registered, sharedReady, keypair, holder>>

\* The requested values are compared with those Lima reports; without a
\* difference only the run state is reconciled.
ResizeInspect(p) ==
  /\ At(p, "resize_inspect")
  /\ \E o \in Inspections(p) :
       LET differs == o.vm.config # call[p].config IN
       /\ Runs(p, o)
       /\ editing' = [editing EXCEPT ![p] = (o.exit = "ok" /\ differs)]
       /\ OnSuccess(p, o, IF ~differs THEN RunState(call[p].want)
                          ELSE IF Running(o.vm) THEN "stop_inspect" ELSE "edit_run")
  /\ UNCHANGED <<args, registered, sharedReady, keypair, holder>>

AfterEdit(p) == IF call[p].want THEN "start_inspect" ELSE "unlock"

\* Mutant: after a failed edit the instance is brought back up.
EditRunRestoring(p) ==
  /\ At(p, "edit_run")
  /\ \E o \in Ends(p, EditOutcomes(Instance(p), call[p].config)) :
       /\ Runs(p, o)
       /\ Goto(p, AfterEdit(p)) /\ UNCHANGED err
  /\ UNCHANGED Service

EditRun(p) ==
  /\ At(p, "edit_run")
  /\ \E o \in Ends(p, EditOutcomes(Instance(p), call[p].config)) :
       Runs(p, o) /\ OnSuccess(p, o, AfterEdit(p))
  /\ UNCHANGED Service

-----------------------------------------------------------------------------
(* SetProtection and Delete.                                               *)

ProtectInspect(p) ==
  /\ At(p, "protect_inspect")
  /\ \E o \in Inspections(p) :
       /\ Runs(p, o)
       /\ OnSuccess(p, o, IF o.vm.protected = call[p].want THEN "unlock" ELSE "protect_run")
  /\ UNCHANGED Service

ProtectRun(p) ==
  /\ At(p, "protect_run")
  /\ \E o \in Ends(p, ProtectOutcomes(Instance(p), call[p].want)) :
       Runs(p, o) /\ OnSuccess(p, o, "unlock")
  /\ UNCHANGED Service

\* Mutant: the protection of an instance to delete is cleared.
DeleteInspectUnprotecting(p) ==
  /\ At(p, "delete_inspect")
  /\ \E o \in Inspections(p) :
       /\ Runs(p, [o EXCEPT !.vm.protected = FALSE])
       /\ IF o.exit = "notfound" THEN Goto(p, "unlock") /\ UNCHANGED err
          ELSE OnSuccess(p, o, "delete_run")
  /\ UNCHANGED Service

\* An absent instance is deleted already; a protected one is refused.
DeleteInspect(p) ==
  /\ At(p, "delete_inspect")
  /\ \E o \in Inspections(p) :
       /\ Runs(p, o)
       /\ IF o.exit = "notfound" THEN Goto(p, "unlock") /\ UNCHANGED err
          ELSE IF o.exit = "ok" /\ o.vm.protected
          THEN Goto(p, "unlock") /\ Fail(p, "protected")
          ELSE OnSuccess(p, o, "delete_run")
  /\ UNCHANGED Service

\* Mutant: the exit status of limactl delete is taken for the deletion.
DeleteRunUnawaited(p) ==
  /\ At(p, "delete_run")
  /\ \E o \in Ends(p, DeleteOutcomes(Instance(p))) :
       Runs(p, o) /\ OnSuccess(p, o, "unlock")
  /\ UNCHANGED Service

DeleteRun(p) ==
  /\ At(p, "delete_run")
  /\ \E o \in Ends(p, DeleteOutcomes(Instance(p))) :
       Runs(p, o) /\ OnSuccess(p, o, "delete_wait")
  /\ UNCHANGED Service

DeleteWait(p) == At(p, "delete_wait") /\ WaitForAbsence(p)

-----------------------------------------------------------------------------
(* What happens beside the provider.                                       *)

\* The file system catches up with a create or a delete.
Settle(n) ==
  /\ Settled(vm[n]) # vm[n]
  /\ vm' = [vm EXCEPT ![n] = Settled(@)]
  /\ maker' = [maker EXCEPT ![n] = IF Listed(vm'[n]) THEN @ ELSE NoProc]
  /\ UNCHANGED <<pc, args, expired, result, sharedReady, keypair, holder>>

\* A user of the home runs limactl, or another process does.
UserOutcomes(v) ==
  UNION {CASE a = "create" -> {Outcome(New(c, "stopped"), "ok") :
                                  c \in {d \in Configs : ~Listed(v)}}
           [] a = "start"  -> StartOutcomes(v)
           [] a = "stop"   -> StopOutcomes(v)
           [] a = "delete" -> DeleteOutcomes(v) : a \in UserActs}

User(n) ==
  /\ \E o \in UserOutcomes(vm[n]) : o.vm # vm[n] /\ vm' = [vm EXCEPT ![n] = o.vm]
  /\ maker' = [maker EXCEPT ![n] = IF Listed(vm[n]) /\ Listed(vm'[n]) THEN @ ELSE NoProc]
  /\ keypair' = (keypair \/ (~Listed(vm[n]) /\ Listed(vm'[n])))
  /\ UNCHANGED <<pc, args, expired, result, sharedReady, holder>>

-----------------------------------------------------------------------------

Locking(p) == SetupLock(p) \/ LockInstance(p)

Command(p) ==
  \/ CreateExists(p) \/ CreateValidate(p) \/ CreateRun(p) \/ CreateKeygen(p)
  \/ CreateRecheck(p) \/ CreateWait(p) \/ CreateProtect(p) \/ CreateInspect(p)
  \/ StartInspect(p) \/ StartRun(p) \/ StartDegraded(p) \/ StartWait(p)
  \/ StopInspect(p) \/ StopRun(p) \/ StopWait(p)
  \/ ResizeInspect(p) \/ EditRun(p)
  \/ ProtectInspect(p) \/ ProtectRun(p)
  \/ DeleteInspect(p) \/ DeleteRun(p) \/ DeleteWait(p)

Step(p) ==
  \/ SetupReady(p) \/ SetupRefused(p) \/ SetupRecheck(p) \/ SetupMark(p) \/ SetupUnlock(p)
  \/ LockRefused(p) \/ Unlock(p)
  \/ Command(p)

Next ==
  \/ \E p \in Procs : \/ \E c \in Calls : Begin(p, c)
                      \/ Expire(p)
                      \/ Locking(p)
                      \/ Step(p)
  \/ \E n \in Names : Settle(n) \/ User(n)

Spec == Init /\ [][Next]_vars

(***************************************************************************)
(* Goroutines run, limactl ends and the file system catches up (weak       *)
(* fairness); a waiter of a lock is served (strong fairness, which         *)
(* KeyedMutex earns by WaiterServed).  Nothing makes a call begin, a       *)
(* context expire or a user act.                                           *)
(***************************************************************************)
FairSpec ==
  /\ Spec
  /\ \A p \in Procs : /\ WF_vars(Step(p))
                      /\ SF_vars(SetupLock(p)) /\ SF_vars(LockInstance(p))
  /\ \A n \in Names : WF_vars(Settle(n))

\* With users and flaky inspections in the way only deadlines end a poll:
\* the provider gives every call one (instance_resource.go:556-561).
DeadlineSpec == FairSpec /\ \A p \in Procs : WF_vars(Expire(p))

-----------------------------------------------------------------------------
(* Properties.                                                             *)

Steps == {"idle", "setup_ready", "setup_lock", "setup_recheck", "lock",
          "create_exists", "create_validate", "create_run", "create_keygen",
          "create_recheck", "create_wait", "create_protect", "create_inspect",
          "start_inspect", "start_run", "start_degraded", "start_wait",
          "stop_inspect", "stop_run", "stop_wait", "resize_inspect", "edit_run",
          "protect_inspect", "protect_run", "delete_inspect", "delete_run",
          "delete_wait", "unlock", "setup_mark", "setup_unlock"}

TypeOK ==
  /\ pc \in [Procs -> Steps]
  /\ call \in [Procs -> Calls \cup {NoCall}]
  /\ \A p \in Procs : call[p] = NoCall <=> At(p, "idle")
  /\ expired \in [Procs -> BOOLEAN]
  /\ err \in [Procs -> Errors]
  /\ registered \in [Procs -> BOOLEAN]
  /\ editing \in [Procs -> BOOLEAN]
  /\ before \in [Procs -> VM]
  /\ sharedReady \in BOOLEAN
  /\ vm \in [Names -> VM]
  /\ maker \in [Names -> Procs \cup {NoProc}]
  /\ keypair \in BOOLEAN
  /\ LockTypeOK

\* What a call learned of its instance still holds when it runs the command it
\* learned it for: limactl is never asked to create a name that is taken, start
\* what runs, stop what is stopped, edit what runs, delete what is protected.
\* (Lima may turn creating into stopped between the two.)
InspectionStillTrue ==
  \A p \in Procs :
    /\ pc[p] \in {"create_run", "create_keygen"} => ~Listed(Instance(p))
    /\ At(p, "start_run") => ~Running(Instance(p))
    /\ At(p, "stop_run") => ~Stopped(Instance(p)) \/ before[p].status = "creating"
    /\ At(p, "edit_run") => ~Running(Instance(p))
    /\ At(p, "delete_run") => ~Instance(p).protected
    /\ At(p, "protect_run") => Instance(p).protected # call[p].want

\* A call that is about to return did what its result says, from the instance it
\* found: all that was asked on success (run state and protection a create was
\* given, configuration and run state a resize was given, and so on), and on an
\* error no more and no less than that error admits (Contract).
ContractKept ==
  \A p \in Procs : At(p, "unlock") =>
    Promised(call[p], before[p], Instance(p), err[p], registered[p], expired[p])

Creating(p) == At(p, "unlock") /\ Op(p) = "create"

\* A create reports an instance as registered only when it registered it, so that
\* somebody else's never gets into this resource's state; and the instance that a
\* create leaves behind when it fails before its deadline is reported, so that the
\* provider can record it (lifecycle.go:158-163).
LeftoverReported ==
  \A p \in Procs : Creating(p) =>
    /\ registered[p] => maker[Name(p)] = p
    /\ err[p] # "ok" /\ ~expired[p] /\ maker[Name(p)] = p => registered[p]

\* The same whatever the reason (docs/resources/instance.md:509-516).
EveryLeftoverReported ==
  \A p \in Procs :
    Creating(p) /\ err[p] # "ok" /\ maker[Name(p)] = p => registered[p]

\* No two creates are inside Lima's first-use initialisation of the home at
\* once (lifecycle.go:102-121).
OneInitialisation ==
  \A p \in Procs : At(p, "create_keygen") => ~keypair

\* Once the home is initialised its lock is only passed through, not held for
\* the length of a create.
HomeLockPassedThrough ==
  \A p \in Procs : sharedReady /\ Holds(p, Home) =>
    pc[p] \in {"setup_recheck", "setup_unlock"}

Held(p) == ~At(p, "idle") /\ Holds(p, Name(p))

\* A resize brings an instance up only in the configuration it was asked for: a
\* failed edit never ends with the old one silently running again
\* (lifecycle.go:357-360).
RestartOnlyAfterEdit ==
  [][\A p \in Procs : Held(p) /\ Op(p) = "resize" =>
       (~Running(Instance(p)) /\ Running(vm'[Name(p)])
          => vm'[Name(p)].config = call[p].config)]_vars

\* A resize stops a running instance only for a change it needs or because it
\* is to be stopped (lifecycle.go:386-389).
NoNeedlessStop ==
  [][\A p \in Procs : Held(p) /\ Op(p) = "resize" =>
       (Running(Instance(p)) /\ ~Running(vm'[Name(p)])
          => Instance(p).config # call[p].config \/ ~call[p].want)]_vars

\* Only a delete takes an instance away, and only one that was not protected
\* when the call took its lock: protection is never cleared for a delete, and
\* no failed create cleans up after itself.
OnlyUnprotectedDeleted ==
  [][\A n \in Names : Usable(vm[n]) /\ ~Usable(vm'[n]) =>
       \E p \in Procs : /\ Held(p) /\ Name(p) = n /\ Op(p) = "delete"
                        /\ ~before[p].protected]_vars

\* The instances as calls find and leave them: one that a call is at work on is
\* still as that call found it.
Found ==
  [n \in Names |->
     LET p == holder[n] IN IF p = NoProc \/ At(p, "unlock") THEN vm[n] ELSE before[p]]

\* What the calls that are over return.
Answered ==
  [p \in Procs |->
     IF pc[p] \in {"unlock", "setup_mark", "setup_unlock"}
     THEN [err |-> err[p], registered |-> registered[p]]
     ELSE [err |-> "none", registered |-> FALSE]]

Atomic == INSTANCE AtomicService WITH vm <- Found, answer <- Answered

\* Calls are atomic: with every interleaving of their commands, faults and ends of
\* contexts there is one instant at which a call does, to the instance it then
\* finds, all that its answer says (locks.go:11-18).
ImplementsAtomicService == Atomic!AtomicSpec

\* Every call returns while limactl answers: no lock is left behind on any
\* path, and no poll waits for what cannot come.
CallsReturn == \A p \in Procs : ~At(p, "idle") ~> At(p, "idle")

=============================================================================
