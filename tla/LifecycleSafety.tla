-------------------------- MODULE LifecycleSafety --------------------------
(***************************************************************************)
(* SafeInv, an invariant of Lifecycle for any goroutines, instances,       *)
(* configurations and calls: types, who holds which lock at which step,    *)
(* and what sharedReady says.  It needs nothing of limactl's answers or of *)
(* the home's users.                                                       *)
(*                                                                         *)
(* A command's step is framed (CommandFrame): whatever limactl did, it     *)
(* changes nothing of the other goroutines, instances and locks.  The      *)
(* proofs about Lifecycle that follow (LifecycleContract) rest on that.    *)
(***************************************************************************)
EXTENDS Lifecycle, TLAPS

-----------------------------------------------------------------------------
(* Types and locks.                                                        *)

\* An instance limactl deletes has no protection left.
Instances == {v \in VM : v.status = "deleting" => ~v.protected}

CallOps == {"create", "resize", "run", "protect", "delete"}

StopSteps == {"stop_inspect", "stop_run", "stop_wait"}

\* The commands of a call of the service.
CommandSteps(o) ==
  CASE o = "create"  -> {"create_exists", "create_validate", "create_run", "create_keygen",
                         "create_recheck", "create_wait", "create_protect",
                         "create_inspect"} \cup StartSteps
    [] o = "resize"  -> {"resize_inspect", "edit_run"} \cup StartSteps \cup StopSteps
    [] o = "run"     -> StartSteps \cup StopSteps
    [] o = "protect" -> {"protect_inspect", "protect_run"}
    [] o = "delete"  -> {"delete_inspect", "delete_run", "delete_wait"}

SetupSteps == {"setup_ready", "setup_lock", "setup_recheck"}

\* The steps between taking and releasing the lock of the call's instance.
LockedSteps == Steps \ ({"idle", "lock", "setup_mark", "setup_unlock"} \cup SetupSteps)

\* What a call has done before it takes its lock: nothing.
QuietSteps == {"idle", "lock"} \cup SetupSteps

CallSteps(p) == CommandSteps(Op(p)) \cup {"unlock"}

TypeInv ==
  /\ TypeOK
  /\ \A p \in Procs : pc[p] \in LockedSteps => pc[p] \in CallSteps(p)
  /\ \A p \in Procs : editing[p] => Op(p) = "resize"
  /\ vm \in [Names -> Instances]
  /\ before \in [Procs -> Instances]

\* A goroutine holds the lock of its call's instance from the step after it
\* took it to the one that releases it, and no other instance's.
InstanceLockInv ==
  /\ \A p \in Procs : pc[p] \in LockedSteps => Holds(p, Name(p))
  /\ \A p \in Procs : \A n \in Names : Holds(p, n) => pc[p] \in LockedSteps /\ Name(p) = n

\* Only creates hold the home's lock, and all of them release it.
HomeLockInv ==
  /\ \A p \in Procs :
       pc[p] \in {"setup_recheck", "setup_mark", "setup_unlock"} => Holds(p, Home)
  /\ \A p \in Procs :
       Holds(p, Home) => ~At(p, "idle") /\ Op(p) = "create"
                           /\ pc[p] \notin {"setup_ready", "setup_lock"}

QuietInv ==
  \A p \in Procs :
    /\ pc[p] \in QuietSteps => err[p] = "ok" /\ ~registered[p] /\ ~editing[p]
    /\ pc[p] \in SetupSteps => Op(p) = "create"

SafeInv == TypeInv /\ InstanceLockInv /\ HomeLockInv /\ QuietInv /\ HomeLockPassedThrough

-----------------------------------------------------------------------------
(* What limactl leaves, whatever goes wrong.                               *)

\* The changes the commands make to an instance leave an instance.
LEMMA InstanceForms ==
  /\ Absent \in Instances
  /\ \A c \in Configs : \A s \in {"creating", "stopped", "running", "broken"} :
       New(c, s) \in Instances
  /\ \A v \in Instances : Settled(v) \in Instances
  /\ \A v \in Instances : Listed(v) =>
       \A s \in {"creating", "stopped", "running", "broken"} :
         [v EXCEPT !.status = s] \in Instances
  /\ \A v \in Instances : Usable(v) =>
       /\ \A b \in BOOLEAN : [v EXCEPT !.protected = b] \in Instances
       /\ \A c \in Configs : [v EXCEPT !.config = c] \in Instances
       /\ ~v.protected => [v EXCEPT !.status = "deleting"] \in Instances
<1> DEFINE Present == [status : Statuses \ {"absent"}, protected : BOOLEAN, config : Configs]
<1>1. \A v \in Instances : Listed(v) => v \in Present
  BY DEF Instances, VM, Listed, Absent
<1>2. \A v \in Present : (v.status = "deleting" => ~v.protected) => v \in Instances
  BY DEF Instances, VM
<1>3. Absent \in Instances
  BY DEF Instances, VM, Absent
<1>4. \A c \in Configs : \A s \in {"creating", "stopped", "running", "broken"} :
        New(c, s) \in Instances
  <2> SUFFICES ASSUME NEW c \in Configs, NEW s \in {"creating", "stopped", "running", "broken"}
               PROVE  New(c, s) \in Instances
    OBVIOUS
  <2>1. New(c, s) \in Present
    BY DEF New, Statuses
  <2> QED
    BY <2>1, <1>2 DEF New
<1>5. \A v \in Instances : Listed(v) =>
        \A s \in {"creating", "stopped", "running", "broken"} :
          [v EXCEPT !.status = s] \in Instances
  <2> SUFFICES ASSUME NEW v \in Instances, Listed(v),
                      NEW s \in {"creating", "stopped", "running", "broken"}
               PROVE  [v EXCEPT !.status = s] \in Instances
    OBVIOUS
  <2>1. [v EXCEPT !.status = s] \in Present
    BY <1>1 DEF Statuses
  <2> QED
    BY <2>1, <1>1, <1>2
<1>6. ASSUME NEW v \in Instances, Usable(v)
      PROVE  /\ \A b \in BOOLEAN : [v EXCEPT !.protected = b] \in Instances
             /\ \A c \in Configs : [v EXCEPT !.config = c] \in Instances
             /\ ~v.protected => [v EXCEPT !.status = "deleting"] \in Instances
  <2>1. v \in Present /\ v.status # "deleting"
    BY <1>1, <1>6 DEF Usable, Listed
  <2>2. \A b \in BOOLEAN : [v EXCEPT !.protected = b] \in Instances
    BY <2>1, <1>2
  <2>3. \A c \in Configs : [v EXCEPT !.config = c] \in Instances
    BY <2>1, <1>2
  <2>4. ~v.protected => [v EXCEPT !.status = "deleting"] \in Instances
    BY <2>1, <1>2 DEF Statuses
  <2> QED
    BY <2>2, <2>3, <2>4
<1>7. \A v \in Instances : Settled(v) \in Instances
  BY <1>3, <1>5 DEF Settled, Listed
<1> QED
  BY <1>3, <1>4, <1>5, <1>6, <1>7

\* Every outcome of outs leaves an instance and ends with an error class.
Sound(outs) == \A o \in outs : o.vm \in Instances /\ o.exit \in Errors

\* So does every outcome of every command.
LEMMA OutcomesSound ==
  ASSUME NEW v \in Instances
  PROVE  /\ Sound(InspectOutcomes(v)) /\ Sound(ValidateOutcomes(v))
         /\ \A c \in Configs : Sound(CreateOutcomes(v, c))
         /\ Sound(StartOutcomes(v)) /\ Sound(StopOutcomes(v)) /\ Sound(DeleteOutcomes(v))
         /\ \A c \in Configs : Sound(EditOutcomes(v, c))
         /\ \A b \in BOOLEAN : Sound(ProtectOutcomes(v, b))
<1> USE DEF Sound, Outcome, Fault, Errors
<1>1. Sound(InspectOutcomes(v)) /\ Sound(ValidateOutcomes(v))
  BY DEF InspectOutcomes, ValidateOutcomes
<1>2. \A c \in Configs : Sound(CreateOutcomes(v, c))
  BY InstanceForms DEF CreateOutcomes
<1>3. Sound(StartOutcomes(v))
  <2>1. CASE Usable(v)
    <3>1. \A s \in {"running", "broken"} : [v EXCEPT !.status = s] \in Instances
      BY <2>1, InstanceForms DEF Usable, Listed
    <3>2. [v EXCEPT !.status = "running"] \in Instances
      BY <3>1
    <3>3. [v EXCEPT !.status = "broken"] \in Instances
      BY <3>1
    <3> QED
      BY <2>1, <3>2, <3>3 DEF StartOutcomes, Becomes
  <2> QED
    BY <2>1 DEF StartOutcomes
<1>4. Sound(StopOutcomes(v))
  <2>1. CASE Running(v)
    <3>1. [v EXCEPT !.status = "stopped"] \in Instances
      BY <2>1, InstanceForms DEF Running, Listed
    <3> QED
      BY <2>1, <3>1 DEF StopOutcomes, Becomes
  <2> QED
    BY <2>1 DEF StopOutcomes
<1>5. Sound(DeleteOutcomes(v))
  BY InstanceForms DEF DeleteOutcomes, Becomes, Usable, Listed, Instances, VM, Absent
<1>6. \A c \in Configs : Sound(EditOutcomes(v, c))
  <2> SUFFICES ASSUME NEW c \in Configs PROVE Sound(EditOutcomes(v, c))
    OBVIOUS
  <2>1. CASE Usable(v)
    <3>1. [v EXCEPT !.config = c] \in Instances
      BY <2>1, InstanceForms
    <3> QED
      BY <2>1, <3>1 DEF EditOutcomes
  <2> QED
    BY <2>1 DEF EditOutcomes
<1>7. \A b \in BOOLEAN : Sound(ProtectOutcomes(v, b))
  <2> SUFFICES ASSUME NEW b \in BOOLEAN PROVE Sound(ProtectOutcomes(v, b))
    OBVIOUS
  <2>1. CASE Usable(v)
    <3>1. [v EXCEPT !.protected = b] \in Instances
      BY <2>1, InstanceForms
    <3> QED
      BY <2>1, <3>1 DEF ProtectOutcomes
  <2> QED
    BY <2>1 DEF ProtectOutcomes
<1> QED
  BY <1>1, <1>2, <1>3, <1>4, <1>5, <1>6, <1>7

-----------------------------------------------------------------------------
(* What a command's step leaves alone.                                     *)

\* A goroutine that waits for its instance's lock or has it has a call.
LEMMA LockedCall ==
  ASSUME TypeInv, NEW p \in Procs, pc[p] \in LockedSteps \cup {"lock"} \cup SetupSteps
  PROVE  /\ call[p] \in CallRecords /\ Name(p) \in Names /\ Op(p) \in CallOps
         /\ Instance(p) \in Instances
         /\ CallSteps(p) \subseteq LockedSteps
<1>1. call[p] \in CallRecords
  BY CallsAssumption DEF TypeInv, TypeOK, At, LockedSteps, SetupSteps
<1>2. Name(p) \in Names /\ Op(p) \in CallOps
  BY <1>1 DEF CallRecords, Name, Op, CallOps
<1>3. CallSteps(p) \subseteq LockedSteps
  BY <1>2 DEF CallSteps, CallOps, CommandSteps, StartSteps, StopSteps, LockedSteps, Steps,
              SetupSteps
<1> QED
  BY <1>1, <1>2, <1>3 DEF TypeInv, Instance

\* The step of p that runs a command, and the two ways it moves on.
WorldFrame(p) ==
  /\ vm' \in [Names -> Instances]
  /\ maker' \in [Names -> Procs \cup {NoProc}]
  /\ expired' \in [Procs -> BOOLEAN]
  /\ \A n \in Names \ {Name(p)} : vm'[n] = vm[n] /\ maker'[n] = maker[n]
  /\ \A q \in Procs \ {p} : expired'[q] = expired[q]
  /\ expired[p] => expired'[p]

PcFrame(p) ==
  /\ pc' \in [Procs -> Steps] /\ pc'[p] \in CallSteps(p)
  /\ err' \in [Procs -> Errors]
  /\ \A q \in Procs \ {p} : pc'[q] = pc[q] /\ err'[q] = err[q]

ResultFrame(p) ==
  /\ registered' \in [Procs -> BOOLEAN] /\ editing' \in [Procs -> BOOLEAN]
  /\ editing'[p] => Op(p) = "resize"
  /\ \A q \in Procs \ {p} : registered'[q] = registered[q] /\ editing'[q] = editing[q]

CommandFrame(p) ==
  /\ pc[p] \in LockedSteps
  /\ WorldFrame(p) /\ PcFrame(p) /\ ResultFrame(p)
  /\ keypair' \in BOOLEAN
  /\ UNCHANGED <<call, before, sharedReady, holder>>

\* A deadline adds no other outcome.
LEMMA EndsSound ==
  ASSUME TypeInv, NEW p \in Procs, Instance(p) \in Instances, NEW outs, Sound(outs)
  PROVE  Sound(Ends(p, outs))
BY DEF Sound, Ends, Outcome, Errors

\* What a command's end changes of the home.
LEMMA RunsWorld ==
  ASSUME TypeInv, NEW p \in Procs, Name(p) \in Names,
         NEW o, o.vm \in Instances, Runs(p, o)
  PROVE  /\ WorldFrame(p)
         /\ vm'[Name(p)] = o.vm
         /\ expired'[p] = (expired[p] \/ o.exit = "timeout")
         /\ maker'[Name(p)] = IF ~Listed(o.vm) THEN NoProc
                              ELSE IF ~Listed(Instance(p)) THEN p ELSE maker[Name(p)]
<1>1. /\ vm' \in [Names -> Instances] /\ vm'[Name(p)] = o.vm
      /\ \A n \in Names \ {Name(p)} : vm'[n] = vm[n]
  BY DEF TypeInv, Runs
<1>2. /\ maker' \in [Names -> Procs \cup {NoProc}]
      /\ \A n \in Names \ {Name(p)} : maker'[n] = maker[n]
      /\ maker'[Name(p)] = IF ~Listed(o.vm) THEN NoProc
                           ELSE IF ~Listed(Instance(p)) THEN p ELSE maker[Name(p)]
  BY DEF TypeInv, TypeOK, Runs, Instance
<1>3. /\ expired' \in [Procs -> BOOLEAN]
      /\ \A q \in Procs \ {p} : expired'[q] = expired[q]
      /\ expired'[p] = (expired[p] \/ o.exit = "timeout")
  BY DEF TypeInv, TypeOK, Runs
<1> QED
  BY <1>1, <1>2, <1>3 DEF WorldFrame

\* The error a failed step records.
LEMMA FailErr ==
  ASSUME TypeInv, NEW p \in Procs, NEW e \in Errors, Fail(p, e)
  PROVE  /\ err' \in [Procs -> Errors]
         /\ \A q \in Procs \ {p} : err'[q] = err[q]
         /\ err'[p] = IF editing[p] /\ pc[p] \in StartSteps THEN "restart" ELSE e
BY DEF TypeInv, TypeOK, Fail, Errors

\* Going on at l moves p and nobody else.
LEMMA GotoPc ==
  ASSUME TypeInv, NEW p \in Procs, NEW l \in LockedSteps, Goto(p, l)
  PROVE  /\ pc' \in [Procs -> Steps] /\ pc'[p] = l
         /\ \A q \in Procs \ {p} : pc'[q] = pc[q]
BY DEF TypeInv, TypeOK, Goto, LockedSteps

\* The call that a step belongs to.
LEMMA StepOp ==
  ASSUME TypeInv, NEW p \in Procs, pc[p] \in LockedSteps
  PROVE  /\ pc[p] \in {"create_exists", "create_validate", "create_run", "create_keygen",
                       "create_recheck", "create_wait", "create_protect", "create_inspect"}
              => Op(p) = "create" /\ call[p].config \in Configs
                   /\ call[p].start \in BOOLEAN /\ call[p].protect \in BOOLEAN
         /\ pc[p] \in StartSteps => Op(p) \in {"create", "resize", "run"}
         /\ pc[p] \in StopSteps => Op(p) \in {"resize", "run"} /\ call[p].want \in BOOLEAN
         /\ pc[p] \in {"resize_inspect", "edit_run"}
              => Op(p) = "resize" /\ call[p].config \in Configs /\ call[p].want \in BOOLEAN
         /\ pc[p] \in {"protect_inspect", "protect_run"}
              => Op(p) = "protect" /\ call[p].want \in BOOLEAN
         /\ pc[p] \in {"delete_inspect", "delete_run", "delete_wait"} => Op(p) = "delete"
<1>1. call[p] \in CallRecords /\ Op(p) \in CallOps
  BY LockedCall
<1>2. pc[p] \in CallSteps(p)
  BY DEF TypeInv
<1>3. /\ pc[p] \in {"create_exists", "create_validate", "create_run", "create_keygen",
                    "create_recheck", "create_wait", "create_protect", "create_inspect"}
           => Op(p) = "create"
      /\ pc[p] \in StartSteps => Op(p) \in {"create", "resize", "run"}
      /\ pc[p] \in StopSteps => Op(p) \in {"resize", "run"}
      /\ pc[p] \in {"resize_inspect", "edit_run"} => Op(p) = "resize"
      /\ pc[p] \in {"protect_inspect", "protect_run"} => Op(p) = "protect"
      /\ pc[p] \in {"delete_inspect", "delete_run", "delete_wait"} => Op(p) = "delete"
  BY <1>1, <1>2 DEF CallOps, CallSteps, CommandSteps, StartSteps, StopSteps
<1>4. /\ Op(p) = "create" => call[p].config \in Configs
                   /\ call[p].start \in BOOLEAN /\ call[p].protect \in BOOLEAN
      /\ Op(p) = "resize" => call[p].config \in Configs /\ call[p].want \in BOOLEAN
      /\ Op(p) \in {"run", "protect"} => call[p].want \in BOOLEAN
  BY <1>1 DEF CallRecords, Op
<1> QED
  BY <1>3, <1>4

\* The steps the service goes on at are steps of the same call.
LEMMA NextSteps ==
  ASSUME TypeInv, NEW p \in Procs, pc[p] \in LockedSteps
  PROVE  /\ "unlock" \in CallSteps(p)
         /\ Op(p) = "create" =>
              {"create_validate", "create_run", "create_wait", "create_recheck",
               "create_keygen", "create_inspect", "create_protect"} \subseteq CallSteps(p)
         /\ pc[p] \in StartSteps => StartSteps \subseteq CallSteps(p)
         /\ Op(p) \in {"resize", "run"} => StopSteps \cup StartSteps \subseteq CallSteps(p)
         /\ Op(p) = "resize" => "edit_run" \in CallSteps(p)
         /\ Op(p) = "protect" => "protect_run" \in CallSteps(p)
         /\ Op(p) = "delete" => {"delete_run", "delete_wait"} \subseteq CallSteps(p)
         /\ AfterStart(p) \in CallSteps(p)
         /\ Op(p) = "create" => AfterCreate(p) \in CallSteps(p)
         /\ Op(p) = "resize" => AfterEdit(p) \in CallSteps(p)
         /\ pc[p] \in StopSteps /\ (editing[p] => Op(p) = "resize") => AfterStop(p) \in CallSteps(p)
         /\ Op(p) \in {"resize", "run"} => \A b \in BOOLEAN : RunState(b) \in CallSteps(p)
<1>1. Op(p) \in CallOps
  BY LockedCall
<1>2. pc[p] \in StartSteps => Op(p) \in {"create", "resize", "run"}
  BY StepOp
<1> QED
  BY <1>1, <1>2 DEF CallOps, CallSteps, CommandSteps, StartSteps, StopSteps, AfterStart,
                    AfterCreate, AfterStop, AfterEdit, RunState

\* How a command's step moves on: silently, or with an error.
LEMMA MovesOn ==
  ASSUME TypeInv, NEW p \in Procs, pc[p] \in LockedSteps,
         NEW l \in CallSteps(p), Goto(p, l), UNCHANGED err
  PROVE  PcFrame(p) /\ pc'[p] = l /\ err'[p] = err[p]
<1>1. l \in LockedSteps /\ err \in [Procs -> Errors]
  BY LockedCall DEF TypeInv, TypeOK
<1> QED
  BY <1>1, GotoPc DEF PcFrame

\* Or with an error to return.
LEMMA FailsOn ==
  ASSUME TypeInv, NEW p \in Procs, pc[p] \in LockedSteps,
         NEW l \in CallSteps(p), Goto(p, l), NEW e \in Errors, Fail(p, e)
  PROVE  /\ PcFrame(p) /\ pc'[p] = l
         /\ err'[p] = IF editing[p] /\ pc[p] \in StartSteps THEN "restart" ELSE e
<1>1. l \in LockedSteps
  BY LockedCall
<1> QED
  BY <1>1, GotoPc, FailErr DEF PcFrame

\* OnSuccess is one or the other.
LEMMA OnSuccessPc ==
  ASSUME TypeInv, NEW p \in Procs, pc[p] \in LockedSteps, NEW l \in CallSteps(p),
         NEW o, o.exit \in Errors, OnSuccess(p, o, l)
  PROVE  /\ PcFrame(p)
         /\ o.exit = "ok" => pc'[p] = l /\ err'[p] = err[p]
         /\ o.exit # "ok" =>
              /\ pc'[p] = "unlock"
              /\ err'[p] = IF editing[p] /\ pc[p] \in StartSteps THEN "restart" ELSE o.exit
<1>1. CASE o.exit = "ok"
  BY <1>1, MovesOn DEF OnSuccess
<1>2. CASE o.exit # "ok"
  BY <1>2, FailsOn, NextSteps DEF OnSuccess
<1> QED
  BY <1>1, <1>2

\* A step that leaves Service alone.
LEMMA UnchangedResult ==
  ASSUME TypeInv, NEW p \in Procs, UNCHANGED Service
  PROVE  /\ ResultFrame(p) /\ keypair' \in BOOLEAN
         /\ UNCHANGED <<args, sharedReady, holder>>
BY DEF ResultFrame, Service, args, TypeInv, TypeOK

\* A poll.
LEMMA PollsFrame ==
  ASSUME TypeInv, NEW p \in Procs, pc[p] \in LockedSteps,
         NEW want, NEW fatal, fatal \subseteq Errors, want \cap fatal = {},
         NEW l \in CallSteps(p), Polls(p, want, fatal, l)
  PROVE  CommandFrame(p)
<1>1. PICK o \in Inspections(p) :
        /\ Runs(p, o)
        /\ CASE Seen(o) \in want  -> Goto(p, l) /\ UNCHANGED err
             [] Seen(o) \in fatal -> Goto(p, "unlock") /\ Fail(p, Seen(o))
             [] OTHER             -> UNCHANGED <<pc, err>>
        /\ UNCHANGED Service
  BY DEF Polls
<1>2. o.vm \in Instances /\ o.exit \in Errors
  BY LockedCall, EndsSound, OutcomesSound DEF Inspections, Sound
<1>3. WorldFrame(p)
  BY <1>1, <1>2, LockedCall, RunsWorld
<1>4. PcFrame(p)
  <2>1. CASE Seen(o) \in want
    <3>1. Goto(p, l) /\ UNCHANGED err
      BY <1>1, <2>1
    <3> QED
      BY <3>1, MovesOn
  <2>2. CASE Seen(o) \notin want /\ Seen(o) \in fatal
    <3>1. Goto(p, "unlock") /\ Fail(p, Seen(o)) /\ Seen(o) \in Errors
      BY <1>1, <2>2
    <3> QED
      BY <3>1, FailsOn, NextSteps
  <2>3. CASE Seen(o) \notin want /\ Seen(o) \notin fatal
    <3>1. UNCHANGED <<pc, err>>
      BY <1>1, <2>3
    <3> QED
      BY <3>1 DEF PcFrame, TypeInv, TypeOK
  <2> QED
    BY <2>1, <2>2, <2>3
<1> QED
  BY <1>1, <1>3, <1>4, UnchangedResult DEF CommandFrame, args

-----------------------------------------------------------------------------
(* Every command's step is framed.                                         *)

\* One command's step that goes on by OnSuccess.
LEMMA SimpleFrame ==
  ASSUME TypeInv, NEW p \in Procs, pc[p] \in LockedSteps,
         NEW outs, Sound(outs), NEW o \in Ends(p, outs), Runs(p, o),
         NEW l \in CallSteps(p), OnSuccess(p, o, l),
         UNCHANGED Service
  PROVE  CommandFrame(p)
<1>1. o.vm \in Instances /\ o.exit \in Errors
  BY LockedCall, EndsSound DEF Sound
<1>2. WorldFrame(p) /\ PcFrame(p)
  BY <1>1, LockedCall, RunsWorld, OnSuccessPc
<1> QED
  BY <1>2 DEF CommandFrame, ResultFrame, Service, args, TypeInv, TypeOK

\* One that computes where it goes on itself.
LEMMA ChosenFrame ==
  ASSUME TypeInv, NEW p \in Procs, pc[p] \in LockedSteps,
         NEW outs, Sound(outs), NEW o \in Ends(p, outs), Runs(p, o),
         PcFrame(p), ResultFrame(p), keypair' \in BOOLEAN,
         UNCHANGED <<args, sharedReady, holder>>
  PROVE  CommandFrame(p)
<1>1. o.vm \in Instances
  BY LockedCall, EndsSound DEF Sound
<1> QED
  BY <1>1, LockedCall, RunsWorld DEF CommandFrame, args

\* limactl create, with or without ssh-keygen.
LEMMA CreatedFrame ==
  ASSUME TypeInv, NEW p \in Procs, pc[p] \in LockedSteps, Op(p) = "create",
         NEW outs, Sound(outs), Created(p, outs), keypair' \in BOOLEAN,
         UNCHANGED <<args, editing, sharedReady, holder>>
  PROVE  CommandFrame(p)
<1>1. PICK o \in Ends(p, outs) :
        /\ Runs(p, o)
        /\ registered' = [registered EXCEPT ![p] = (o.exit = "ok")]
        /\ IF o.exit = "ok" THEN Goto(p, "create_wait") /\ UNCHANGED err
           ELSE Goto(p, "create_recheck") /\ Fail(p, o.exit)
  BY DEF Created
<1>2. o.exit \in Errors
  BY LockedCall, EndsSound DEF Sound
<1>3. PcFrame(p)
  <2>1. CASE o.exit = "ok"
    BY <1>1, <2>1, MovesOn, NextSteps
  <2>2. CASE o.exit # "ok"
    BY <1>1, <1>2, <2>2, FailsOn, NextSteps
  <2> QED
    BY <2>1, <2>2
<1>4. ResultFrame(p)
  BY <1>1 DEF ResultFrame, TypeInv, TypeOK
<1> QED
  BY <1>1, <1>3, <1>4, ChosenFrame

\* The commands of a create.
LEMMA CreateFrame ==
  ASSUME TypeInv, NEW p \in Procs,
         \/ CreateExists(p) \/ CreateValidate(p) \/ CreateRun(p) \/ CreateKeygen(p)
         \/ CreateRecheck(p) \/ CreateWait(p) \/ CreateProtect(p) \/ CreateInspect(p)
  PROVE  CommandFrame(p)
<1>0. pc[p] \in LockedSteps
  BY DEF CreateExists, CreateValidate, CreateRun, CreateKeygen, CreateRecheck, CreateWait,
         CreateProtect, CreateInspect, At, LockedSteps, Steps, SetupSteps
<1>1. /\ Op(p) = "create" /\ Instance(p) \in Instances
      /\ call[p].config \in Configs /\ call[p].start \in BOOLEAN
  BY <1>0, LockedCall, StepOp
     DEF CreateExists, CreateValidate, CreateRun, CreateKeygen, CreateRecheck, CreateWait,
         CreateProtect, CreateInspect, At
<1>2. CASE CreateExists(p)
  <2>1. PICK o \in Ends(p, InspectOutcomes(Instance(p))) :
          /\ Runs(p, o)
          /\ IF o.exit = "notfound" THEN Goto(p, "create_validate") /\ UNCHANGED err
             ELSE Goto(p, "unlock") /\ Fail(p, IF o.exit = "ok" THEN "exists" ELSE o.exit)
    BY <1>2 DEF CreateExists, Inspections
  <2>2. UNCHANGED Service
    BY <1>2 DEF CreateExists
  <2>3. (IF o.exit = "ok" THEN "exists" ELSE o.exit) \in Errors
    BY <1>1, EndsSound, OutcomesSound DEF Sound, Errors
  <2>4. PcFrame(p)
    <3>1. CASE o.exit = "notfound"
      BY <1>0, <1>1, <2>1, <3>1, MovesOn, NextSteps
    <3>2. CASE o.exit # "notfound"
      BY <1>0, <2>1, <2>3, <3>2, FailsOn, NextSteps
    <3> QED
      BY <3>1, <3>2
  <2> QED
    BY <1>0, <1>1, <2>1, <2>2, <2>4, UnchangedResult, ChosenFrame, OutcomesSound
<1>3. CASE CreateValidate(p)
  <2>1. PICK o \in Ends(p, ValidateOutcomes(Instance(p))) :
          Runs(p, o) /\ OnSuccess(p, o, "create_run")
    BY <1>3 DEF CreateValidate
  <2>2. UNCHANGED Service
    BY <1>3 DEF CreateValidate
  <2> QED
    BY <1>0, <1>1, <2>1, <2>2, SimpleFrame, OutcomesSound, NextSteps
<1>4. CASE CreateRun(p)
  <2>0. Sound(CreateOutcomes(Instance(p), call[p].config))
    BY <1>1, OutcomesSound
  <2>1. UNCHANGED <<args, editing, sharedReady, keypair, holder>> /\ keypair' \in BOOLEAN
    BY <1>4 DEF CreateRun, TypeInv, TypeOK
  <2>2. CASE keypair \/ expired[p]
    BY <1>0, <1>1, <1>4, <2>0, <2>1, <2>2, CreatedFrame DEF CreateRun
  <2>3. CASE ~(keypair \/ expired[p])
    <3>1. Goto(p, "create_keygen") /\ UNCHANGED <<err, registered, expired, vm, maker>>
      BY <1>4, <2>3 DEF CreateRun
    <3>2. PcFrame(p)
      BY <1>0, <1>1, <3>1, MovesOn, NextSteps
    <3>3. WorldFrame(p)
      BY <3>1 DEF WorldFrame, TypeInv, TypeOK
    <3>4. ResultFrame(p)
      BY <2>1, <3>1 DEF ResultFrame, TypeInv, TypeOK
    <3> QED
      BY <1>0, <2>1, <3>2, <3>3, <3>4 DEF CommandFrame, args
  <2> QED
    BY <2>2, <2>3
<1>5. CASE CreateKeygen(p)
  <2>0. Sound(CreateOutcomes(Instance(p), call[p].config))
    BY <1>1, OutcomesSound
  <2>1. Sound(IF keypair THEN {Outcome(Instance(p), "failed")}
              ELSE CreateOutcomes(Instance(p), call[p].config))
    BY <1>1, <2>0 DEF Sound, Outcome, Errors
  <2>2. keypair' \in BOOLEAN
    BY <1>5 DEF CreateKeygen, TypeInv, TypeOK
  <2> QED
    BY <1>0, <1>1, <1>5, <2>1, <2>2, CreatedFrame DEF CreateKeygen
<1>6. CASE CreateRecheck(p)
  <2>1. PICK o \in Ends(p, InspectOutcomes(Instance(p))) :
          /\ Runs(p, o)
          /\ registered' = [registered EXCEPT ![p] = (o.exit = "ok")]
    BY <1>6 DEF CreateRecheck, Inspections
  <2>2. Goto(p, "unlock") /\ UNCHANGED <<args, err, editing, sharedReady, keypair, holder>>
    BY <1>6 DEF CreateRecheck
  <2>3. PcFrame(p)
    BY <1>0, <2>2, MovesOn, NextSteps
  <2>4. ResultFrame(p) /\ keypair' \in BOOLEAN
    BY <2>1, <2>2 DEF ResultFrame, TypeInv, TypeOK
  <2> QED
    BY <1>0, <1>1, <2>1, <2>2, <2>3, <2>4, ChosenFrame, OutcomesSound
<1>7. CASE CreateWait(p)
  <2>1. {"broken", "failed", "timeout"} \subseteq Errors
    BY DEF Errors
  <2> QED
    BY <1>0, <1>1, <1>7, <2>1, PollsFrame, NextSteps DEF CreateWait, WaitForStatus
<1>8. CASE CreateProtect(p)
  <2>1. PICK o \in Ends(p, ProtectOutcomes(Instance(p), TRUE)) :
          Runs(p, o) /\ OnSuccess(p, o, "create_inspect")
    BY <1>8 DEF CreateProtect
  <2>2. UNCHANGED Service
    BY <1>8 DEF CreateProtect
  <2> QED
    BY <1>0, <1>1, <2>1, <2>2, SimpleFrame, OutcomesSound, NextSteps
<1>9. CASE CreateInspect(p)
  <2>1. PICK o \in Ends(p, InspectOutcomes(Instance(p))) :
          Runs(p, o) /\ OnSuccess(p, o, "unlock")
    BY <1>9 DEF CreateInspect, Inspections
  <2>2. UNCHANGED Service
    BY <1>9 DEF CreateInspect
  <2> QED
    BY <1>0, <1>1, <2>1, <2>2, SimpleFrame, OutcomesSound, NextSteps
<1> QED
  BY <1>2, <1>3, <1>4, <1>5, <1>6, <1>7, <1>8, <1>9

\* The commands of startLocked and stopLocked.
LEMMA StartStopFrame ==
  ASSUME TypeInv, NEW p \in Procs,
         \/ StartInspect(p) \/ StartRun(p) \/ StartDegraded(p) \/ StartWait(p)
         \/ StopInspect(p) \/ StopRun(p) \/ StopWait(p)
  PROVE  CommandFrame(p)
<1>0. pc[p] \in LockedSteps
  BY DEF StartInspect, StartRun, StartDegraded, StartWait, StopInspect, StopRun, StopWait,
         At, LockedSteps, Steps, SetupSteps
<1>1. Instance(p) \in Instances /\ Sound(InspectOutcomes(Instance(p)))
  BY <1>0, LockedCall, OutcomesSound
<1>a. /\ "unlock" \in CallSteps(p) /\ AfterStart(p) \in CallSteps(p)
      /\ pc[p] \in StartSteps => StartSteps \subseteq CallSteps(p)
      /\ pc[p] \in StopSteps => StopSteps \subseteq CallSteps(p) /\ AfterStop(p) \in CallSteps(p)
  <2>1. editing[p] => Op(p) = "resize"
    BY DEF TypeInv
  <2> QED
    BY <1>0, <2>1, NextSteps, StepOp
<1>2. CASE StartInspect(p)
  <2>1. PICK o \in Ends(p, InspectOutcomes(Instance(p))) :
          /\ Runs(p, o)
          /\ OnSuccess(p, o, IF Running(o.vm) THEN AfterStart(p) ELSE "start_run")
    BY <1>2 DEF StartInspect, Inspections
  <2>2. UNCHANGED Service
    BY <1>2 DEF StartInspect
  <2>3. (IF Running(o.vm) THEN AfterStart(p) ELSE "start_run") \in CallSteps(p)
    BY <1>2, <1>a DEF StartInspect, At, StartSteps
  <2> QED
    BY <1>0, <1>1, <2>1, <2>2, <2>3, SimpleFrame
<1>3. CASE StartRun(p)
  <2>1. PICK o \in Ends(p, StartOutcomes(Instance(p))) :
          /\ Runs(p, o)
          /\ IF o.exit = "ok" THEN Goto(p, "start_wait") /\ UNCHANGED err
             ELSE Goto(p, "start_degraded") /\ Fail(p, o.exit)
    BY <1>3 DEF StartRun
  <2>2. UNCHANGED Service
    BY <1>3 DEF StartRun
  <2>3. o.exit \in Errors /\ Sound(StartOutcomes(Instance(p)))
    BY <1>1, EndsSound, OutcomesSound DEF Sound
  <2>4. "start_wait" \in CallSteps(p) /\ "start_degraded" \in CallSteps(p)
    BY <1>3, <1>a DEF StartRun, At, StartSteps
  <2>5. PcFrame(p)
    <3>1. CASE o.exit = "ok"
      BY <1>0, <2>1, <2>4, <3>1, MovesOn
    <3>2. CASE o.exit # "ok"
      BY <1>0, <2>1, <2>3, <2>4, <3>2, FailsOn
    <3> QED
      BY <3>1, <3>2
  <2> QED
    BY <1>0, <2>1, <2>2, <2>3, <2>5, UnchangedResult, ChosenFrame
<1>4. CASE StartDegraded(p)
  <2>1. PICK o \in Ends(p, InspectOutcomes(Instance(p))) :
          /\ Runs(p, o)
          /\ IF o.exit = "ok" /\ Running(o.vm)
             THEN Goto(p, "start_wait") /\ err' = [err EXCEPT ![p] = "ok"]
             ELSE Goto(p, "unlock") /\ UNCHANGED err
    BY <1>4 DEF StartDegraded, Inspections
  <2>2. UNCHANGED Service
    BY <1>4 DEF StartDegraded
  <2>3. "start_wait" \in CallSteps(p) /\ "start_wait" \in LockedSteps
    BY <1>0, <1>4, <1>a, LockedCall DEF StartDegraded, At, StartSteps
  <2>4. PcFrame(p)
    <3>1. CASE o.exit = "ok" /\ Running(o.vm)
      BY <2>1, <2>3, <3>1, GotoPc DEF PcFrame, TypeInv, TypeOK, Errors
    <3>2. CASE ~(o.exit = "ok" /\ Running(o.vm))
      BY <1>0, <1>a, <2>1, <3>2, MovesOn
    <3> QED
      BY <3>1, <3>2
  <2> QED
    BY <1>0, <1>1, <2>1, <2>2, <2>4, UnchangedResult, ChosenFrame
<1>5. CASE StartWait(p)
  <2>1. {"broken", "failed", "timeout"} \subseteq Errors
    BY DEF Errors
  <2> QED
    BY <1>0, <1>5, <1>a, <2>1, PollsFrame DEF StartWait, WaitForStatus
<1>6. CASE StopInspect(p)
  <2>1. PICK o \in Ends(p, InspectOutcomes(Instance(p))) :
          /\ Runs(p, o)
          /\ OnSuccess(p, o, IF Stopped(o.vm) THEN AfterStop(p) ELSE "stop_run")
    BY <1>6 DEF StopInspect, Inspections
  <2>2. UNCHANGED Service
    BY <1>6 DEF StopInspect
  <2>3. (IF Stopped(o.vm) THEN AfterStop(p) ELSE "stop_run") \in CallSteps(p)
    BY <1>6, <1>a DEF StopInspect, At, StopSteps
  <2> QED
    BY <1>0, <1>1, <2>1, <2>2, <2>3, SimpleFrame
<1>7. CASE StopRun(p)
  <2>1. PICK o \in Ends(p, StopOutcomes(Instance(p))) :
          Runs(p, o) /\ OnSuccess(p, o, "stop_wait")
    BY <1>7 DEF StopRun
  <2>2. UNCHANGED Service /\ "stop_wait" \in CallSteps(p)
    BY <1>7, <1>a DEF StopRun, At, StopSteps
  <2>3. Sound(StopOutcomes(Instance(p)))
    BY <1>1, OutcomesSound
  <2> QED
    BY <1>0, <2>1, <2>2, <2>3, SimpleFrame
<1>8. CASE StopWait(p)
  <2>1. {"broken", "failed", "timeout"} \subseteq Errors /\ AfterStop(p) \in CallSteps(p)
    BY <1>8, <1>a DEF Errors, StopWait, At, StopSteps
  <2> QED
    BY <1>0, <1>8, <2>1, PollsFrame DEF StopWait, WaitForStatus
<1> QED
  BY <1>2, <1>3, <1>4, <1>5, <1>6, <1>7, <1>8

\* The commands of a resize.
LEMMA ResizeFrame ==
  ASSUME TypeInv, NEW p \in Procs, ResizeInspect(p) \/ EditRun(p)
  PROVE  CommandFrame(p)
<1>0. pc[p] \in LockedSteps
  BY DEF ResizeInspect, EditRun, At, LockedSteps, Steps, SetupSteps
<1>1. /\ Instance(p) \in Instances /\ Op(p) = "resize"
      /\ call[p].config \in Configs /\ call[p].want \in BOOLEAN
  BY <1>0, LockedCall, StepOp DEF ResizeInspect, EditRun, At
<1>a. {"unlock", "stop_inspect", "edit_run", AfterEdit(p), RunState(call[p].want)}
         \subseteq CallSteps(p)
  BY <1>0, <1>1, NextSteps DEF StopSteps
<1>2. CASE ResizeInspect(p)
  <2>1. PICK o \in Ends(p, InspectOutcomes(Instance(p))) :
          LET differs == o.vm.config # call[p].config IN
          /\ Runs(p, o)
          /\ editing' = [editing EXCEPT ![p] = (o.exit = "ok" /\ differs)]
          /\ OnSuccess(p, o, IF ~differs THEN RunState(call[p].want)
                             ELSE IF Running(o.vm) THEN "stop_inspect" ELSE "edit_run")
    BY <1>2 DEF ResizeInspect, Inspections
  <2>2. o.exit \in Errors
    BY <1>1, EndsSound, OutcomesSound DEF Sound
  <2>3. PcFrame(p)
    BY <1>0, <1>a, <2>1, <2>2, OnSuccessPc
  <2>4. UNCHANGED <<args, registered, sharedReady, keypair, holder>>
    BY <1>2 DEF ResizeInspect
  <2>5. ResultFrame(p) /\ keypair' \in BOOLEAN
    BY <1>1, <2>1, <2>4 DEF ResultFrame, TypeInv, TypeOK
  <2> QED
    BY <1>0, <1>1, <2>1, <2>3, <2>4, <2>5, ChosenFrame, OutcomesSound
<1>3. CASE EditRun(p)
  <2>1. PICK o \in Ends(p, EditOutcomes(Instance(p), call[p].config)) :
          Runs(p, o) /\ OnSuccess(p, o, AfterEdit(p))
    BY <1>3 DEF EditRun
  <2>2. UNCHANGED Service
    BY <1>3 DEF EditRun
  <2> QED
    BY <1>0, <1>1, <1>a, <2>1, <2>2, SimpleFrame, OutcomesSound
<1> QED
  BY <1>2, <1>3

\* The commands of SetProtection and Delete.
LEMMA ProtectDeleteFrame ==
  ASSUME TypeInv, NEW p \in Procs,
         \/ ProtectInspect(p) \/ ProtectRun(p)
         \/ DeleteInspect(p) \/ DeleteRun(p) \/ DeleteWait(p)
  PROVE  CommandFrame(p)
<1>0. pc[p] \in LockedSteps
  BY DEF ProtectInspect, ProtectRun, DeleteInspect, DeleteRun, DeleteWait, At, LockedSteps,
         Steps, SetupSteps
<1>1. Instance(p) \in Instances /\ Sound(InspectOutcomes(Instance(p)))
  BY <1>0, LockedCall, OutcomesSound
<1>a. /\ "unlock" \in CallSteps(p)
      /\ pc[p] \in {"protect_inspect", "protect_run"} =>
           "protect_run" \in CallSteps(p) /\ call[p].want \in BOOLEAN
      /\ pc[p] \in {"delete_inspect", "delete_run", "delete_wait"} =>
           {"delete_run", "delete_wait"} \subseteq CallSteps(p)
  BY <1>0, NextSteps, StepOp
<1>2. CASE ProtectInspect(p)
  <2>1. PICK o \in Ends(p, InspectOutcomes(Instance(p))) :
          /\ Runs(p, o)
          /\ OnSuccess(p, o, IF o.vm.protected = call[p].want THEN "unlock" ELSE "protect_run")
    BY <1>2 DEF ProtectInspect, Inspections
  <2>2. /\ UNCHANGED Service
        /\ (IF o.vm.protected = call[p].want THEN "unlock" ELSE "protect_run") \in CallSteps(p)
    BY <1>2, <1>a DEF ProtectInspect, At
  <2> QED
    BY <1>0, <1>1, <2>1, <2>2, SimpleFrame
<1>3. CASE ProtectRun(p)
  <2>1. PICK o \in Ends(p, ProtectOutcomes(Instance(p), call[p].want)) :
          Runs(p, o) /\ OnSuccess(p, o, "unlock")
    BY <1>3 DEF ProtectRun
  <2>2. UNCHANGED Service /\ Sound(ProtectOutcomes(Instance(p), call[p].want))
    BY <1>1, <1>3, <1>a, OutcomesSound DEF ProtectRun, At
  <2> QED
    BY <1>0, <1>a, <2>1, <2>2, SimpleFrame
<1>4. CASE DeleteInspect(p)
  <2>1. PICK o \in Ends(p, InspectOutcomes(Instance(p))) :
          /\ Runs(p, o)
          /\ IF o.exit = "notfound" THEN Goto(p, "unlock") /\ UNCHANGED err
             ELSE IF o.exit = "ok" /\ o.vm.protected
             THEN Goto(p, "unlock") /\ Fail(p, "protected")
             ELSE OnSuccess(p, o, "delete_run")
    BY <1>4 DEF DeleteInspect, Inspections
  <2>2. UNCHANGED Service /\ "delete_run" \in CallSteps(p)
    BY <1>4, <1>a DEF DeleteInspect, At
  <2>3. o.exit \in Errors /\ "protected" \in Errors
    BY <1>1, EndsSound DEF Sound, Errors
  <2>4. PcFrame(p)
    <3>1. CASE o.exit = "notfound"
      BY <1>0, <1>a, <2>1, <3>1, MovesOn
    <3>2. CASE o.exit # "notfound" /\ o.exit = "ok" /\ o.vm.protected
      BY <1>0, <1>a, <2>1, <2>3, <3>2, FailsOn
    <3>3. CASE o.exit # "notfound" /\ ~(o.exit = "ok" /\ o.vm.protected)
      BY <1>0, <2>1, <2>2, <2>3, <3>3, OnSuccessPc
    <3> QED
      BY <3>1, <3>2, <3>3
  <2> QED
    BY <1>0, <1>1, <2>1, <2>2, <2>4, UnchangedResult, ChosenFrame
<1>5. CASE DeleteRun(p)
  <2>1. PICK o \in Ends(p, DeleteOutcomes(Instance(p))) :
          Runs(p, o) /\ OnSuccess(p, o, "delete_wait")
    BY <1>5 DEF DeleteRun
  <2>2. UNCHANGED Service /\ "delete_wait" \in CallSteps(p) /\ Sound(DeleteOutcomes(Instance(p)))
    BY <1>1, <1>5, <1>a, OutcomesSound DEF DeleteRun, At
  <2> QED
    BY <1>0, <2>1, <2>2, SimpleFrame
<1>6. CASE DeleteWait(p)
  <2>1. {"failed", "timeout"} \subseteq Errors
    BY DEF Errors
  <2> QED
    BY <1>0, <1>6, <1>a, <2>1, PollsFrame DEF DeleteWait, WaitForAbsence
<1> QED
  BY <1>2, <1>3, <1>4, <1>5, <1>6

\* Every command's step is framed.
LEMMA CommandFramed ==
  ASSUME TypeInv, NEW p \in Procs, Command(p)
  PROVE  CommandFrame(p)
BY CreateFrame, StartStopFrame, ResizeFrame, ProtectDeleteFrame DEF Command

-----------------------------------------------------------------------------
(* SafeInv.                                                                *)

\* SafeInv holds at first.
LEMMA InitSafeInv == Init => SafeInv
<1> SUFFICES ASSUME Init PROVE SafeInv
  OBVIOUS
<1> USE DEF Init, LockInit
<1>1. TypeInv
  <2>1. vm \in [Names -> Instances] /\ Absent \in Instances
    BY InstanceForms
  <2>2. Instances \subseteq VM
    BY DEF Instances
  <2>3. NoCall \notin Calls
    BY CallsAssumption
  <2> QED
    BY <2>1, <2>2, NoProcAssumption
       DEF TypeInv, TypeOK, LockTypeOK, At, Steps, LockedSteps, SetupSteps, Errors
<1>2. InstanceLockInv /\ HomeLockInv
  BY KeysAssumption, NoProcAssumption
     DEF InstanceLockInv, HomeLockInv, Holds, At, LockedSteps, SetupSteps
<1>3. QuietInv /\ HomeLockPassedThrough
  BY DEF QuietInv, QuietSteps, SetupSteps, HomeLockPassedThrough
<1> QED
  BY <1>1, <1>2, <1>3 DEF SafeInv

\* A framed step keeps SafeInv, whatever limactl did.
LEMMA CommandSafeInv ==
  ASSUME SafeInv, NEW p \in Procs, CommandFrame(p)
  PROVE  SafeInv'
<1> USE DEF SafeInv, CommandFrame, PcFrame
<1>1. pc'[p] \in LockedSteps /\ pc[p] \in LockedSteps
  BY LockedCall
<1>2. TypeInv'
  <2>1. TypeOK'
    BY <1>1 DEF TypeInv, TypeOK, At, WorldFrame, ResultFrame, Instances, LockTypeOK,
                LockedSteps, SetupSteps
  <2>2. \A q \in Procs : Op(q)' = Op(q) /\ CallSteps(q)' = CallSteps(q)
    BY DEF Op, CallSteps
  <2> QED
    BY <1>1, <2>1, <2>2 DEF TypeInv, WorldFrame, ResultFrame
<1>3. InstanceLockInv'
  BY <1>1 DEF InstanceLockInv, Holds, Name
<1>4. HomeLockInv'
  BY <1>1 DEF HomeLockInv, Holds, At, Op, LockedSteps, SetupSteps
<1>5. QuietInv'
  BY <1>1 DEF QuietInv, QuietSteps, LockedSteps, SetupSteps, Op, ResultFrame
<1>6. HomeLockPassedThrough'
  BY <1>1 DEF HomeLockPassedThrough, Holds, LockedSteps, SetupSteps
<1> QED
  BY <1>2, <1>3, <1>4, <1>5, <1>6

\* So does a step that changes only the home and the contexts.
LEMMA WorldSafeInv ==
  ASSUME SafeInv, vm' \in [Names -> Instances], maker' \in [Names -> Procs \cup {NoProc}],
         keypair' \in BOOLEAN, expired' \in [Procs -> BOOLEAN],
         UNCHANGED <<pc, args, result, sharedReady, holder>>
  PROVE  SafeInv'
<1> USE DEF SafeInv, args, result
<1>1. TypeInv'
  BY DEF TypeInv, TypeOK, At, Instances, LockTypeOK, CallSteps, Op
<1>2. InstanceLockInv' /\ HomeLockInv' /\ HomeLockPassedThrough'
  BY DEF InstanceLockInv, HomeLockInv, HomeLockPassedThrough, Holds, Name, Op, At
<1>3. QuietInv'
  BY DEF QuietInv, Op
<1> QED
  BY <1>1, <1>2, <1>3

\* Contexts that end, the file system and the users keep SafeInv.
LEMMA BesideSafeInv ==
  ASSUME SafeInv, \/ \E p \in Procs : Expire(p)
                  \/ \E n \in Names : Settle(n) \/ User(n)
                  \/ UNCHANGED vars
  PROVE  SafeInv'
<1> USE DEF SafeInv
<1>1. ASSUME NEW p \in Procs, Expire(p) PROVE SafeInv'
  BY <1>1, WorldSafeInv DEF Expire, world, TypeInv, TypeOK
<1>2. ASSUME NEW n \in Names, Settle(n) PROVE SafeInv'
  <2>1. vm' \in [Names -> Instances]
    BY <1>2, InstanceForms DEF Settle, TypeInv
  <2>2. maker' \in [Names -> Procs \cup {NoProc}]
    BY <1>2 DEF Settle, TypeInv, TypeOK
  <2> QED
    BY <1>2, <2>1, <2>2, WorldSafeInv DEF Settle, TypeInv, TypeOK
<1>3. ASSUME NEW n \in Names, User(n) PROVE SafeInv'
  <2>1. PICK o \in UserOutcomes(vm[n]) : vm' = [vm EXCEPT ![n] = o.vm]
    BY <1>3 DEF User
  <2>2. o.vm \in Instances
    <3>1. vm[n] \in Instances
      BY DEF TypeInv
    <3>2. PICK a \in UserActs :
            o \in CASE a = "create" -> {Outcome(New(c, "stopped"), "ok") :
                                          c \in {d \in Configs : ~Listed(vm[n])}}
                    [] a = "start"  -> StartOutcomes(vm[n])
                    [] a = "stop"   -> StopOutcomes(vm[n])
                    [] a = "delete" -> DeleteOutcomes(vm[n])
      BY <2>1 DEF UserOutcomes
    <3>3. CASE a = "create"
      BY <3>2, <3>3, InstanceForms DEF Outcome
    <3>4. CASE a \in {"start", "stop", "delete"}
      BY <3>1, <3>2, <3>4, OutcomesSound DEF Sound
    <3> QED
      BY <3>3, <3>4, CallsAssumption
  <2>3. vm' \in [Names -> Instances]
    BY <2>1, <2>2 DEF TypeInv
  <2>4. maker' \in [Names -> Procs \cup {NoProc}] /\ keypair' \in BOOLEAN
    BY <1>3 DEF User, TypeInv, TypeOK
  <2> QED
    BY <1>3, <2>3, <2>4, WorldSafeInv DEF User, TypeInv, TypeOK
<1>4. CASE UNCHANGED vars
  BY <1>4, WorldSafeInv DEF vars, args, result, TypeInv, TypeOK
<1> QED
  BY <1>1, <1>2, <1>3, <1>4

\* A step of p that runs no command: it moves to l, and changes what it changes
\* of p only.
OwnFrame(p, l) ==
  /\ pc' = [pc EXCEPT ![p] = l] /\ l \in Steps
  /\ call' \in [Procs -> Calls \cup {NoCall}] /\ expired' \in [Procs -> BOOLEAN]
  /\ err' \in [Procs -> Errors]
  /\ registered' \in [Procs -> BOOLEAN] /\ editing' \in [Procs -> BOOLEAN]
  /\ before' \in [Procs -> Instances]
  /\ \A q \in Procs \ {p} :
       /\ call'[q] = call[q] /\ expired'[q] = expired[q] /\ err'[q] = err[q]
       /\ registered'[q] = registered[q] /\ editing'[q] = editing[q]
       /\ before'[q] = before[q]
  /\ sharedReady' \in BOOLEAN /\ maker' \in [Names -> Procs \cup {NoProc}]
  /\ holder' \in [Keys -> Procs \cup {NoProc}]
  /\ UNCHANGED <<vm, keypair>>

\* A step that changes only its own goroutine keeps the types.
LEMMA OwnTypeInv ==
  ASSUME TypeInv, NEW p \in Procs, NEW l, OwnFrame(p, l),
         call'[p] = NoCall <=> l = "idle",
         l \in LockedSteps => l \in CallSteps(p)',
         editing'[p] => Op(p)' = "resize"
  PROVE  TypeInv' /\ pc'[p] = l /\ \A q \in Procs \ {p} : pc'[q] = pc[q]
<1> USE DEF TypeInv, OwnFrame
<1>1. /\ pc \in [Procs -> Steps] /\ pc' \in [Procs -> Steps] /\ pc'[p] = l
      /\ \A q \in Procs \ {p} : pc'[q] = pc[q]
  BY DEF TypeOK
<1>2. before' \in [Procs -> VM] /\ vm' \in [Names -> VM]
  BY DEF Instances
<1>3. TypeOK'
  BY <1>1, <1>2 DEF TypeOK, At, LockTypeOK
<1>4. \A q \in Procs \ {p} : Op(q)' = Op(q) /\ CallSteps(q)' = CallSteps(q)
  BY DEF Op, CallSteps
<1> QED
  BY <1>1, <1>3, <1>4

\* The call that begins holds no lock.
LEMMA BeginSafeInv ==
  ASSUME SafeInv, NEW p \in Procs, NEW c \in Calls, Begin(p, c)
  PROVE  SafeInv'
<1> USE DEF SafeInv
<1> DEFINE l == IF c.op = "create" THEN "setup_ready" ELSE "lock"
<1>0. c \in CallRecords /\ c # NoCall /\ At(p, "idle")
  BY CallsAssumption DEF Begin
<1>1. l \in Steps \ {"idle"} /\ l \notin LockedSteps
  BY DEF Steps, LockedSteps, SetupSteps
<1>2. call' = [call EXCEPT ![p] = c] /\ call'[p] = c /\ pc' = [pc EXCEPT ![p] = l]
  BY DEF Begin, Goto, TypeInv, TypeOK
<1>3. OwnFrame(p, l)
  BY <1>1, <1>2 DEF Begin, OwnFrame, TypeInv, TypeOK, LockTypeOK, result, world
<1>4. UNCHANGED <<before, expired, result, sharedReady, world, holder>>
  BY DEF Begin
<1>5. ~editing[p] /\ ~editing'[p] /\ err'[p] = "ok" /\ ~registered'[p]
  BY <1>0, <1>4 DEF QuietInv, QuietSteps, At, result
<1>6. TypeInv' /\ pc'[p] = l /\ \A q \in Procs \ {p} : pc'[q] = pc[q]
  BY <1>0, <1>1, <1>2, <1>3, <1>5, OwnTypeInv
<1>7. InstanceLockInv'
  BY <1>0, <1>1, <1>3, <1>4, <1>6
     DEF InstanceLockInv, Holds, Name, OwnFrame, At, LockedSteps
<1>8. ~Holds(p, Home)
  BY <1>0 DEF HomeLockInv
<1>9. HomeLockInv'
  BY <1>0, <1>1, <1>3, <1>4, <1>6, <1>8 DEF HomeLockInv, Holds, At, Op, OwnFrame
<1>10. HomeLockPassedThrough'
  BY <1>3, <1>4, <1>6, <1>8 DEF HomeLockPassedThrough, Holds, OwnFrame
<1>11. QuietInv'
  BY <1>2, <1>3, <1>5, <1>6 DEF QuietInv, SetupSteps, Op, OwnFrame
<1> QED
  BY <1>6, <1>7, <1>9, <1>10, <1>11

\* A step of p from one step to another of the same call, the locks apart.
LEMMA GoesOn ==
  ASSUME TypeInv, NEW p \in Procs, ~At(p, "idle"), NEW l \in Steps \ {"idle"}, Goto(p, l),
         l \in LockedSteps => l \in CallSteps(p),
         UNCHANGED <<call, expired, result, world>>,
         before' \in [Procs -> Instances], \A q \in Procs \ {p} : before'[q] = before[q],
         sharedReady' \in BOOLEAN, holder' \in [Keys -> Procs \cup {NoProc}]
  PROVE  /\ OwnFrame(p, l) /\ TypeInv' /\ pc'[p] = l
         /\ \A q \in Procs \ {p} : pc'[q] = pc[q]
         /\ \A q \in Procs : Op(q)' = Op(q) /\ Name(q)' = Name(q)
<1>1. OwnFrame(p, l)
  BY DEF TypeInv, TypeOK, OwnFrame, Goto, result, world
<1>2. CallSteps(p)' = CallSteps(p) /\ \A q \in Procs : Op(q)' = Op(q) /\ Name(q)' = Name(q)
  BY DEF CallSteps, Op, Name
<1>3. (call'[p] = NoCall <=> l = "idle") /\ (editing'[p] => Op(p)' = "resize")
  BY <1>2 DEF TypeInv, TypeOK, At, result
<1> QED
  BY <1>1, <1>2, <1>3, OwnTypeInv

\* A goroutine that returns its call forgets it.
LEMMA Returns ==
  ASSUME TypeInv, NEW p \in Procs, Return(p), UNCHANGED <<sharedReady, vm, keypair>>,
         maker' \in [Names -> Procs \cup {NoProc}],
         holder' \in [Keys -> Procs \cup {NoProc}]
  PROVE  /\ OwnFrame(p, "idle") /\ TypeInv' /\ pc'[p] = "idle"
         /\ \A q \in Procs \ {p} : pc'[q] = pc[q]
         /\ err'[p] = "ok" /\ ~registered'[p] /\ ~editing'[p]
<1>1. OwnFrame(p, "idle")
  BY InstanceForms DEF TypeInv, TypeOK, OwnFrame, Return, Goto, Steps, Errors
<1>2. call'[p] = NoCall /\ ~editing'[p] /\ err'[p] = "ok" /\ ~registered'[p]
  BY DEF TypeInv, TypeOK, Return
<1>3. "idle" \notin LockedSteps
  BY DEF LockedSteps
<1> QED
  BY <1>1, <1>2, <1>3, OwnTypeInv

\* Every call's first step is one of its own.
LEMMA FirstStepSound ==
  ASSUME TypeInv, NEW p \in Procs, At(p, "lock")
  PROVE  FirstStep(call[p]) \in CallSteps(p) \cap LockedSteps /\ Name(p) \in Names
<1>1. call[p] \in CallRecords /\ Name(p) \in Names /\ Op(p) \in CallOps
      /\ CallSteps(p) \subseteq LockedSteps
  BY LockedCall DEF At
<1>2. Op(p) \in {"run"} => call[p].want \in BOOLEAN
  BY <1>1 DEF CallRecords, Op
<1>3. FirstStep(call[p]) \in CallSteps(p)
  BY <1>1, <1>2 DEF FirstStep, RunState, CallSteps, CommandSteps, CallOps, Op, StartSteps,
                    StopSteps
<1> QED
  BY <1>1, <1>3

\* awaitSharedSetup keeps SafeInv: the home's lock is held from its second read on.
LEMMA SetupSafeInv ==
  ASSUME SafeInv, NEW p \in Procs,
         SetupReady(p) \/ SetupLock(p) \/ SetupRecheck(p) \/ SetupMark(p)
  PROVE  SafeInv'
<1> USE DEF SafeInv
<1> DEFINE l == CASE At(p, "setup_ready") -> IF sharedReady THEN "lock" ELSE "setup_lock"
                  [] At(p, "setup_lock") -> "setup_recheck"
                  [] At(p, "setup_recheck") -> "lock"
                  [] At(p, "setup_mark") -> "setup_unlock"
<1>1. /\ pc[p] \in SetupSteps \cup {"setup_mark"} /\ Goto(p, l)
      /\ UNCHANGED <<args, expired, result, world>>
  BY DEF SetupReady, SetupLock, SetupRecheck, SetupMark, At, SetupSteps
<1>2. /\ l \in Steps \ {"idle"} /\ l \notin LockedSteps /\ ~At(p, "idle")
      /\ pc[p] \notin LockedSteps
  BY <1>1 DEF Steps, LockedSteps, SetupSteps, At
<1>3. /\ sharedReady' \in BOOLEAN /\ holder' \in [Keys -> Procs \cup {NoProc}]
      /\ \A n \in Names : holder'[n] = holder[n]
      /\ \A q \in Procs \ {p} : Holds(q, Home)' => Holds(q, Home)
      /\ Holds(p, Home)' =>
           At(p, "setup_lock") \/ (At(p, "setup_recheck") /\ ~sharedReady)
             \/ (At(p, "setup_mark") /\ Holds(p, Home))
      /\ At(p, "setup_lock") \/ At(p, "setup_mark") => Holds(p, Home)'
  BY KeysAssumption, NoProcAssumption
     DEF SetupReady, SetupLock, SetupRecheck, SetupMark, Acquire, Release, Holds, TypeInv,
         TypeOK, LockTypeOK, HomeLockInv, At
<1>4. before' \in [Procs -> Instances] /\ before' = before
  BY <1>1 DEF args, TypeInv
<1>5. /\ OwnFrame(p, l) /\ TypeInv' /\ pc'[p] = l
      /\ \A q \in Procs \ {p} : pc'[q] = pc[q]
      /\ \A q \in Procs : Op(q)' = Op(q) /\ Name(q)' = Name(q)
  BY <1>1, <1>2, <1>3, <1>4, GoesOn DEF args
<1>6. InstanceLockInv'
  <2>1. \A q \in Procs : pc[q] \in LockedSteps => Name(q) \in Names
    BY LockedCall
  <2>2. \A q \in Procs : \A n \in Names : Holds(q, n)' <=> Holds(q, n)
    BY <1>3 DEF Holds
  <2>3. \A q \in Procs : pc'[q] \in LockedSteps <=> pc[q] \in LockedSteps
    BY <1>2, <1>5
  <2>4. InstanceLockInv
    OBVIOUS
  <2> QED
    BY <1>5, <2>1, <2>2, <2>3, <2>4 DEF InstanceLockInv
<1>7. Op(p) = "create"
  BY <1>1 DEF QuietInv, HomeLockInv, Holds, SetupSteps
<1>8. HomeLockInv'
  <2>1. pc'[p] \in {"setup_recheck", "setup_mark", "setup_unlock"} => Holds(p, Home)'
    BY <1>3, <1>5, <1>1 DEF SetupSteps, At
  <2>2. Holds(p, Home)' => ~At(p, "idle")' /\ pc'[p] \notin {"setup_ready", "setup_lock"}
    BY <1>3, <1>5 DEF At
  <2>3. \A q \in Procs \ {p} :
          pc[q] \in {"setup_recheck", "setup_mark", "setup_unlock"} =>
            holder[Home] = q /\ holder'[Home] = q
    BY <1>3, KeysAssumption, NoProcAssumption
       DEF HomeLockInv, SetupReady, SetupLock, SetupRecheck, SetupMark, Acquire, Release,
           Holds, TypeInv, TypeOK, LockTypeOK
  <2> QED
    BY <1>3, <1>5, <1>7, <2>1, <2>2, <2>3 DEF HomeLockInv, Holds, At
<1>9. HomeLockPassedThrough'
  <2>1. At(p, "setup_mark") => \A q \in Procs \ {p} : ~Holds(q, Home)
    BY <1>1 DEF HomeLockInv, Holds, At
  <2>2. sharedReady' => sharedReady \/ At(p, "setup_mark")
    BY DEF SetupReady, SetupLock, SetupRecheck, SetupMark
  <2> QED
    BY <1>3, <1>5, <2>1, <2>2 DEF HomeLockPassedThrough, At
<1>10. QuietInv'
  BY <1>1, <1>5, <1>7 DEF QuietInv, SetupSteps, QuietSteps, At, OwnFrame, result
<1> QED
  BY <1>5, <1>6, <1>8, <1>9, <1>10

\* Taking the instance's lock keeps SafeInv.
LEMMA LockSafeInv ==
  ASSUME SafeInv, NEW p \in Procs, LockInstance(p)
  PROVE  SafeInv'
<1> USE DEF SafeInv
<1> DEFINE l == FirstStep(call[p])
<1>1. /\ At(p, "lock") /\ Goto(p, l) /\ holder[Name(p)] = NoProc
      /\ holder' = [holder EXCEPT ![Name(p)] = p]
      /\ before' = [before EXCEPT ![p] = Instance(p)]
      /\ UNCHANGED <<call, expired, result, sharedReady, world>>
  BY DEF LockInstance, Acquire
<1>2. l \in CallSteps(p) \cap LockedSteps /\ Name(p) \in Names
  BY <1>1, FirstStepSound
<1>3. Instance(p) \in Instances /\ Op(p) \in CallOps
  BY <1>1, LockedCall DEF At
<1>4. /\ holder' \in [Keys -> Procs \cup {NoProc}] /\ before' \in [Procs -> Instances]
      /\ \A q \in Procs \ {p} : before'[q] = before[q]
      /\ holder'[Name(p)] = p /\ holder'[Home] = holder[Home]
      /\ \A n \in Names \ {Name(p)} : holder'[n] = holder[n]
  BY <1>1, <1>2, <1>3, KeysAssumption DEF TypeInv, TypeOK, LockTypeOK
<1>5. l \in Steps \ {"idle"} /\ l \notin QuietSteps \cup {"setup_mark", "setup_unlock"}
  BY <1>2 DEF LockedSteps, QuietSteps
<1>6. /\ OwnFrame(p, l) /\ TypeInv' /\ pc'[p] = l
      /\ \A q \in Procs \ {p} : pc'[q] = pc[q]
      /\ \A q \in Procs : Op(q)' = Op(q) /\ Name(q)' = Name(q)
  BY <1>1, <1>2, <1>4, <1>5, GoesOn, <1>1 DEF TypeInv, TypeOK, At
<1>7. InstanceLockInv'
  <2>1. \A q \in Procs : pc[q] \in LockedSteps => Name(q) \in Names
    BY LockedCall
  <2>2. pc[p] \notin LockedSteps
    BY <1>1 DEF At, LockedSteps
  <2> QED
    BY <1>1, <1>2, <1>4, <1>6, <2>1, <2>2, NoProcAssumption DEF InstanceLockInv, Holds
<1>8. HomeLockInv' /\ HomeLockPassedThrough'
  <2>1. sharedReady => ~Holds(p, Home)
    BY <1>1 DEF HomeLockPassedThrough, At
  <2>2. pc'[p] \notin {"idle", "setup_ready", "setup_lock", "setup_recheck", "setup_mark",
                       "setup_unlock"}
    BY <1>5, <1>6 DEF QuietSteps, SetupSteps
  <2>3. ~At(p, "idle") /\ pc[p] \notin {"setup_ready", "setup_lock"}
    BY <1>1 DEF At
  <2>4. HomeLockInv'
    BY <1>4, <1>6, <2>2, <2>3 DEF HomeLockInv, Holds, At
  <2>5. HomeLockPassedThrough'
    BY <1>1, <1>4, <1>6, <2>1 DEF HomeLockPassedThrough, Holds
  <2> QED
    BY <2>4, <2>5
<1>9. QuietInv'
  BY <1>1, <1>5, <1>6 DEF QuietInv, QuietSteps, OwnFrame
<1> QED
  BY <1>6, <1>7, <1>8, <1>9

\* A call that ends: it holds no instance's lock any more, and not the home's.
LEMMA ReturnSafeInv ==
  ASSUME SafeInv, NEW p \in Procs, Return(p), UNCHANGED <<sharedReady, vm, keypair>>,
         maker' \in [Names -> Procs \cup {NoProc}],
         holder' \in [Keys -> Procs \cup {NoProc}],
         \A k \in Keys : holder'[k] # p /\ (holder[k] # p => holder'[k] = holder[k]),
         \A k \in Keys : holder'[k] # holder[k] => holder'[k] = NoProc
  PROVE  SafeInv'
<1> USE DEF SafeInv
<1>1. /\ OwnFrame(p, "idle") /\ TypeInv' /\ pc'[p] = "idle"
      /\ \A q \in Procs \ {p} : pc'[q] = pc[q]
      /\ err'[p] = "ok" /\ ~registered'[p] /\ ~editing'[p]
  BY Returns
<1>2. \A q \in Procs \ {p} : Op(q)' = Op(q) /\ Name(q)' = Name(q)
  BY <1>1 DEF OwnFrame, Op, Name
<1>3. \A q \in Procs \ {p} : \A k \in Keys : Holds(q, k)' <=> Holds(q, k)
  BY NoProcAssumption DEF Holds
<1>4. \A k \in Keys : ~Holds(p, k)'
  BY DEF Holds
<1>5. InstanceLockInv'
  <2>1. \A q \in Procs : pc[q] \in LockedSteps => Name(q) \in Keys
    BY LockedCall, KeysAssumption
  <2>2. "idle" \notin LockedSteps
    BY DEF LockedSteps
  <2> QED
    BY <1>1, <1>2, <1>3, <1>4, <2>1, <2>2, KeysAssumption DEF InstanceLockInv, Holds
<1>6. HomeLockInv' /\ HomeLockPassedThrough'
  <2>1. Home \in Keys
    BY KeysAssumption
  <2>2. HomeLockInv'
    BY <1>1, <1>2, <1>3, <1>4, <2>1 DEF HomeLockInv, Holds, At
  <2>3. HomeLockPassedThrough'
    BY <1>1, <1>3, <1>4, <2>1 DEF HomeLockPassedThrough, Holds
  <2> QED
    BY <2>2, <2>3
<1>7. QuietInv'
  BY <1>1, <1>2 DEF QuietInv, QuietSteps, SetupSteps, OwnFrame
<1> QED
  BY <1>1, <1>5, <1>6, <1>7

\* The end of a call keeps SafeInv: it releases what it holds.
LEMMA EndSafeInv ==
  ASSUME SafeInv, NEW p \in Procs,
         SetupRefused(p) \/ LockRefused(p) \/ Unlock(p) \/ SetupUnlock(p)
  PROVE  SafeInv'
<1> USE DEF SafeInv
<1>1. /\ holder \in [Keys -> Procs \cup {NoProc}] /\ p # NoProc /\ Home \in Keys
      /\ maker \in [Names -> Procs \cup {NoProc}]
      /\ UNCHANGED <<vm, keypair>>
  BY KeysAssumption, NoProcAssumption
     DEF TypeInv, TypeOK, LockTypeOK, SetupRefused, LockRefused, Unlock, SetupUnlock, world
<1>2. CASE SetupRefused(p)
  <2>1. Return(p) /\ UNCHANGED <<sharedReady, world, holder>> /\ At(p, "setup_lock")
    BY <1>2 DEF SetupRefused
  <2>2. \A k \in Keys : holder[k] # p
    BY <2>1, KeysAssumption
       DEF InstanceLockInv, HomeLockInv, Holds, At, LockedSteps, SetupSteps
  <2> QED
    BY <1>1, <2>1, <2>2, ReturnSafeInv DEF world
<1>3. CASE SetupUnlock(p)
  <2>1. /\ Return(p) /\ UNCHANGED <<sharedReady, world>> /\ At(p, "setup_unlock")
        /\ holder' = [holder EXCEPT ![Home] = NoProc]
    BY <1>3 DEF SetupUnlock, Release
  <2>2. \A k \in Keys \ {Home} : holder[k] # p
    BY <2>1, KeysAssumption DEF InstanceLockInv, Holds, At, LockedSteps
  <2>3. /\ holder' \in [Keys -> Procs \cup {NoProc}] /\ holder'[Home] = NoProc
        /\ \A k \in Keys \ {Home} : holder'[k] = holder[k]
    BY <1>1, <2>1
  <2>4. /\ \A k \in Keys : holder'[k] # p
        /\ \A k \in Keys : holder[k] # p => holder'[k] = holder[k]
        /\ \A k \in Keys : holder'[k] # holder[k] => holder'[k] = NoProc
    BY <1>1, <2>1, <2>2, <2>3 DEF HomeLockInv, Holds, At
  <2> QED
    BY <1>1, <2>1, <2>3, <2>4, ReturnSafeInv DEF world
<1>4. CASE LockRefused(p) /\ ~Holds(p, Home)
  <2>1. Return(p) /\ UNCHANGED <<sharedReady, world, holder>> /\ At(p, "lock")
    BY <1>4 DEF LockRefused
  <2>2. \A k \in Keys : holder[k] # p
    BY <1>4, <2>1, KeysAssumption DEF InstanceLockInv, Holds, At, LockedSteps
  <2> QED
    BY <1>1, <2>1, <2>2, ReturnSafeInv DEF world
<1>5. CASE LockRefused(p) /\ Holds(p, Home)
  <2>1. /\ At(p, "lock") /\ Goto(p, "setup_mark") /\ Fail(p, "timeout")
        /\ UNCHANGED <<args, expired, registered, editing, sharedReady, world, holder>>
    BY <1>5 DEF LockRefused
  <2>2. OwnFrame(p, "setup_mark")
    BY <1>1, <2>1, FailErr
       DEF OwnFrame, Goto, args, world, TypeInv, TypeOK, Errors, Steps
  <2>3. Op(p)' = Op(p) /\ (call'[p] = NoCall <=> "setup_mark" = "idle")
        /\ editing'[p] = editing[p]
    BY <2>1 DEF args, Op, TypeInv, TypeOK, At
  <2>4. "setup_mark" \notin LockedSteps
    BY DEF LockedSteps
  <2>5. /\ TypeInv' /\ pc'[p] = "setup_mark"
        /\ \A q \in Procs \ {p} : pc'[q] = pc[q]
    <3>1. editing'[p] => Op(p)' = "resize"
      BY <2>3 DEF TypeInv
    <3> QED
      BY <2>2, <2>3, <2>4, <3>1, OwnTypeInv
  <2>6. \A q \in Procs : Op(q)' = Op(q) /\ Name(q)' = Name(q)
    BY <2>1 DEF args, Op, Name
  <2>7. InstanceLockInv'
    BY <2>1, <2>4, <2>5, <2>6 DEF InstanceLockInv, Holds, At, LockedSteps
  <2>8. HomeLockInv'
    BY <1>5, <2>1, <2>5, <2>6 DEF HomeLockInv, Holds, At
  <2>9. HomeLockPassedThrough'
    BY <1>5, <2>1, <2>5 DEF HomeLockPassedThrough, Holds, At
  <2>10. QuietInv'
    BY <2>2, <2>5, <2>6 DEF QuietInv, QuietSteps, SetupSteps, OwnFrame
  <2> QED
    BY <2>5, <2>7, <2>8, <2>9, <2>10
<1>6. CASE Unlock(p)
  <2>1. /\ At(p, "unlock") /\ Holds(p, Name(p)) /\ Name(p) \in Names
        /\ holder' = [holder EXCEPT ![Name(p)] = NoProc]
        /\ maker' = [maker EXCEPT ![Name(p)] = NoProc]
        /\ UNCHANGED <<sharedReady, vm, keypair>>
    BY <1>6, LockedCall DEF Unlock, Release, At, LockedSteps, Steps, SetupSteps
  <2>2. /\ maker' \in [Names -> Procs \cup {NoProc}]
        /\ holder' \in [Keys -> Procs \cup {NoProc}] /\ Name(p) \in Keys
        /\ holder'[Name(p)] = NoProc
        /\ \A k \in Keys \ {Name(p)} : holder'[k] = holder[k]
    BY <1>1, <2>1, KeysAssumption
  <2>3. \A k \in Keys \ {Name(p), Home} : holder[k] # p
    BY KeysAssumption DEF InstanceLockInv, Holds
  <2>4. CASE ~Holds(p, Home)
    <3>1. Return(p)
      BY <1>6, <2>4 DEF Unlock
    <3>2. \A k \in Keys \ {Name(p)} : holder[k] # p
      BY <2>3, <2>4 DEF Holds
    <3>3. /\ \A k \in Keys : holder'[k] # p
          /\ \A k \in Keys : holder[k] # p => holder'[k] = holder[k]
          /\ \A k \in Keys : holder'[k] # holder[k] => holder'[k] = NoProc
      BY <1>1, <2>1, <2>2, <3>2 DEF Holds
    <3> QED
      BY <1>1, <2>1, <2>2, <3>1, <3>3, ReturnSafeInv
  <2>5. CASE Holds(p, Home)
    <3>1. Goto(p, "setup_mark") /\ UNCHANGED <<args, expired, result>>
      BY <1>6, <2>5 DEF Unlock
    <3>2. OwnFrame(p, "setup_mark")
      BY <1>1, <2>1, <2>2, <3>1
         DEF OwnFrame, Goto, args, result, TypeInv, TypeOK, Steps
    <3>3. Op(p)' = Op(p) /\ (call'[p] = NoCall <=> "setup_mark" = "idle")
          /\ editing'[p] = editing[p]
      BY <2>1, <3>1 DEF args, result, Op, TypeInv, TypeOK, At
    <3>4. "setup_mark" \notin LockedSteps
      BY DEF LockedSteps
    <3>5. /\ TypeInv' /\ pc'[p] = "setup_mark"
          /\ \A q \in Procs \ {p} : pc'[q] = pc[q]
      <4>1. editing'[p] => Op(p)' = "resize"
        BY <3>3 DEF TypeInv
      <4> QED
        BY <3>2, <3>3, <3>4, <4>1, OwnTypeInv
    <3>6. \A q \in Procs : Op(q)' = Op(q) /\ Name(q)' = Name(q)
      BY <3>1 DEF args, Op, Name
    <3>7. InstanceLockInv'
      <4>1. \A q \in Procs : pc[q] \in LockedSteps => Name(q) \in Names /\ Holds(q, Name(q))
        BY LockedCall DEF InstanceLockInv
      <4>2. \A q \in Procs \ {p} : pc[q] \in LockedSteps => Name(q) # Name(p)
        BY <2>1, <4>1 DEF Holds
      <4> QED
        BY <2>1, <2>2, <3>4, <3>5, <3>6, <4>1, <4>2, KeysAssumption, NoProcAssumption
           DEF InstanceLockInv, Holds
    <3>8. holder'[Home] = holder[Home]
      BY <1>1, <2>1, <2>2, KeysAssumption
    <3>9. HomeLockInv'
      BY <2>1, <2>5, <3>5, <3>6, <3>8 DEF HomeLockInv, Holds, At
    <3>10. HomeLockPassedThrough'
      BY <2>1, <2>5, <3>5, <3>8 DEF HomeLockPassedThrough, Holds, At
    <3>11. QuietInv'
      BY <3>2, <3>5, <3>6 DEF QuietInv, QuietSteps, SetupSteps, OwnFrame
    <3> QED
      BY <3>5, <3>7, <3>9, <3>10, <3>11
  <2> QED
    BY <2>4, <2>5
<1> QED
  BY <1>2, <1>3, <1>4, <1>5, <1>6

\* SafeInv is inductive.
LEMMA NextSafeInv == SafeInv /\ [Next]_vars => SafeInv'
<1> SUFFICES ASSUME SafeInv, [Next]_vars PROVE SafeInv'
  OBVIOUS
<1>1. ASSUME NEW p \in Procs, Locking(p) PROVE SafeInv'
  BY <1>1, SetupSafeInv, LockSafeInv DEF Locking
<1>2. ASSUME NEW p \in Procs, Step(p) PROVE SafeInv'
  <2>1. CASE Command(p)
    BY <2>1, CommandFramed, CommandSafeInv DEF SafeInv
  <2> QED
    BY <1>2, <2>1, SetupSafeInv, EndSafeInv DEF Step
<1> QED
  BY <1>1, <1>2, BeginSafeInv, BesideSafeInv DEF Next

\* Types, lock holding and the meaning of sharedReady are invariant, whatever limactl
\* answers and whoever else uses the home.
THEOREM SafeInvHolds == Spec => []SafeInv
BY InitSafeInv, NextSafeInv, PTL DEF Spec

\* The service's variables keep their types, the calls' arguments included.
THEOREM TypeCorrect == Spec => []TypeOK
<1>1. SafeInv => TypeOK
  BY DEF SafeInv, TypeInv
<1> QED
  BY <1>1, SafeInvHolds, PTL

\* Once a first create succeeded, no create holds the home's lock while it runs
\* limactl: not even one that took it when the home was not ready yet.
THEOREM HomeLockIsPassedThrough == Spec => []HomeLockPassedThrough
<1>1. SafeInv => HomeLockPassedThrough
  BY DEF SafeInv
<1> QED
  BY <1>1, SafeInvHolds, PTL

=============================================================================
