------------------------- MODULE LifecycleContract -------------------------
(***************************************************************************)
(* Every call of lima.Service keeps its contract, whatever the other calls *)
(* do: CallInv, an invariant of Lifecycle where inspections tell the truth *)
(* and nobody else uses the home (Undisturbed), which is what Contract     *)
(* presupposes.                                                            *)
(*                                                                         *)
(* CallInv follows a call from the instance b it found when it took its    *)
(* lock to the instance v there is now, step by step of the sequence it is *)
(* in (Local).  A step of the call's own command leads from Local to Local *)
(* (CommandKeeps); nothing else changes its instance but the file system   *)
(* catching up (LocalSettled) and its context ending (LocalLate), as the   *)
(* lock keeps the other calls away (LocksApart).  The second half is about *)
(* what the calls do to the home between them: leftovers, the first use of *)
(* a home, starts, stops and deletions.  The end puts it together: the     *)
(* calls are atomic, as AtomicService has them.                            *)
(***************************************************************************)
EXTENDS LifecycleSafety

\* What Contract presupposes: inspections tell the truth and nobody else uses
\* the home.
Undisturbed == UserActs = {} /\ Faults \cap {"list", "list_empty"} = {}

-----------------------------------------------------------------------------
(* From the instance b that a call c found to the instance v there is now, *)
(* when its goroutine is at step l with error e, its context done or not   *)
(* (x).                                                                    *)

Failed(e, x) == e \in {"failed", "timeout"} /\ (e = "timeout" => x)

Made(c, v, ss) == v \in {New(c.config, s) : s \in ss}

CreateLocal(l, c, b, v, e, r, x) ==
  /\ ~Usable(b) \/ l = "create_exists"
  /\ e = "ok" \/ l \in {"create_recheck", "start_degraded"}
  /\ r <=> l \in {"create_wait", "create_protect", "create_inspect"} \cup StartSteps
  /\ l = "create_exists" => Untouched(b, v)
  /\ l \in {"create_validate", "create_run", "create_keygen"}
       => Untouched(b, v) /\ ~Listed(v)
  /\ l = "create_recheck" =>
       Failed(e, x) /\ (v = Absent \/ Made(c, v, {"creating", "stopped", "broken"}))
  /\ l = "create_wait" => Made(c, v, {"creating", "stopped"})
  /\ l \in StartSteps => c.start
  /\ l \in {"start_inspect", "start_run"} => Made(c, v, {"stopped"})
  /\ l = "start_degraded" => Failed(e, x) /\ Made(c, v, {"stopped", "running", "broken"})
  /\ l = "start_wait" => Made(c, v, {"running", "broken"})
  /\ l = "create_protect" => c.protect /\ Made(c, v, {RunStatus(c.start)})
  /\ l = "create_inspect" =>
       v = [status |-> RunStatus(c.start), protected |-> c.protect, config |-> c.config]

\* A run, and a resize without a difference.
RunLocal(l, c, b, v, e, x) ==
  /\ e = "ok" \/ l = "start_degraded"
  /\ l \in StartSteps => c.want
  /\ l \in StopSteps => ~c.want
  /\ l \in {"start_inspect", "stop_inspect"} => Untouched(b, v)
  /\ l = "start_run" => Untouched(b, v) /\ ~Running(v)
  /\ l = "start_degraded" =>
       /\ Failed(e, x) /\ ~Running(b)
       /\ Untouched(b, v) \/ (SameButStatus(b, v) /\ v.status \in {"running", "broken"})
  /\ l = "start_wait" =>
       ~Running(b) /\ SameButStatus(b, v) /\ v.status \in {"running", "broken"}
  /\ l = "stop_run" => Untouched(b, v) /\ (~Stopped(v) \/ b.status = "creating")
  /\ l = "stop_wait" => Running(b) /\ SameButStatus(b, v) /\ Stopped(v)

Edited(c, b, v) ==
  Usable(b) /\ Usable(v) /\ v.protected = b.protected /\ v.config = c.config

\* A resize that found a difference.
EditLocal(l, c, b, v, e) ==
  /\ l # "resize_inspect" /\ b.config # c.config
  /\ e = IF l = "start_degraded" THEN "restart" ELSE "ok"
  /\ l \in StartSteps => c.want /\ Edited(c, b, v)
  /\ l \in {"start_inspect", "start_run"} => ~Running(v)
  /\ l = "start_wait" => v.status \in {"running", "broken"}
  /\ l \in {"stop_inspect", "stop_run"} => v = b /\ Running(b)
  /\ l = "stop_wait" => Running(b) /\ v = [b EXCEPT !.status = "stopped"]
  /\ l = "edit_run" =>
       /\ ~Running(v)
       /\ Untouched(b, v) \/ (Running(b) /\ v = [b EXCEPT !.status = "stopped"])

ResizeLocal(l, c, b, v, e, g, x) ==
  IF l = "resize_inspect" THEN Untouched(b, v) /\ e = "ok" /\ ~g
  ELSE IF g THEN EditLocal(l, c, b, v, e)
  ELSE b.config = c.config /\ l # "edit_run" /\ RunLocal(l, c, b, v, e, x)

ProtectLocal(l, c, b, v, e) ==
  /\ Untouched(b, v) /\ e = "ok"
  /\ l = "protect_run" => v.protected # c.want

DeleteLocal(l, b, v, e) ==
  /\ e = "ok"
  /\ l \in {"delete_inspect", "delete_run"} => Untouched(b, v)
  /\ l = "delete_run" => ~v.protected
  /\ l \in {"delete_run", "delete_wait"} => ~b.protected
  /\ l = "delete_wait" => ~Usable(v)

Local(l, c, b, v, e, r, g, x) ==
  /\ l \in CommandSteps(c.op) \cup {"unlock"}
  /\ r => c.op = "create"
  /\ g => c.op = "resize"
  /\ l = "unlock" => Promised(c, b, v, e, r, x)
  /\ l # "unlock" =>
       CASE c.op = "create"  -> CreateLocal(l, c, b, v, e, r, x)
         [] c.op = "resize"  -> ResizeLocal(l, c, b, v, e, g, x)
         [] c.op = "run"     -> RunLocal(l, c, b, v, e, x)
         [] c.op = "protect" -> ProtectLocal(l, c, b, v, e)
         [] c.op = "delete"  -> DeleteLocal(l, b, v, e)

CallInv ==
  \A p \in Procs : pc[p] \in LockedSteps =>
    Local(pc[p], call[p], before[p], Instance(p), err[p], registered[p], editing[p],
          expired[p])

-----------------------------------------------------------------------------
(* CallInv, one command at a time.                                         *)

\* What an instance that was not touched still shares with the one it was.
LEMMA UntouchedFacts ==
  ASSUME NEW b \in Instances, NEW v \in Instances, Untouched(b, v)
  PROVE  /\ Listed(v) => Listed(b) /\ v.config = b.config /\ v.protected = b.protected
         /\ Usable(v) => /\ Usable(b) /\ SameButStatus(b, v)
                         /\ v.status \in {b.status, Settled(b).status}
         /\ Running(v) <=> Running(b)
         /\ Running(b) => v = b
         /\ ~Listed(v) => ~Usable(b) /\ ~b.protected
         /\ Stopped(v) => b.status \in {"creating", "stopped"}
<1>1. b \in VM /\ v \in VM
  BY DEF Instances
<1>2. b.status \in Statuses /\ v.status \in Statuses /\ (b.status = "absent" => b = Absent)
  BY <1>1 DEF VM, Absent, Statuses
<1>3. CASE b.status = "creating"
  BY <1>1, <1>3 DEF Untouched, Settled, Listed, Usable, Running, Stopped, SameButStatus, VM,
                    Absent
<1>4. CASE b.status = "deleting"
  BY <1>1, <1>4 DEF Untouched, Settled, Listed, Usable, Running, Stopped, SameButStatus,
                    Instances, Absent
<1>5. CASE b.status \notin {"creating", "deleting"}
  BY <1>2, <1>5 DEF Untouched, Settled, Listed, Usable, Running, Stopped, SameButStatus,
                    Absent
<1> QED
  BY <1>3, <1>4, <1>5

\* The call of p, before and after one of its steps.
LocalNow(p) ==
  Local(pc[p], call[p], before[p], Instance(p), err[p], registered[p], editing[p],
        expired[p])

LocalNext(p) ==
  Local(pc'[p], call[p], before[p], vm'[Name(p)], err'[p], registered'[p], editing'[p],
        expired'[p])

\* Where p stands, with the types of what Local speaks of.
LEMMA Now ==
  ASSUME SafeInv, CallInv, NEW p \in Procs, pc[p] \in LockedSteps
  PROVE  /\ LocalNow(p) /\ call[p] \in CallRecords /\ Name(p) \in Names
         /\ before[p] \in Instances /\ Instance(p) \in Instances
         /\ expired[p] \in BOOLEAN /\ registered[p] \in BOOLEAN /\ editing[p] \in BOOLEAN
         /\ editing[p] => Op(p) = "resize"
<1>1. TypeInv
  BY DEF SafeInv
<1>2. call[p] \in CallRecords /\ Name(p) \in Names /\ Instance(p) \in Instances
  BY <1>1, LockedCall
<1> QED
  BY <1>1, <1>2 DEF CallInv, LocalNow, TypeInv, TypeOK

\* An inspection tells the truth, or the context ended.
LEMMA InspectionTells ==
  ASSUME Undisturbed, NEW p \in Procs, NEW o \in Inspections(p)
  PROVE  /\ o.vm = Instance(p)
         /\ o.exit \in {"timeout", IF Listed(Instance(p)) THEN "ok" ELSE "notfound"}
         /\ expired[p] => o.exit = "timeout"
<1>1. InspectOutcomes(Instance(p)) =
        {Outcome(Instance(p), IF Listed(Instance(p)) THEN "ok" ELSE "notfound")}
  BY DEF InspectOutcomes, Fault, Undisturbed
<1> QED
  BY <1>1 DEF Inspections, Ends, Outcome

\* What a command's step gives its call: the instance the outcome leaves, and a
\* context that is done when the command was stopped.
LEMMA Gives ==
  ASSUME SafeInv, NEW p \in Procs, pc[p] \in LockedSteps,
         NEW o, o.vm \in Instances, Runs(p, o)
  PROVE  vm'[Name(p)] = o.vm /\ expired'[p] = (expired[p] \/ o.exit = "timeout")
BY LockedCall, RunsWorld DEF SafeInv

\* Every command's outcome is one that limactl may end with, or its effect and
\* a context that ended, or nothing after the deadline.
LEMMA EndsForms ==
  ASSUME NEW p, NEW outs, NEW o \in Ends(p, outs)
  PROVE  \/ ~expired[p] /\ o \in outs
         \/ ~expired[p] /\ o.exit = "timeout" /\ \E q \in outs : o.vm = q.vm
         \/ expired[p] /\ o.exit = "timeout" /\ o.vm = Instance(p)
BY DEF Ends, Outcome

\* The call goes on, or returns an error.
LEMMA SuccessNext ==
  ASSUME SafeInv, NEW p \in Procs, pc[p] \in LockedSteps, NEW l \in CallSteps(p),
         NEW o, o.exit \in Errors, OnSuccess(p, o, l)
  PROVE  IF o.exit = "ok" THEN pc'[p] = l /\ err'[p] = err[p]
         ELSE /\ pc'[p] = "unlock"
              /\ err'[p] = IF editing[p] /\ pc[p] \in StartSteps THEN "restart" ELSE o.exit
BY OnSuccessPc DEF SafeInv

\* The fields of a changed instance.
LEMMA Fields ==
  ASSUME NEW v \in Instances, NEW y
  PROVE  /\ LET w == [v EXCEPT !.status = y] IN
              w.status = y /\ w.protected = v.protected /\ w.config = v.config
         /\ LET w == [v EXCEPT !.protected = y] IN
              w.status = v.status /\ w.protected = y /\ w.config = v.config
         /\ LET w == [v EXCEPT !.config = y] IN
              w.status = v.status /\ w.protected = v.protected /\ w.config = y
BY DEF Instances, VM, Absent

\* An instance is its three fields.
LEMMA InstanceRecord ==
  ASSUME NEW v \in Instances
  PROVE  v = [status |-> v.status, protected |-> v.protected, config |-> v.config]
BY DEF Instances, VM, Absent

\* What each command may leave of an instance.
LEMMA StartForms ==
  ASSUME NEW v, NEW q \in StartOutcomes(v)
  PROVE  \/ q.vm = v /\ q.exit = "failed"
         \/ /\ Usable(v) /\ q.vm = [v EXCEPT !.status = "running"]
            /\ q.exit \in {"ok", "failed"}
         \/ Usable(v) /\ q.vm = [v EXCEPT !.status = "broken"] /\ q.exit = "ok"
BY DEF StartOutcomes, Outcome, Fault, Becomes

\* What limactl stop may leave.
LEMMA StopForms ==
  ASSUME NEW v, NEW q \in StopOutcomes(v)
  PROVE  \/ q.vm = v /\ q.exit = "failed"
         \/ Running(v) /\ q.vm = [v EXCEPT !.status = "stopped"] /\ q.exit = "ok"
BY DEF StopOutcomes, Outcome, Fault, Becomes

\* What limactl edit may leave.
LEMMA EditForms ==
  ASSUME NEW v, NEW c, NEW q \in EditOutcomes(v, c)
  PROVE  \/ q.vm = v /\ q.exit = "failed"
         \/ Usable(v) /\ ~Running(v) /\ q.vm = [v EXCEPT !.config = c] /\ q.exit = "ok"
BY DEF EditOutcomes, Outcome, Fault

\* What limactl protect and unprotect may leave.
LEMMA ProtectForms ==
  ASSUME NEW v, NEW b, NEW q \in ProtectOutcomes(v, b)
  PROVE  \/ q.vm = v /\ q.exit = "failed"
         \/ Usable(v) /\ q.vm = [v EXCEPT !.protected = b] /\ q.exit = "ok"
BY DEF ProtectOutcomes, Outcome, Fault

\* What limactl delete may leave of an unprotected instance.
LEMMA DeleteForms ==
  ASSUME NEW v, ~v.protected, NEW q \in DeleteOutcomes(v)
  PROVE  \/ q.vm = v /\ (q.exit = "failed" \/ (q.exit = "ok" /\ ~Listed(v)))
         \/ q.vm = Absent /\ q.exit = "ok"
         \/ Listed(v) /\ q.vm = [v EXCEPT !.status = "deleting"] /\ q.exit = "ok"
BY DEF DeleteOutcomes, Outcome, Fault, Becomes

\* A create that goes on at l, and one that returns.
LEMMA CreateGoesOn ==
  ASSUME SafeInv, CallInv, NEW p \in Procs, pc[p] \in LockedSteps, Op(p) = "create",
         NEW l \in CommandSteps("create"), pc'[p] = l, l # "unlock",
         registered'[p] \in BOOLEAN, expired'[p] \in BOOLEAN, editing'[p] = editing[p],
         CreateLocal(l, call[p], before[p], vm'[Name(p)], err'[p], registered'[p], expired'[p])
  PROVE  LocalNext(p)
<1>1. ~editing[p] /\ editing'[p] = FALSE
  BY Now
<1> QED
  BY <1>1 DEF LocalNext, Local, Op, CommandSteps

\* A create that returns keeps its contract.
LEMMA CreateReturns ==
  ASSUME SafeInv, CallInv, NEW p \in Procs, pc[p] \in LockedSteps, Op(p) = "create",
         pc'[p] = "unlock",
         registered'[p] \in BOOLEAN, expired'[p] \in BOOLEAN, editing'[p] = editing[p],
         err'[p] = "timeout" => expired'[p],
         CreatePromise(call[p], before[p], vm'[Name(p)], err'[p], registered'[p], expired'[p])
  PROVE  LocalNext(p)
<1>1. ~editing[p] /\ editing'[p] = FALSE
  BY Now
<1>2. Promised(call[p], before[p], vm'[Name(p)], err'[p], registered'[p], expired'[p])
  BY DEF Promised, Op
<1> QED
  BY <1>1, <1>2 DEF LocalNext, Local, Op

\* Where a create stands.
LEMMA CreateNow ==
  ASSUME SafeInv, CallInv, NEW p \in Procs, pc[p] \in LockedSteps, Op(p) = "create",
         pc[p] # "unlock"
  PROVE  /\ CreateLocal(pc[p], call[p], before[p], Instance(p), err[p], registered[p],
                        expired[p])
         /\ call[p].config \in Configs /\ call[p].start \in BOOLEAN
         /\ call[p].protect \in BOOLEAN
         /\ ~editing[p]
<1>1. LocalNow(p) /\ ~editing[p] /\ call[p] \in CallRecords
  BY Now
<1>2. editing[p] \in BOOLEAN /\ registered[p] \in BOOLEAN /\ expired[p] \in BOOLEAN
  BY Now
<1> QED
  BY <1>1, <1>2 DEF LocalNow, Local, Op, CallRecords

\* The collision check: taken, free, or not known before the deadline.
LEMMA CreateExistsKeeps ==
  ASSUME Undisturbed, SafeInv, CallInv, NEW p \in Procs, CreateExists(p)
  PROVE  LocalNext(p)
<1> DEFINE b == before[p]
           v == Instance(p)
<1>1. pc[p] \in LockedSteps /\ At(p, "create_exists")
  BY DEF CreateExists, At, LockedSteps, Steps, SetupSteps
<1>2. Op(p) = "create" /\ b \in Instances /\ v \in Instances
  BY <1>1, Now, StepOp DEF At, SafeInv
<1>3. Untouched(b, v) /\ err[p] = "ok" /\ ~registered[p]
  BY <1>1, <1>2, CreateNow DEF CreateLocal, At, StartSteps
<1>4. PICK o \in Inspections(p) :
        /\ Runs(p, o)
        /\ IF o.exit = "notfound" THEN Goto(p, "create_validate") /\ UNCHANGED err
           ELSE Goto(p, "unlock") /\ Fail(p, IF o.exit = "ok" THEN "exists" ELSE o.exit)
  BY DEF CreateExists
<1>5. /\ o.vm = v /\ o.exit \in {"timeout", IF Listed(v) THEN "ok" ELSE "notfound"}
      /\ vm'[Name(p)] = v /\ expired'[p] = (expired[p] \/ o.exit = "timeout")
  BY <1>1, <1>2, <1>4, InspectionTells, Gives
<1>6. /\ registered'[p] = registered[p] /\ editing'[p] = editing[p]
      /\ registered'[p] \in BOOLEAN /\ expired'[p] \in BOOLEAN /\ ~editing[p]
  BY <1>1, <1>2, <1>5, Now DEF CreateExists, Service
<1>7. CASE o.exit = "notfound"
  <2>1. pc'[p] = "create_validate" /\ err'[p] = "ok"
    BY <1>1, <1>3, <1>4, <1>7 DEF Goto, SafeInv, TypeInv, TypeOK
  <2>2. ~Listed(v) /\ ~Usable(b)
    BY <1>2, <1>3, <1>5, <1>7, UntouchedFacts
  <2>3. CreateLocal("create_validate", call[p], b, v, "ok", registered'[p], expired'[p])
    BY <1>3, <1>6, <2>2 DEF CreateLocal, StartSteps
  <2>4. "create_validate" \in CommandSteps("create")
    BY DEF CommandSteps
  <2> QED
    BY <1>1, <1>2, <1>5, <1>6, <2>1, <2>3, <2>4, CreateGoesOn
<1>8. CASE o.exit # "notfound"
  <2>1. pc'[p] = "unlock" /\ err'[p] = IF o.exit = "ok" THEN "exists" ELSE "timeout"
    BY <1>1, <1>4, <1>5, <1>6, <1>8 DEF Goto, Fail, SafeInv, TypeInv, TypeOK
  <2>2. o.exit = "ok" => Listed(v) /\ Listed(b)
    BY <1>2, <1>3, <1>5, UntouchedFacts
  <2>3. CreatePromise(call[p], b, v, err'[p], registered'[p], expired'[p])
    BY <1>3, <1>5, <1>6, <2>1, <2>2 DEF CreatePromise
  <2>4. err'[p] = "timeout" => expired'[p]
    BY <1>5, <1>8, <2>1
  <2> QED
    BY <1>1, <1>2, <1>5, <1>6, <2>1, <2>3, <2>4, CreateReturns
<1> QED
  BY <1>7, <1>8

\* A configuration that does not validate leaves the name free.
LEMMA CreateValidateKeeps ==
  ASSUME Undisturbed, SafeInv, CallInv, NEW p \in Procs, CreateValidate(p)
  PROVE  LocalNext(p)
<1> DEFINE b == before[p]
           v == Instance(p)
<1>1. pc[p] \in LockedSteps /\ At(p, "create_validate")
  BY DEF CreateValidate, At, LockedSteps, Steps, SetupSteps
<1>2. Op(p) = "create" /\ b \in Instances /\ v \in Instances
  BY <1>1, Now, StepOp DEF At, SafeInv
<1>3. Untouched(b, v) /\ ~Listed(v) /\ ~Usable(b) /\ err[p] = "ok" /\ ~registered[p]
  BY <1>1, <1>2, CreateNow DEF CreateLocal, At, StartSteps
<1>4. PICK o \in Ends(p, ValidateOutcomes(v)) : Runs(p, o) /\ OnSuccess(p, o, "create_run")
  BY DEF CreateValidate
<1>5. o.vm = v /\ o.exit \in {"ok", "failed", "timeout"}
  BY <1>4, EndsForms DEF ValidateOutcomes, Outcome, Fault
<1>6. vm'[Name(p)] = v /\ expired'[p] = (expired[p] \/ o.exit = "timeout")
  BY <1>1, <1>2, <1>4, <1>5, Gives
<1>7. /\ registered'[p] = registered[p] /\ editing'[p] = editing[p]
      /\ registered'[p] \in BOOLEAN /\ expired'[p] \in BOOLEAN /\ ~editing[p]
  BY <1>1, <1>2, <1>6, Now DEF CreateValidate, Service
<1>8. /\ "create_run" \in CallSteps(p) /\ "create_run" \in CommandSteps("create")
      /\ o.exit \in Errors
  BY <1>1, <1>2, <1>5, NextSteps DEF SafeInv, Errors, CommandSteps
<1>9. IF o.exit = "ok" THEN pc'[p] = "create_run" /\ err'[p] = err[p]
      ELSE pc'[p] = "unlock" /\ err'[p] = o.exit
  BY <1>1, <1>4, <1>7, <1>8, SuccessNext
<1>10. CASE o.exit = "ok"
  <2>1. CreateLocal("create_run", call[p], b, v, "ok", registered'[p], expired'[p])
    BY <1>3, <1>7 DEF CreateLocal, StartSteps
  <2> QED
    BY <1>1, <1>2, <1>3, <1>6, <1>7, <1>8, <1>9, <1>10, <2>1, CreateGoesOn
<1>11. CASE o.exit # "ok"
  <2>1. CreatePromise(call[p], b, v, err'[p], registered'[p], expired'[p])
    BY <1>3, <1>5, <1>7, <1>9, <1>11 DEF CreatePromise
  <2> QED
    BY <1>1, <1>2, <1>6, <1>7, <1>9, <1>11, <2>1, CreateReturns
<1> QED
  BY <1>10, <1>11

\* limactl create, from an absent instance: made, made in part, or nothing.
LEMMA CreatedKeeps ==
  ASSUME SafeInv, CallInv, NEW p \in Procs,
         pc[p] \in LockedSteps, pc[p] \in {"create_run", "create_keygen"},
         NEW outs,
         outs \in {{Outcome(Instance(p), "failed")},
                   CreateOutcomes(Instance(p), call[p].config)},
         Created(p, outs), editing'[p] = editing[p]
  PROVE  LocalNext(p)
<1> DEFINE b == before[p]
           v == Instance(p)
           c == call[p].config
<1>1. Op(p) = "create" /\ b \in Instances /\ v \in Instances /\ call[p].config \in Configs
  BY Now, StepOp DEF At, SafeInv
<1>2. Untouched(b, v) /\ ~Listed(v) /\ ~Usable(b) /\ err[p] = "ok" /\ ~editing[p]
  BY <1>1, CreateNow DEF CreateLocal, StartSteps
<1>3. v = Absent
  BY <1>1, <1>2 DEF Instances, VM, Listed, Absent, Statuses
<1>4. PICK o \in Ends(p, outs) :
        /\ Runs(p, o)
        /\ registered' = [registered EXCEPT ![p] = (o.exit = "ok")]
        /\ IF o.exit = "ok" THEN Goto(p, "create_wait") /\ UNCHANGED err
           ELSE Goto(p, "create_recheck") /\ Fail(p, o.exit)
  BY DEF Created
<1>5. \A q \in outs : \/ q.vm = Absent /\ q.exit = "failed"
                      \/ q.vm = New(c, "broken") /\ q.exit = "failed"
                      \/ q.vm \in {New(c, s) : s \in {"creating", "stopped"}} /\ q.exit = "ok"
  <2>1. CASE outs = {Outcome(v, "failed")}
    BY <1>3, <2>1 DEF Outcome
  <2>2. CASE outs = CreateOutcomes(v, c)
    BY <1>2, <1>3, <2>2 DEF CreateOutcomes, Outcome, Fault
  <2> QED
    BY <2>1, <2>2
<1>6. /\ o.exit \in {"ok", "failed", "timeout"}
      /\ o.exit = "ok" => Made(call[p], o.vm, {"creating", "stopped"})
      /\ o.vm = Absent \/ Made(call[p], o.vm, {"creating", "stopped", "broken"})
  BY <1>3, <1>5, EndsForms DEF Made
<1>7. o.vm \in Instances
  BY <1>1, <1>6, InstanceForms DEF Made
<1>8. vm'[Name(p)] = o.vm /\ expired'[p] = (expired[p] \/ o.exit = "timeout")
  BY <1>4, <1>7, Gives
<1>9. registered'[p] = (o.exit = "ok") /\ expired'[p] \in BOOLEAN
  BY <1>4, <1>8, Now DEF SafeInv, TypeInv, TypeOK
<1>10. {"create_wait", "create_recheck"} \subseteq CommandSteps("create")
  BY DEF CommandSteps
<1>11. CASE o.exit = "ok"
  <2>1. pc'[p] = "create_wait" /\ err'[p] = "ok"
    BY <1>2, <1>4, <1>11 DEF Goto, SafeInv, TypeInv, TypeOK
  <2>2. CreateLocal("create_wait", call[p], b, o.vm, "ok", registered'[p], expired'[p])
    BY <1>2, <1>6, <1>9, <1>11 DEF CreateLocal, StartSteps
  <2> QED
    BY <1>1, <1>8, <1>9, <1>10, <2>1, <2>2, CreateGoesOn
<1>12. CASE o.exit # "ok"
  <2>1. pc'[p] = "create_recheck" /\ err'[p] = o.exit
    BY <1>2, <1>4, <1>12 DEF Goto, Fail, SafeInv, TypeInv, TypeOK
  <2>2. CreateLocal("create_recheck", call[p], b, o.vm, o.exit, registered'[p], expired'[p])
    BY <1>2, <1>6, <1>8, <1>9, <1>12 DEF CreateLocal, Failed, StartSteps
  <2> QED
    BY <1>1, <1>8, <1>9, <1>10, <2>1, <2>2, CreateGoesOn
<1> QED
  BY <1>11, <1>12

\* limactl create, directly or after ssh-keygen.
LEMMA CreateRunKeeps ==
  ASSUME Undisturbed, SafeInv, CallInv, NEW p \in Procs, CreateRun(p) \/ CreateKeygen(p)
  PROVE  LocalNext(p)
<1>1. pc[p] \in LockedSteps /\ pc[p] \in {"create_run", "create_keygen"}
  BY DEF CreateRun, CreateKeygen, At, LockedSteps, Steps, SetupSteps
<1>2. editing'[p] = editing[p]
  BY DEF CreateRun, CreateKeygen
<1>3. CASE CreateKeygen(p)
  BY <1>1, <1>2, <1>3, CreatedKeeps DEF CreateKeygen
<1>4. CASE CreateRun(p) /\ (keypair \/ expired[p])
  BY <1>1, <1>2, <1>4, CreatedKeeps DEF CreateRun
<1>5. CASE CreateRun(p) /\ ~(keypair \/ expired[p])
  <2>1. /\ Goto(p, "create_keygen") /\ UNCHANGED <<err, registered, expired, vm, maker>>
        /\ At(p, "create_run") /\ Op(p) = "create"
    BY <1>1, <1>5, StepOp DEF CreateRun, At, SafeInv
  <2>2. pc'[p] = "create_keygen"
    BY <2>1 DEF Goto, SafeInv, TypeInv, TypeOK
  <2>3. CreateLocal("create_keygen", call[p], before[p], Instance(p), err[p], registered[p],
                    expired[p])
    BY <1>1, <2>1, CreateNow DEF CreateLocal, At, StartSteps
  <2>4. "create_keygen" \in CommandSteps("create")
    BY DEF CommandSteps
  <2>5. registered[p] \in BOOLEAN /\ expired[p] \in BOOLEAN
    BY <1>1, Now
  <2> QED
    BY <1>1, <1>2, <2>1, <2>2, <2>3, <2>4, <2>5, CreateGoesOn DEF Instance
<1> QED
  BY <1>3, <1>4, <1>5

\* The second look tells what a failed create left.
LEMMA CreateRecheckKeeps ==
  ASSUME Undisturbed, SafeInv, CallInv, NEW p \in Procs, CreateRecheck(p)
  PROVE  LocalNext(p)
<1> DEFINE b == before[p]
           v == Instance(p)
<1>1. pc[p] \in LockedSteps /\ At(p, "create_recheck")
  BY DEF CreateRecheck, At, LockedSteps, Steps, SetupSteps
<1>2. Op(p) = "create" /\ b \in Instances /\ v \in Instances
  BY <1>1, Now, StepOp DEF At, SafeInv
<1>3. /\ ~Usable(b) /\ Failed(err[p], expired[p])
      /\ v = Absent \/ Made(call[p], v, {"creating", "stopped", "broken"})
  BY <1>1, <1>2, CreateNow DEF CreateLocal, At, StartSteps
<1>4. PICK o \in Inspections(p) :
        Runs(p, o) /\ registered' = [registered EXCEPT ![p] = (o.exit = "ok")]
  BY DEF CreateRecheck
<1>5. /\ o.exit \in {"timeout", IF Listed(v) THEN "ok" ELSE "notfound"}
      /\ vm'[Name(p)] = v /\ expired'[p] = (expired[p] \/ o.exit = "timeout")
  BY <1>1, <1>2, <1>4, InspectionTells, Gives
<1>6. /\ registered'[p] = (o.exit = "ok") /\ editing'[p] = editing[p]
      /\ expired'[p] \in BOOLEAN /\ pc'[p] = "unlock" /\ err'[p] = err[p]
  BY <1>1, <1>4, <1>5, Now DEF CreateRecheck, Goto, SafeInv, TypeInv, TypeOK
<1>7. v # Absent => Listed(v) /\ ~v.protected /\ Leftover(call[p], v, err[p])
  BY <1>3 DEF Made, New, Leftover, Usable, Listed
<1>8. v = Absent => Untouched(b, v) /\ ~Listed(v)
  <2>1. b.status = "absent" => b = Absent
    BY <1>2 DEF Instances, VM
  <2>2. b.status = "deleting" => Settled(b) = Absent
    BY DEF Settled
  <2> QED
    BY <1>3, <2>1, <2>2 DEF Untouched, Usable, Listed, Absent
<1>9. CreatePromise(call[p], b, v, err'[p], registered'[p], expired'[p])
  BY <1>3, <1>5, <1>6, <1>7, <1>8 DEF CreatePromise, Failed
<1> QED
  BY <1>1, <1>2, <1>3, <1>5, <1>6, <1>9, CreateReturns DEF Failed

\* A created instance that is up, or that need not be.
LEMMA CreateUp ==
  ASSUME SafeInv, CallInv, NEW p \in Procs, pc[p] \in LockedSteps, Op(p) = "create",
         pc[p] # "unlock", ~Usable(before[p]), registered'[p] = registered[p], registered[p],
         editing'[p] = editing[p], expired'[p] \in BOOLEAN, err'[p] = "ok",
         Made(call[p], vm'[Name(p)], {RunStatus(call[p].start)}),
         pc'[p] = AfterStart(p)
  PROVE  LocalNext(p)
<1>1. {"create_protect", "create_inspect"} \subseteq CommandSteps("create")
  BY DEF CommandSteps
<1>2. call[p].protect \in BOOLEAN
  BY CreateNow
<1>3. CASE call[p].protect
  <2>1. pc'[p] = "create_protect"
    BY <1>3 DEF AfterStart
  <2>2. CreateLocal("create_protect", call[p], before[p], vm'[Name(p)], err'[p],
                    registered'[p], expired'[p])
    BY <1>3 DEF CreateLocal, StartSteps
  <2> QED
    BY <1>1, <2>1, <2>2, CreateGoesOn
<1>4. CASE ~call[p].protect
  <2>1. pc'[p] = "create_inspect"
    BY <1>4 DEF AfterStart
  <2>2. vm'[Name(p)] = [status |-> RunStatus(call[p].start), protected |-> call[p].protect,
                        config |-> call[p].config]
    BY <1>2, <1>4 DEF Made, New
  <2>3. CreateLocal("create_inspect", call[p], before[p], vm'[Name(p)], err'[p],
                    registered'[p], expired'[p])
    BY <2>2 DEF CreateLocal, StartSteps
  <2> QED
    BY <1>1, <2>1, <2>3, CreateGoesOn
<1> QED
  BY <1>3, <1>4

\* A create that fails once the instance is registered.
LEMMA CreateLeaves ==
  ASSUME SafeInv, CallInv, NEW p \in Procs, pc[p] \in LockedSteps, Op(p) = "create",
         ~Usable(before[p]), registered'[p] = registered[p], registered[p],
         editing'[p] = editing[p], expired'[p] \in BOOLEAN,
         err'[p] \in {"failed", "broken", "timeout"}, err'[p] = "timeout" => expired'[p],
         Leftover(call[p], vm'[Name(p)], err'[p]),
         pc'[p] = "unlock"
  PROVE  LocalNext(p)
<1>1. CreatePromise(call[p], before[p], vm'[Name(p)], err'[p], registered'[p], expired'[p])
  BY DEF CreatePromise
<1> QED
  BY <1>1, CreateReturns

\* The wait ends when the instance is registered, or returns with it reported.
LEMMA CreateWaitKeeps ==
  ASSUME Undisturbed, SafeInv, CallInv, NEW p \in Procs, CreateWait(p)
  PROVE  LocalNext(p)
<1> DEFINE b == before[p]
           v == Instance(p)
<1>1. pc[p] \in LockedSteps /\ At(p, "create_wait")
  BY DEF CreateWait, At, LockedSteps, Steps, SetupSteps
<1>2. Op(p) = "create" /\ b \in Instances /\ v \in Instances
  BY <1>1, Now, StepOp DEF At, SafeInv
<1>3. /\ ~Usable(b) /\ err[p] = "ok" /\ registered[p] /\ ~editing[p]
      /\ Made(call[p], v, {"creating", "stopped"}) /\ call[p].start \in BOOLEAN
  BY <1>1, <1>2, CreateNow DEF CreateLocal, At, StartSteps
<1>4. PICK o \in Inspections(p) :
        /\ Runs(p, o)
        /\ CASE Seen(o) \in {"stopped", "running"}  -> Goto(p, AfterCreate(p)) /\ UNCHANGED err
             [] Seen(o) \in {"broken", "failed", "timeout"}
                  -> Goto(p, "unlock") /\ Fail(p, Seen(o))
             [] OTHER -> UNCHANGED <<pc, err>>
        /\ UNCHANGED Service
  BY DEF CreateWait, WaitForStatus, Polls
<1>5. /\ o.exit \in {"timeout", "ok"} /\ o.vm = v
      /\ vm'[Name(p)] = v /\ expired'[p] = (expired[p] \/ o.exit = "timeout")
  BY <1>1, <1>2, <1>3, <1>4, InspectionTells, Gives DEF Made, New, Listed
<1>6. /\ registered'[p] = registered[p] /\ editing'[p] = editing[p]
      /\ expired'[p] \in BOOLEAN
  BY <1>1, <1>4, <1>5, Now DEF Service, SafeInv, TypeInv, TypeOK
<1>7. v.status \in {"creating", "stopped"} /\ v = New(call[p].config, v.status)
  BY <1>3 DEF Made, New
<1>8. CASE o.exit = "timeout"
  <2>1. Seen(o) = "timeout"
    BY <1>8 DEF Seen
  <2>2. Goto(p, "unlock") /\ Fail(p, "timeout")
    BY <1>4, <2>1
  <2>3. pc'[p] = "unlock" /\ err'[p] = "timeout"
    BY <1>3, <2>2 DEF Goto, Fail, SafeInv, TypeInv, TypeOK
  <2>4. Leftover(call[p], v, "timeout")
    BY <1>7 DEF Leftover, New, Usable
  <2> QED
    BY <1>1, <1>2, <1>3, <1>5, <1>6, <1>8, <2>3, <2>4, CreateLeaves
<1>9. CASE o.exit = "ok" /\ v.status = "creating"
  <2>1. Seen(o) = "creating"
    BY <1>5, <1>9 DEF Seen
  <2>2. pc'[p] = "create_wait" /\ err'[p] = "ok"
    BY <1>1, <1>3, <1>4, <2>1 DEF At
  <2>3. CreateLocal("create_wait", call[p], b, v, "ok", registered'[p], expired'[p])
    BY <1>3, <1>6 DEF CreateLocal, StartSteps
  <2>4. "create_wait" \in CommandSteps("create")
    BY DEF CommandSteps
  <2> QED
    BY <1>1, <1>2, <1>3, <1>5, <1>6, <2>2, <2>3, <2>4, CreateGoesOn
<1>10. CASE o.exit = "ok" /\ v.status = "stopped"
  <2>1. Seen(o) = "stopped"
    BY <1>5, <1>10 DEF Seen
  <2>2. Goto(p, AfterCreate(p)) /\ UNCHANGED err
    BY <1>4, <2>1
  <2>3. pc'[p] = AfterCreate(p) /\ err'[p] = "ok"
    BY <1>3, <2>2 DEF Goto, SafeInv, TypeInv, TypeOK
  <2>4. CASE call[p].start
    <3>1. pc'[p] = "start_inspect"
      BY <2>3, <2>4 DEF AfterCreate
    <3>2. Made(call[p], v, {"stopped"})
      BY <1>7, <1>10 DEF Made
    <3>3. CreateLocal("start_inspect", call[p], b, v, "ok", registered'[p], expired'[p])
      BY <1>3, <1>6, <2>4, <3>2 DEF CreateLocal, StartSteps
    <3>4. "start_inspect" \in CommandSteps("create")
      BY DEF CommandSteps, StartSteps
    <3> QED
      BY <1>1, <1>2, <1>3, <1>5, <1>6, <2>3, <3>1, <3>3, <3>4, CreateGoesOn
  <2>5. CASE ~call[p].start
    <3>1. pc'[p] = AfterStart(p)
      BY <2>3, <2>5 DEF AfterCreate
    <3>2. Made(call[p], v, {RunStatus(call[p].start)})
      BY <1>7, <1>10, <2>5 DEF Made, RunStatus
    <3> QED
      BY <1>1, <1>2, <1>3, <1>5, <1>6, <2>3, <3>1, <3>2, CreateUp DEF At
  <2> QED
    BY <2>4, <2>5
<1> QED
  BY <1>5, <1>7, <1>8, <1>9, <1>10

\* The protection comes last.
LEMMA CreateProtectKeeps ==
  ASSUME Undisturbed, SafeInv, CallInv, NEW p \in Procs, CreateProtect(p)
  PROVE  LocalNext(p)
<1> DEFINE b == before[p]
           v == Instance(p)
           w == [v EXCEPT !.protected = TRUE]
           s == RunStatus(call[p].start)
<1>1. pc[p] \in LockedSteps /\ At(p, "create_protect")
  BY DEF CreateProtect, At, LockedSteps, Steps, SetupSteps
<1>2. Op(p) = "create" /\ b \in Instances /\ v \in Instances
  BY <1>1, Now, StepOp DEF At, SafeInv
<1>3. /\ ~Usable(b) /\ err[p] = "ok" /\ registered[p] /\ ~editing[p]
      /\ call[p].protect /\ Made(call[p], v, {RunStatus(call[p].start)})
      /\ call[p].protect \in BOOLEAN
  BY <1>1, <1>2, CreateNow DEF CreateLocal, At, StartSteps
<1>4. v = New(call[p].config, s) /\ s \in {"running", "stopped"} /\ Usable(v)
  BY <1>3 DEF Made, RunStatus, New, Usable
<1>5. w.status = s /\ w.protected /\ w.config = call[p].config
  BY <1>2, <1>4, Fields DEF New
<1>6. PICK o \in Ends(p, ProtectOutcomes(v, TRUE)) : Runs(p, o) /\ OnSuccess(p, o, "create_inspect")
  BY DEF CreateProtect
<1>7. \A q \in ProtectOutcomes(v, TRUE) :
        (q.vm = w /\ q.exit = "ok") \/ (q.vm = v /\ q.exit = "failed")
  BY ProtectForms
<1>8. \/ o.exit = "ok" /\ o.vm = w
      \/ o.exit = "failed" /\ o.vm = v
      \/ o.exit = "timeout" /\ o.vm \in {v, w}
  BY <1>6, <1>7, EndsForms
<1>9. o.vm \in Instances
  BY <1>2, <1>4, <1>8, InstanceForms
<1>10. vm'[Name(p)] = o.vm /\ expired'[p] = (expired[p] \/ o.exit = "timeout")
  BY <1>1, <1>6, <1>9, Gives
<1>11. /\ registered'[p] = registered[p] /\ editing'[p] = editing[p] /\ expired'[p] \in BOOLEAN
  BY <1>1, <1>10, Now DEF CreateProtect, Service
<1>12. /\ "create_inspect" \in CallSteps(p) /\ "create_inspect" \in CommandSteps("create")
       /\ o.exit \in Errors
  BY <1>1, <1>2, <1>8, NextSteps DEF SafeInv, Errors, CommandSteps
<1>13. IF o.exit = "ok" THEN pc'[p] = "create_inspect" /\ err'[p] = "ok"
       ELSE pc'[p] = "unlock" /\ err'[p] = o.exit
  BY <1>1, <1>3, <1>6, <1>12, SuccessNext
<1>14. CASE o.exit = "ok"
  <2>0. o.vm = [status |-> s, protected |-> TRUE, config |-> call[p].config]
    BY <1>5, <1>8, <1>9, <1>14, InstanceRecord
  <2>1. CreateLocal("create_inspect", call[p], b, o.vm, "ok", registered'[p], expired'[p])
    BY <1>3, <1>11, <2>0 DEF CreateLocal, StartSteps
  <2> QED
    BY <1>1, <1>2, <1>3, <1>10, <1>11, <1>12, <1>13, <1>14, <2>1, CreateGoesOn
<1>15. CASE o.exit # "ok"
  <2>1. Leftover(call[p], o.vm, o.exit)
    BY <1>3, <1>4, <1>5, <1>8, <1>15 DEF Leftover, Usable, New
  <2> QED
    BY <1>1, <1>2, <1>3, <1>8, <1>10, <1>11, <1>13, <1>15, <2>1, CreateLeaves
<1> QED
  BY <1>14, <1>15

\* The last inspection decides nothing about the instance.
LEMMA CreateInspectKeeps ==
  ASSUME Undisturbed, SafeInv, CallInv, NEW p \in Procs, CreateInspect(p)
  PROVE  LocalNext(p)
<1> DEFINE b == before[p]
           v == Instance(p)
<1>1. pc[p] \in LockedSteps /\ At(p, "create_inspect")
  BY DEF CreateInspect, At, LockedSteps, Steps, SetupSteps
<1>2. Op(p) = "create" /\ b \in Instances /\ v \in Instances
  BY <1>1, Now, StepOp DEF At, SafeInv
<1>3. /\ ~Usable(b) /\ err[p] = "ok" /\ registered[p] /\ ~editing[p]
      /\ v = [status |-> RunStatus(call[p].start), protected |-> call[p].protect,
              config |-> call[p].config]
  BY <1>1, <1>2, CreateNow DEF CreateLocal, At, StartSteps
<1>4. PICK o \in Inspections(p) : Runs(p, o) /\ OnSuccess(p, o, "unlock")
  BY DEF CreateInspect
<1>5. Usable(v) /\ Listed(v) /\ v.status = RunStatus(call[p].start)
  BY <1>3 DEF Usable, Listed, RunStatus
<1>6. /\ o.exit \in {"timeout", "ok"}
      /\ vm'[Name(p)] = v /\ expired'[p] = (expired[p] \/ o.exit = "timeout")
  BY <1>1, <1>2, <1>4, <1>5, InspectionTells, Gives
<1>7. /\ registered'[p] = registered[p] /\ editing'[p] = editing[p] /\ expired'[p] \in BOOLEAN
  BY <1>1, <1>6, Now DEF CreateInspect, Service
<1>8. "unlock" \in CallSteps(p) /\ o.exit \in Errors
  BY <1>1, <1>6, NextSteps DEF SafeInv, Errors
<1>9. pc'[p] = "unlock" /\ err'[p] = o.exit
  BY <1>1, <1>3, <1>4, <1>8, SuccessNext
<1>10. CreatePromise(call[p], b, v, err'[p], registered'[p], expired'[p])
  <2>1. CASE o.exit = "ok"
    BY <1>3, <1>7, <1>9, <2>1 DEF CreatePromise
  <2>2. CASE o.exit = "timeout"
    BY <1>3, <1>5, <1>7, <1>9, <2>2 DEF CreatePromise, Leftover
  <2> QED
    BY <1>6, <2>1, <2>2
<1> QED
  BY <1>1, <1>2, <1>3, <1>6, <1>7, <1>9, <1>10, CreateReturns

\* What the steps of startLocked and stopLocked do, whatever call they are of.
Keeps(p) ==
  /\ registered'[p] = registered[p] /\ editing'[p] = editing[p]
  /\ registered'[p] \in BOOLEAN /\ editing'[p] \in BOOLEAN /\ expired'[p] \in BOOLEAN
  /\ expired[p] => expired'[p]

\* The error of a start is wrapped after an edit.
Wrapped(p, e) == IF editing[p] THEN "restart" ELSE e

Stays(p) == vm'[Name(p)] = Instance(p)

\* A command that leaves Service alone keeps the call's results.
LEMMA KeepsFacts ==
  ASSUME SafeInv, CallInv, NEW p \in Procs, pc[p] \in LockedSteps,
         NEW o, o.vm \in Instances, Runs(p, o), UNCHANGED Service
  PROVE  Keeps(p) /\ vm'[Name(p)] = o.vm /\ (o.exit = "timeout" => expired'[p])
BY Now, Gives DEF Keeps, Service

\* start: the first inspection.
LEMMA StartInspectStep ==
  ASSUME Undisturbed, SafeInv, CallInv, NEW p \in Procs, StartInspect(p)
  PROVE  /\ Keeps(p) /\ Stays(p)
         /\ \/ Running(Instance(p)) /\ pc'[p] = AfterStart(p) /\ err'[p] = err[p]
            \/ /\ Listed(Instance(p)) /\ ~Running(Instance(p))
               /\ pc'[p] = "start_run" /\ err'[p] = err[p]
            \/ ~Listed(Instance(p)) /\ pc'[p] = "unlock" /\ err'[p] = Wrapped(p, "notfound")
            \/ expired'[p] /\ pc'[p] = "unlock" /\ err'[p] = Wrapped(p, "timeout")
<1> DEFINE v == Instance(p)
           l == IF Running(v) THEN AfterStart(p) ELSE "start_run"
<1>1. pc[p] \in LockedSteps /\ pc[p] \in StartSteps
  BY DEF StartInspect, At, StartSteps, LockedSteps, Steps, SetupSteps
<1>2. v \in Instances
  BY <1>1, Now
<1>3. PICK o \in Inspections(p) :
        /\ Runs(p, o)
        /\ OnSuccess(p, o, IF Running(o.vm) THEN AfterStart(p) ELSE "start_run")
  BY DEF StartInspect
<1>4. o.vm = v /\ o.exit \in {"timeout", IF Listed(v) THEN "ok" ELSE "notfound"}
  BY <1>3, InspectionTells
<1>5. Keeps(p) /\ Stays(p) /\ (o.exit = "timeout" => expired'[p])
  BY <1>1, <1>2, <1>3, <1>4, KeepsFacts DEF StartInspect, Stays
<1>6. l \in CallSteps(p) /\ o.exit \in Errors
  BY <1>1, <1>4, NextSteps DEF SafeInv, Errors, StartSteps
<1>7. IF o.exit = "ok" THEN pc'[p] = l /\ err'[p] = err[p]
      ELSE pc'[p] = "unlock" /\ err'[p] = Wrapped(p, o.exit)
  BY <1>1, <1>3, <1>4, <1>6, SuccessNext DEF Wrapped
<1>8. Running(v) => Listed(v)
  BY DEF Running, Listed
<1> QED
  BY <1>4, <1>5, <1>7, <1>8

\* start: limactl start, which may leave the instance running and fail.
LEMMA StartRunStep ==
  ASSUME Undisturbed, SafeInv, CallInv, NEW p \in Procs, StartRun(p)
  PROVE  LET v == Instance(p)
             w == vm'[Name(p)]
             ran == /\ Usable(v)
                    /\ w \in {[v EXCEPT !.status = "running"], [v EXCEPT !.status = "broken"]}
         IN /\ Keeps(p)
            /\ \/ ran /\ pc'[p] = "start_wait" /\ err'[p] = err[p]
               \/ /\ w = v \/ ran
                  /\ pc'[p] = "start_degraded"
                  /\ \/ err'[p] = Wrapped(p, "failed")
                     \/ expired'[p] /\ err'[p] = Wrapped(p, "timeout")
<1> DEFINE v == Instance(p)
           ran == {[v EXCEPT !.status = "running"], [v EXCEPT !.status = "broken"]}
<1>1. pc[p] \in LockedSteps /\ pc[p] \in StartSteps
  BY DEF StartRun, At, StartSteps, LockedSteps, Steps, SetupSteps
<1>2. v \in Instances
  BY <1>1, Now
<1>3. PICK o \in Ends(p, StartOutcomes(v)) :
        /\ Runs(p, o)
        /\ IF o.exit = "ok" THEN Goto(p, "start_wait") /\ UNCHANGED err
           ELSE Goto(p, "start_degraded") /\ Fail(p, o.exit)
  BY DEF StartRun
<1>4. /\ o.vm = v \/ (Usable(v) /\ o.vm \in ran)
      /\ o.exit = "ok" => Usable(v) /\ o.vm \in ran
      /\ o.exit \in {"ok", "failed", "timeout"}
  <2>1. \A q \in StartOutcomes(v) :
          /\ q.vm = v \/ (Usable(v) /\ q.vm \in ran)
          /\ q.exit = "ok" => Usable(v) /\ q.vm \in ran
          /\ q.exit \in {"ok", "failed"}
    BY StartForms
  <2> QED
    BY <1>3, <2>1, EndsForms
<1>5. o.vm \in Instances
  <2>1. Usable(v) => [v EXCEPT !.status = "running"] \in Instances
    BY <1>2, InstanceForms DEF Usable, Listed
  <2>2. Usable(v) => [v EXCEPT !.status = "broken"] \in Instances
    BY <1>2, InstanceForms DEF Usable, Listed
  <2> QED
    BY <1>2, <1>4, <2>1, <2>2
<1>6. Keeps(p) /\ vm'[Name(p)] = o.vm /\ (o.exit = "timeout" => expired'[p])
  BY <1>1, <1>3, <1>5, KeepsFacts DEF StartRun
<1>7. CASE o.exit = "ok"
  <2>1. pc'[p] = "start_wait" /\ err'[p] = err[p]
    BY <1>1, <1>3, <1>7 DEF Goto, SafeInv, TypeInv, TypeOK
  <2> QED
    BY <1>4, <1>6, <1>7, <2>1
<1>8. CASE o.exit # "ok"
  <2>1. pc'[p] = "start_degraded" /\ err'[p] = Wrapped(p, o.exit)
    BY <1>1, <1>3, <1>8 DEF Goto, Fail, Wrapped, SafeInv, TypeInv, TypeOK
  <2> QED
    BY <1>4, <1>6, <1>8, <2>1
<1> QED
  BY <1>7, <1>8

\* start: the look after a failure.
LEMMA StartDegradedStep ==
  ASSUME Undisturbed, SafeInv, CallInv, NEW p \in Procs, StartDegraded(p)
  PROVE  /\ Keeps(p) /\ Stays(p)
         /\ \/ Running(Instance(p)) /\ pc'[p] = "start_wait" /\ err'[p] = "ok"
            \/ /\ pc'[p] = "unlock" /\ err'[p] = err[p]
               /\ Running(Instance(p)) => expired'[p]
<1> DEFINE v == Instance(p)
<1>1. pc[p] \in LockedSteps
  BY DEF StartDegraded, At, LockedSteps, Steps, SetupSteps
<1>2. v \in Instances
  BY <1>1, Now
<1>3. PICK o \in Inspections(p) :
        /\ Runs(p, o)
        /\ IF o.exit = "ok" /\ Running(o.vm)
           THEN Goto(p, "start_wait") /\ err' = [err EXCEPT ![p] = "ok"]
           ELSE Goto(p, "unlock") /\ UNCHANGED err
  BY DEF StartDegraded
<1>4. o.vm = v /\ o.exit \in {"timeout", IF Listed(v) THEN "ok" ELSE "notfound"}
  BY <1>3, InspectionTells
<1>5. Keeps(p) /\ Stays(p) /\ (o.exit = "timeout" => expired'[p])
  BY <1>1, <1>2, <1>3, <1>4, KeepsFacts DEF StartDegraded, Stays
<1>6. IF o.exit = "ok" /\ Running(v) THEN pc'[p] = "start_wait" /\ err'[p] = "ok"
      ELSE pc'[p] = "unlock" /\ err'[p] = err[p]
  BY <1>3, <1>4 DEF Goto, SafeInv, TypeInv, TypeOK
<1>7. Running(v) => Listed(v)
  BY DEF Running, Listed
<1> QED
  BY <1>4, <1>5, <1>6, <1>7

\* A poll for one status.
LEMMA PollStep ==
  ASSUME Undisturbed, SafeInv, CallInv, NEW p \in Procs, pc[p] \in LockedSteps,
         NEW s \in {"stopped", "running"}, NEW l \in CallSteps(p), WaitForStatus(p, {s}, l)
  PROVE  /\ Keeps(p) /\ Stays(p)
         /\ \/ Instance(p).status = s /\ pc'[p] = l /\ err'[p] = err[p]
            \/ /\ Instance(p).status = "broken" /\ pc'[p] = "unlock"
               /\ err'[p] = IF pc[p] \in StartSteps THEN Wrapped(p, "broken") ELSE "broken"
            \/ /\ expired'[p] /\ pc'[p] = "unlock"
               /\ err'[p] = IF pc[p] \in StartSteps THEN Wrapped(p, "timeout") ELSE "timeout"
            \/ /\ Instance(p).status \notin {s, "broken"}
               /\ pc'[p] = pc[p] /\ err'[p] = err[p]
<1> DEFINE v == Instance(p)
<1>1. v \in Instances
  BY Now
<1>2. PICK o \in Inspections(p) :
        /\ Runs(p, o)
        /\ CASE Seen(o) \in {s}  -> Goto(p, l) /\ UNCHANGED err
             [] Seen(o) \in {"broken", "failed", "timeout"}
                  -> Goto(p, "unlock") /\ Fail(p, Seen(o))
             [] OTHER -> UNCHANGED <<pc, err>>
        /\ UNCHANGED Service
  BY DEF WaitForStatus, Polls
<1>3. o.vm = v /\ o.exit \in {"timeout", IF Listed(v) THEN "ok" ELSE "notfound"}
  BY <1>2, InspectionTells
<1>4. Keeps(p) /\ Stays(p) /\ (o.exit = "timeout" => expired'[p])
  BY <1>1, <1>2, <1>3, KeepsFacts DEF Stays
<1>5. v.status \in Statuses
  BY <1>1 DEF Instances, VM, Absent, Statuses
<1>6. CASE o.exit = "timeout"
  <2>1. Seen(o) = "timeout"
    BY <1>6 DEF Seen
  <2>2. Goto(p, "unlock") /\ Fail(p, "timeout")
    BY <1>2, <2>1
  <2>3. pc'[p] = "unlock"
        /\ err'[p] = IF pc[p] \in StartSteps THEN Wrapped(p, "timeout") ELSE "timeout"
    BY <2>2 DEF Goto, Fail, Wrapped, SafeInv, TypeInv, TypeOK
  <2> QED
    BY <1>4, <1>6, <2>3
<1>7. CASE o.exit = "ok"
  <2>1. Seen(o) = v.status
    BY <1>3, <1>7 DEF Seen
  <2>2. CASE v.status = s
    <3>1. Goto(p, l) /\ UNCHANGED err
      BY <1>2, <2>1, <2>2
    <3> QED
      BY <1>4, <2>2, <3>1 DEF Goto, SafeInv, TypeInv, TypeOK
  <2>3. CASE v.status = "broken"
    <3>1. Goto(p, "unlock") /\ Fail(p, "broken")
      BY <1>2, <2>1, <2>3
    <3>2. pc'[p] = "unlock"
          /\ err'[p] = IF pc[p] \in StartSteps THEN Wrapped(p, "broken") ELSE "broken"
      BY <3>1 DEF Goto, Fail, Wrapped, SafeInv, TypeInv, TypeOK
    <3> QED
      BY <1>4, <2>3, <3>2
  <2>4. CASE v.status \notin {s, "broken"}
    <3>1. UNCHANGED <<pc, err>>
      BY <1>2, <1>5, <2>1, <2>4 DEF Statuses
    <3> QED
      BY <1>4, <2>4, <3>1
  <2> QED
    BY <2>2, <2>3, <2>4
<1>8. CASE o.exit = "notfound"
  <2>1. Seen(o) = "notfound"
    BY <1>8 DEF Seen
  <2>2. UNCHANGED <<pc, err>>
    BY <1>2, <2>1
  <2>3. v.status = "absent"
    BY <1>3, <1>8 DEF Listed
  <2> QED
    BY <1>4, <2>2, <2>3
<1> QED
  BY <1>3, <1>6, <1>7, <1>8

\* stop: the first inspection.
LEMMA StopInspectStep ==
  ASSUME Undisturbed, SafeInv, CallInv, NEW p \in Procs, StopInspect(p)
  PROVE  /\ Keeps(p) /\ Stays(p)
         /\ \/ Stopped(Instance(p)) /\ pc'[p] = AfterStop(p) /\ err'[p] = err[p]
            \/ /\ Listed(Instance(p)) /\ ~Stopped(Instance(p))
               /\ pc'[p] = "stop_run" /\ err'[p] = err[p]
            \/ ~Listed(Instance(p)) /\ pc'[p] = "unlock" /\ err'[p] = "notfound"
            \/ expired'[p] /\ pc'[p] = "unlock" /\ err'[p] = "timeout"
<1> DEFINE v == Instance(p)
           l == IF Stopped(v) THEN AfterStop(p) ELSE "stop_run"
<1>1. pc[p] \in LockedSteps /\ pc[p] \in StopSteps /\ pc[p] \notin StartSteps
  BY DEF StopInspect, At, StartSteps, StopSteps, LockedSteps, Steps, SetupSteps
<1>2. v \in Instances /\ (editing[p] => Op(p) = "resize")
  BY <1>1, Now
<1>3. PICK o \in Inspections(p) :
        Runs(p, o) /\ OnSuccess(p, o, IF Stopped(o.vm) THEN AfterStop(p) ELSE "stop_run")
  BY DEF StopInspect
<1>4. o.vm = v /\ o.exit \in {"timeout", IF Listed(v) THEN "ok" ELSE "notfound"}
  BY <1>3, InspectionTells
<1>5. Keeps(p) /\ Stays(p) /\ (o.exit = "timeout" => expired'[p])
  BY <1>1, <1>2, <1>3, <1>4, KeepsFacts DEF StopInspect, Stays
<1>6. l \in CallSteps(p) /\ o.exit \in Errors
  <2>1. StopSteps \subseteq CallSteps(p) /\ AfterStop(p) \in CallSteps(p)
    BY <1>1, <1>2, NextSteps, StepOp DEF SafeInv
  <2> QED
    BY <1>4, <2>1 DEF Errors, StopSteps
<1>7. IF o.exit = "ok" THEN pc'[p] = l /\ err'[p] = err[p]
      ELSE pc'[p] = "unlock" /\ err'[p] = o.exit
  BY <1>1, <1>3, <1>4, <1>6, SuccessNext
<1>8. Stopped(v) => Listed(v)
  BY DEF Stopped, Listed
<1> QED
  BY <1>4, <1>5, <1>7, <1>8

\* stop: limactl stop.
LEMMA StopRunStep ==
  ASSUME Undisturbed, SafeInv, CallInv, NEW p \in Procs, StopRun(p)
  PROVE  LET v == Instance(p)
             w == vm'[Name(p)]
             halted == Running(v) /\ w = [v EXCEPT !.status = "stopped"]
         IN /\ Keeps(p)
            /\ \/ halted /\ pc'[p] = "stop_wait" /\ err'[p] = err[p]
               \/ w = v /\ pc'[p] = "unlock" /\ err'[p] = "failed"
               \/ /\ w = v \/ halted
                  /\ expired'[p] /\ pc'[p] = "unlock" /\ err'[p] = "timeout"
<1> DEFINE v == Instance(p)
           h == [v EXCEPT !.status = "stopped"]
<1>1. pc[p] \in LockedSteps /\ pc[p] \in StopSteps /\ pc[p] \notin StartSteps
  BY DEF StopRun, At, StartSteps, StopSteps, LockedSteps, Steps, SetupSteps
<1>2. v \in Instances
  BY <1>1, Now
<1>3. PICK o \in Ends(p, StopOutcomes(v)) : Runs(p, o) /\ OnSuccess(p, o, "stop_wait")
  BY DEF StopRun
<1>4. /\ o.vm = v \/ (Running(v) /\ o.vm = h)
      /\ o.exit = "ok" => Running(v) /\ o.vm = h
      /\ o.exit = "failed" => o.vm = v
      /\ o.exit \in {"ok", "failed", "timeout"}
  <2>1. \A q \in StopOutcomes(v) :
          (q.vm = v /\ q.exit = "failed") \/ (Running(v) /\ q.vm = h /\ q.exit = "ok")
    BY StopForms
  <2> QED
    BY <1>3, <2>1, EndsForms
<1>5. o.vm \in Instances
  <2>1. Running(v) => h \in Instances
    BY <1>2, InstanceForms DEF Running, Listed
  <2> QED
    BY <1>2, <1>4, <2>1
<1>6. Keeps(p) /\ vm'[Name(p)] = o.vm /\ (o.exit = "timeout" => expired'[p])
  BY <1>1, <1>3, <1>5, KeepsFacts DEF StopRun
<1>7. "stop_wait" \in CallSteps(p) /\ o.exit \in Errors
  BY <1>1, <1>4, NextSteps, StepOp DEF SafeInv, StopSteps, Errors
<1>8. IF o.exit = "ok" THEN pc'[p] = "stop_wait" /\ err'[p] = err[p]
      ELSE pc'[p] = "unlock" /\ err'[p] = o.exit
  BY <1>1, <1>3, <1>7, SuccessNext
<1> QED
  BY <1>4, <1>6, <1>8

\* A new instance in another run state.
LEMMA NewChanged ==
  ASSUME NEW c, NEW s, NEW t
  PROVE  [New(c, s) EXCEPT !.status = t] = New(c, t)
<1> DEFINE d == FALSE
<1> HIDE DEF d
<1>1. [[status |-> s, protected |-> d, config |-> c] EXCEPT !.status = t] =
         [status |-> t, protected |-> d, config |-> c]
  OBVIOUS
<1> QED
  BY <1>1 DEF d, New

\* A create that starts what it made.
LEMMA CreateStartKeeps ==
  ASSUME Undisturbed, SafeInv, CallInv, NEW p \in Procs, Op(p) = "create",
         StartInspect(p) \/ StartRun(p) \/ StartDegraded(p) \/ StartWait(p)
  PROVE  LocalNext(p)
<1> DEFINE b == before[p]
           v == Instance(p)
           w == vm'[Name(p)]
<1>1. pc[p] \in LockedSteps /\ pc[p] \in StartSteps /\ pc[p] # "unlock"
  BY DEF StartInspect, StartRun, StartDegraded, StartWait, At, StartSteps, LockedSteps,
         Steps, SetupSteps
<1>2. b \in Instances /\ v \in Instances /\ call[p].start \in BOOLEAN /\ ~editing[p]
  BY <1>1, Now, CreateNow
<1>3. CreateLocal(pc[p], call[p], b, v, err[p], registered[p], expired[p])
  BY <1>1, CreateNow
<1>4. /\ ~Usable(b) /\ registered[p] /\ call[p].start
      /\ pc[p] # "start_degraded" => err[p] = "ok"
      /\ pc[p] \in {"start_inspect", "start_run"} => Made(call[p], v, {"stopped"})
      /\ pc[p] = "start_degraded" =>
           Failed(err[p], expired[p]) /\ Made(call[p], v, {"stopped", "running", "broken"})
      /\ pc[p] = "start_wait" => Made(call[p], v, {"running", "broken"})
  BY <1>1, <1>3 DEF CreateLocal, StartSteps
<1>5. StartSteps \subseteq CommandSteps("create")
  BY DEF CommandSteps
<1>6. RunStatus(call[p].start) = "running"
  BY <1>4 DEF RunStatus
<1>7. \A ss, s : Made(call[p], v, ss) =>
        /\ v.status \in ss /\ v.config = call[p].config /\ ~v.protected
        /\ v = New(call[p].config, v.status)
        /\ (s = v.status => Made(call[p], v, {s}))
  BY DEF Made, New
<1>8. ASSUME Made(call[p], w, {"stopped", "running", "broken"}), NEW e
      PROVE  Leftover(call[p], w, e)
  BY <1>8 DEF Made, New, Leftover, Usable
<1>9. CASE StartInspect(p)
  <2>1. pc[p] = "start_inspect" /\ v.status = "stopped" /\ Made(call[p], v, {"stopped"})
    BY <1>4, <1>9 DEF StartInspect, At, Made, New
  <2>2. /\ Keeps(p) /\ w = v
        /\ \/ pc'[p] = "start_run" /\ err'[p] = "ok"
           \/ expired'[p] /\ pc'[p] = "unlock" /\ err'[p] = "timeout"
    BY <1>2, <1>4, <1>9, <2>1, StartInspectStep
       DEF Stays, Wrapped, Running, Listed
  <2>3. CASE pc'[p] = "start_run" /\ err'[p] = "ok"
    <3>1. CreateLocal("start_run", call[p], b, w, err'[p], registered'[p], expired'[p])
      BY <1>4, <2>1, <2>2, <2>3 DEF CreateLocal, StartSteps, Keeps
    <3> QED
      BY <1>1, <1>5, <2>2, <2>3, <3>1, CreateGoesOn DEF Keeps, StartSteps
  <2>4. CASE expired'[p] /\ pc'[p] = "unlock" /\ err'[p] = "timeout"
    <3>1. Leftover(call[p], w, "timeout")
      BY <2>1, <2>2 DEF Made, New, Leftover, Usable
    <3> QED
      BY <1>1, <1>4, <2>2, <2>4, <3>1, CreateLeaves DEF Keeps
  <2> QED
    BY <2>2, <2>3, <2>4
<1>10. CASE StartRun(p)
  <2>1. pc[p] = "start_run" /\ v.status = "stopped" /\ v = New(call[p].config, "stopped")
    <3>1. pc[p] = "start_run"
      BY <1>10 DEF StartRun, At
    <3>2. v = New(call[p].config, "stopped")
      BY <1>4, <3>1 DEF Made
    <3> QED
      BY <3>1, <3>2 DEF New
  <2>2. /\ [v EXCEPT !.status = "running"] = New(call[p].config, "running")
        /\ [v EXCEPT !.status = "broken"] = New(call[p].config, "broken")
    BY <2>1, NewChanged
  <2>3. /\ Keeps(p)
        /\ \/ /\ w \in {New(call[p].config, "running"), New(call[p].config, "broken")}
              /\ pc'[p] = "start_wait" /\ err'[p] = "ok"
           \/ /\ w \in {v, New(call[p].config, "running"), New(call[p].config, "broken")}
              /\ pc'[p] = "start_degraded"
              /\ err'[p] = "failed" \/ (expired'[p] /\ err'[p] = "timeout")
    BY <1>2, <1>4, <1>10, <2>1, <2>2, StartRunStep DEF Wrapped
  <2>4. CASE pc'[p] = "start_wait"
    <3>1. Made(call[p], w, {"running", "broken"})
      BY <2>3, <2>4 DEF Made
    <3>2. CreateLocal("start_wait", call[p], b, w, err'[p], registered'[p], expired'[p])
      BY <1>4, <2>3, <2>4, <3>1 DEF CreateLocal, StartSteps, Keeps
    <3> QED
      BY <1>1, <1>5, <2>3, <2>4, <3>2, CreateGoesOn DEF Keeps, StartSteps
  <2>5. CASE pc'[p] = "start_degraded"
    <3>1. Made(call[p], w, {"stopped", "running", "broken"})
      BY <2>1, <2>3, <2>5 DEF Made
    <3>2. CreateLocal("start_degraded", call[p], b, w, err'[p], registered'[p], expired'[p])
      BY <1>4, <2>3, <2>5, <3>1 DEF CreateLocal, StartSteps, Keeps, Failed
    <3> QED
      BY <1>1, <1>5, <2>3, <2>5, <3>2, CreateGoesOn DEF Keeps, StartSteps
  <2> QED
    BY <2>3, <2>4, <2>5
<1>11. CASE StartDegraded(p)
  <2>1. /\ pc[p] = "start_degraded" /\ Failed(err[p], expired[p])
        /\ Made(call[p], v, {"stopped", "running", "broken"})
    BY <1>4, <1>11 DEF StartDegraded, At
  <2>2. /\ Keeps(p) /\ w = v
        /\ \/ Running(v) /\ pc'[p] = "start_wait" /\ err'[p] = "ok"
           \/ pc'[p] = "unlock" /\ err'[p] = err[p]
    BY <1>11, StartDegradedStep DEF Stays
  <2>3. CASE Running(v) /\ pc'[p] = "start_wait" /\ err'[p] = "ok"
    <3>1. Made(call[p], w, {"running", "broken"})
      BY <1>7, <2>1, <2>2, <2>3 DEF Made, Running
    <3>2. CreateLocal("start_wait", call[p], b, w, err'[p], registered'[p], expired'[p])
      BY <1>4, <2>2, <2>3, <3>1 DEF CreateLocal, StartSteps, Keeps
    <3> QED
      BY <1>1, <1>5, <2>2, <2>3, <3>2, CreateGoesOn DEF Keeps, StartSteps
  <2>4. CASE pc'[p] = "unlock" /\ err'[p] = err[p]
    BY <1>1, <1>4, <1>8, <2>1, <2>2, <2>4, CreateLeaves DEF Keeps, Failed
  <2> QED
    BY <2>2, <2>3, <2>4
<1>12. CASE StartWait(p)
  <2>1. pc[p] = "start_wait" /\ err[p] = "ok" /\ Made(call[p], v, {"running", "broken"})
    BY <1>4, <1>12 DEF StartWait, At
  <2>2. AfterStart(p) \in CallSteps(p)
    BY <1>1, NextSteps DEF SafeInv
  <2>3. /\ Keeps(p) /\ w = v
        /\ \/ v.status = "running" /\ pc'[p] = AfterStart(p) /\ err'[p] = "ok"
           \/ pc'[p] = "unlock" /\ err'[p] = "broken"
           \/ expired'[p] /\ pc'[p] = "unlock" /\ err'[p] = "timeout"
    BY <1>1, <1>2, <1>7, <1>12, <2>1, <2>2, PollStep DEF StartWait, Stays, Wrapped
  <2>4. CASE v.status = "running" /\ pc'[p] = AfterStart(p) /\ err'[p] = "ok"
    <3>1. Made(call[p], w, {RunStatus(call[p].start)})
      BY <1>6, <1>7, <2>1, <2>3, <2>4
    <3> QED
      BY <1>1, <1>4, <2>3, <2>4, <3>1, CreateUp DEF Keeps
  <2>5. CASE pc'[p] = "unlock" /\ err'[p] \in {"broken", "timeout"}
             /\ (err'[p] = "timeout" => expired'[p])
    <3>1. Made(call[p], w, {"stopped", "running", "broken"})
      BY <2>1, <2>3 DEF Made
    <3> QED
      BY <1>1, <1>4, <1>8, <2>3, <2>5, <3>1, CreateLeaves DEF Keeps
  <2> QED
    BY <2>3, <2>4, <2>5
<1> QED
  BY <1>9, <1>10, <1>11, <1>12

\* A run, or a resize that found no difference.
Plain(p) ==
  \/ Op(p) = "run"
  \/ Op(p) = "resize" /\ ~editing[p] /\ before[p].config = call[p].config

\* One that goes on.
LEMMA PlainGoesOn ==
  ASSUME SafeInv, CallInv, NEW p \in Procs, pc[p] \in LockedSteps, Plain(p), Keeps(p),
         NEW l \in StartSteps \cup StopSteps, pc'[p] = l,
         RunLocal(l, call[p], before[p], vm'[Name(p)], err'[p], expired'[p])
  PROVE  LocalNext(p)
<1>1. LocalNow(p) /\ ~editing'[p] /\ ~registered'[p]
  BY Now DEF Plain, Keeps, LocalNow, Local, Op
<1>2. l \in CommandSteps("run") \cap CommandSteps("resize")
      /\ l \notin {"unlock", "resize_inspect", "edit_run"}
  BY DEF CommandSteps, StartSteps, StopSteps
<1> QED
  BY <1>1, <1>2 DEF LocalNext, Local, ResizeLocal, Plain, Op

\* One that returns keeps its contract.
LEMMA PlainReturns ==
  ASSUME SafeInv, CallInv, NEW p \in Procs, pc[p] \in LockedSteps, Plain(p), Keeps(p),
         pc'[p] = "unlock", err'[p] = "timeout" => expired'[p],
         RunPromise(call[p], before[p], vm'[Name(p)], err'[p], expired'[p])
  PROVE  LocalNext(p)
<1>1. LocalNow(p) /\ ~editing'[p] /\ ~registered'[p]
  BY Now DEF Plain, Keeps, LocalNow, Local, Op
<1>2. Promised(call[p], before[p], vm'[Name(p)], err'[p], registered'[p], expired'[p])
  BY <1>1 DEF Promised, ResizePromise, Plain, Op
<1> QED
  BY <1>1, <1>2 DEF LocalNext, Local

\* Where it stands.
LEMMA PlainNow ==
  ASSUME SafeInv, CallInv, NEW p \in Procs, pc[p] \in StartSteps \cup StopSteps,
         Op(p) \in {"resize", "run"}, ~editing[p]
  PROVE  /\ RunLocal(pc[p], call[p], before[p], Instance(p), err[p], expired[p])
         /\ Plain(p) /\ call[p].want \in BOOLEAN
         /\ pc[p] \in LockedSteps /\ before[p] \in Instances /\ Instance(p) \in Instances
<1>1. pc[p] \in LockedSteps /\ pc[p] \notin {"unlock", "resize_inspect"}
  BY DEF StartSteps, StopSteps, LockedSteps, Steps, SetupSteps
<1>2. LocalNow(p) /\ call[p] \in CallRecords /\ before[p] \in Instances
      /\ Instance(p) \in Instances
  BY <1>1, Now
<1>3. call[p].want \in BOOLEAN
  BY <1>2 DEF CallRecords, Op
<1> QED
  BY <1>1, <1>2, <1>3 DEF LocalNow, Local, ResizeLocal, Plain, Op

\* Errors a run may return when it left the instance as it found it.
LEMMA PlainUntouched ==
  ASSUME SafeInv, CallInv, NEW p \in Procs, pc[p] \in LockedSteps, Plain(p), Keeps(p),
         pc'[p] = "unlock", Untouched(before[p], vm'[Name(p)]),
         \/ err'[p] = "notfound" /\ ~Usable(before[p])
         \/ err'[p] = "failed" /\ (call[p].want => ~Running(vm'[Name(p)]))
         \/ err'[p] = "timeout" /\ expired'[p]
  PROVE  LocalNext(p)
<1>1. RunPromise(call[p], before[p], vm'[Name(p)], err'[p], expired'[p])
  BY DEF RunPromise
<1> QED
  BY <1>1, PlainReturns

\* Starting, for a call that changes the run state only.
LEMMA PlainStartKeeps ==
  ASSUME Undisturbed, SafeInv, CallInv, NEW p \in Procs,
         Op(p) \in {"resize", "run"}, ~editing[p],
         StartInspect(p) \/ StartRun(p) \/ StartDegraded(p) \/ StartWait(p)
  PROVE  LocalNext(p)
<1> DEFINE b == before[p]
           v == Instance(p)
           w == vm'[Name(p)]
           c == call[p]
<1>1. pc[p] \in StartSteps
  BY DEF StartInspect, StartRun, StartDegraded, StartWait, At, StartSteps
<1>2. /\ RunLocal(pc[p], c, b, v, err[p], expired[p]) /\ Plain(p)
      /\ pc[p] \in LockedSteps /\ b \in Instances /\ v \in Instances
  BY <1>1, PlainNow
<1>3. c.want /\ AfterStart(p) = "unlock" /\ (pc[p] # "start_degraded" => err[p] = "ok")
  BY <1>1, <1>2 DEF RunLocal, AfterStart
<1>4. CASE StartInspect(p)
  <2>1. Untouched(b, v) /\ err[p] = "ok"
    BY <1>2, <1>3, <1>4 DEF RunLocal, StartInspect, At
  <2>2. /\ Keeps(p) /\ w = v
        /\ \/ Running(v) /\ pc'[p] = "unlock" /\ err'[p] = "ok"
           \/ ~Running(v) /\ pc'[p] = "start_run" /\ err'[p] = "ok"
           \/ ~Listed(v) /\ pc'[p] = "unlock" /\ err'[p] = "notfound"
           \/ expired'[p] /\ pc'[p] = "unlock" /\ err'[p] = "timeout"
    BY <1>3, <1>4, <2>1, StartInspectStep DEF Stays, Wrapped
  <2>3. CASE Running(v) /\ pc'[p] = "unlock" /\ err'[p] = "ok"
    <3>1. Usable(v) /\ SameButStatus(b, v)
      BY <1>2, <2>1, <2>3, UntouchedFacts DEF Usable, Running
    <3>2. RunPromise(c, b, w, err'[p], expired'[p])
      BY <1>3, <2>2, <2>3, <3>1 DEF RunPromise, RunStatus, Running
    <3> QED
      BY <1>2, <2>2, <2>3, <3>2, PlainReturns
  <2>4. CASE ~Running(v) /\ pc'[p] = "start_run" /\ err'[p] = "ok"
    <3>1. RunLocal("start_run", c, b, w, err'[p], expired'[p])
      BY <1>3, <2>1, <2>2, <2>4 DEF RunLocal, StopSteps, StartSteps
    <3> QED
      BY <1>2, <2>2, <2>4, <3>1, PlainGoesOn DEF StartSteps
  <2>5. CASE ~Listed(v) /\ pc'[p] = "unlock" /\ err'[p] = "notfound"
    BY <1>2, <2>1, <2>2, <2>5, UntouchedFacts, PlainUntouched
  <2>6. CASE expired'[p] /\ pc'[p] = "unlock" /\ err'[p] = "timeout"
    BY <1>2, <2>1, <2>2, <2>6, PlainUntouched
  <2> QED
    BY <2>2, <2>3, <2>4, <2>5, <2>6
<1>5. CASE StartRun(p)
  <2>1. Untouched(b, v) /\ ~Running(v) /\ err[p] = "ok"
    BY <1>2, <1>3, <1>5 DEF RunLocal, StartRun, At
  <2>2. ~Running(b)
    BY <1>2, <2>1, UntouchedFacts
  <2>3. ASSUME Usable(v), w \in {[v EXCEPT !.status = "running"], [v EXCEPT !.status = "broken"]}
        PROVE  SameButStatus(b, w) /\ w.status \in {"running", "broken"}
    <3>1. SameButStatus(b, v)
      BY <1>2, <2>1, <2>3, UntouchedFacts
    <3>2. w.status \in {"running", "broken"} /\ w.protected = v.protected /\ w.config = v.config
      <4>1. CASE w = [v EXCEPT !.status = "running"]
        BY <1>2, <4>1, Fields
      <4>2. CASE w = [v EXCEPT !.status = "broken"]
        BY <1>2, <4>2, Fields
      <4> QED
        BY <2>3, <4>1, <4>2
    <3> QED
      BY <3>1, <3>2 DEF SameButStatus, Usable
  <2>4. /\ Keeps(p)
        /\ \/ /\ SameButStatus(b, w) /\ w.status \in {"running", "broken"}
              /\ pc'[p] = "start_wait" /\ err'[p] = "ok"
           \/ /\ w = v \/ (SameButStatus(b, w) /\ w.status \in {"running", "broken"})
              /\ pc'[p] = "start_degraded"
              /\ err'[p] = "failed" \/ (expired'[p] /\ err'[p] = "timeout")
    BY <1>5, <2>1, <2>3, StartRunStep DEF Wrapped
  <2>5. CASE pc'[p] = "start_wait"
    <3>1. RunLocal("start_wait", c, b, w, err'[p], expired'[p])
      BY <1>3, <2>2, <2>4, <2>5 DEF RunLocal, StopSteps, StartSteps
    <3> QED
      BY <1>2, <2>4, <2>5, <3>1, PlainGoesOn DEF StartSteps
  <2>6. CASE pc'[p] = "start_degraded"
    <3>1. Failed(err'[p], expired'[p])
      BY <2>4, <2>6 DEF Failed
    <3>2. RunLocal("start_degraded", c, b, w, err'[p], expired'[p])
      BY <1>3, <2>1, <2>2, <2>4, <2>6, <3>1 DEF RunLocal, StopSteps, StartSteps
    <3> QED
      BY <1>2, <2>4, <2>6, <3>2, PlainGoesOn DEF StartSteps
  <2> QED
    BY <2>4, <2>5, <2>6
<1>6. CASE StartDegraded(p)
  <2>1. /\ Failed(err[p], expired[p]) /\ ~Running(b)
        /\ Untouched(b, v) \/ (SameButStatus(b, v) /\ v.status \in {"running", "broken"})
    BY <1>2, <1>6 DEF RunLocal, StartDegraded, At
  <2>2. /\ Keeps(p) /\ w = v
        /\ \/ Running(v) /\ pc'[p] = "start_wait" /\ err'[p] = "ok"
           \/ /\ pc'[p] = "unlock" /\ err'[p] = err[p]
              /\ Running(v) => expired'[p]
    BY <1>6, StartDegradedStep DEF Stays
  <2>3. CASE Running(v) /\ pc'[p] = "start_wait" /\ err'[p] = "ok"
    <3>1. SameButStatus(b, v) /\ v.status \in {"running", "broken"}
      BY <1>2, <2>1, <2>3, UntouchedFacts
    <3>2. RunLocal("start_wait", c, b, w, err'[p], expired'[p])
      BY <1>3, <2>1, <2>2, <2>3, <3>1 DEF RunLocal, StopSteps, StartSteps
    <3> QED
      BY <1>2, <2>2, <2>3, <3>2, PlainGoesOn DEF StartSteps
  <2>4. CASE /\ pc'[p] = "unlock" /\ err'[p] = err[p]
             /\ Running(v) => expired'[p]
    <3>1. {"running", "broken"} \subseteq RunStates(b, c.want)
      BY <1>3, <2>1 DEF RunStates
    <3>2. RunPromise(c, b, w, err'[p], expired'[p])
      BY <2>1, <2>2, <2>4, <3>1 DEF RunPromise, Failed
    <3>3. err'[p] = "timeout" => expired'[p]
      BY <2>1, <2>2, <2>4 DEF Failed, Keeps
    <3> QED
      BY <1>2, <2>2, <2>4, <3>2, <3>3, PlainReturns
  <2> QED
    BY <2>2, <2>3, <2>4
<1>7. CASE StartWait(p)
  <2>1. /\ pc[p] = "start_wait" /\ err[p] = "ok" /\ ~Running(b)
        /\ SameButStatus(b, v) /\ v.status \in {"running", "broken"}
    BY <1>2, <1>3, <1>7 DEF RunLocal, StartWait, At
  <2>2. "unlock" \in CallSteps(p)
    BY DEF CallSteps
  <2>3. /\ Keeps(p) /\ w = v /\ pc'[p] = "unlock"
        /\ \/ v.status = "running" /\ err'[p] = "ok"
           \/ v.status = "broken" /\ err'[p] = "broken"
           \/ expired'[p] /\ err'[p] = "timeout"
    BY <1>1, <1>2, <1>3, <1>7, <2>1, <2>2, PollStep DEF StartWait, Stays, Wrapped
  <2>4. {"running", "broken"} \subseteq RunStates(b, c.want)
    BY <1>3, <2>1 DEF RunStates
  <2>5. RunPromise(c, b, w, err'[p], expired'[p])
    BY <1>3, <2>1, <2>3, <2>4 DEF RunPromise, RunStatus, Running
  <2> QED
    BY <1>2, <2>3, <2>5, PlainReturns
<1> QED
  BY <1>4, <1>5, <1>6, <1>7

\* Stopping, for such a call.
LEMMA PlainStopKeeps ==
  ASSUME Undisturbed, SafeInv, CallInv, NEW p \in Procs,
         Op(p) \in {"resize", "run"}, ~editing[p],
         StopInspect(p) \/ StopRun(p) \/ StopWait(p)
  PROVE  LocalNext(p)
<1> DEFINE b == before[p]
           v == Instance(p)
           w == vm'[Name(p)]
           c == call[p]
<1>1. pc[p] \in StopSteps /\ pc[p] \notin StartSteps
  BY DEF StopInspect, StopRun, StopWait, At, StopSteps, StartSteps
<1>2. /\ RunLocal(pc[p], c, b, v, err[p], expired[p]) /\ Plain(p)
      /\ pc[p] \in LockedSteps /\ b \in Instances /\ v \in Instances
  BY <1>1, PlainNow
<1>3. ~c.want /\ AfterStop(p) = "unlock" /\ err[p] = "ok"
  BY <1>1, <1>2 DEF RunLocal, AfterStop, StopSteps
<1>4. CASE StopInspect(p)
  <2>1. Untouched(b, v)
    BY <1>2, <1>4 DEF RunLocal, StopInspect, At
  <2>2. /\ Keeps(p) /\ w = v
        /\ \/ Stopped(v) /\ pc'[p] = "unlock" /\ err'[p] = "ok"
           \/ ~Stopped(v) /\ pc'[p] = "stop_run" /\ err'[p] = "ok"
           \/ ~Listed(v) /\ pc'[p] = "unlock" /\ err'[p] = "notfound"
           \/ expired'[p] /\ pc'[p] = "unlock" /\ err'[p] = "timeout"
    BY <1>3, <1>4, StopInspectStep DEF Stays
  <2>3. CASE Stopped(v) /\ pc'[p] = "unlock" /\ err'[p] = "ok"
    <3>1. SameButStatus(b, v) /\ Stoppable(b)
      BY <1>2, <2>1, <2>3, UntouchedFacts DEF Usable, Stopped, Stoppable
    <3>2. RunPromise(c, b, w, err'[p], expired'[p])
      BY <1>3, <2>2, <2>3, <3>1 DEF RunPromise, RunStatus, Stopped
    <3> QED
      BY <1>2, <2>2, <2>3, <3>2, PlainReturns
  <2>4. CASE ~Stopped(v) /\ pc'[p] = "stop_run" /\ err'[p] = "ok"
    <3>1. RunLocal("stop_run", c, b, w, err'[p], expired'[p])
      BY <1>3, <2>1, <2>2, <2>4 DEF RunLocal, StopSteps, StartSteps
    <3> QED
      BY <1>2, <2>2, <2>4, <3>1, PlainGoesOn DEF StopSteps
  <2>5. CASE ~Listed(v) /\ pc'[p] = "unlock" /\ err'[p] = "notfound"
    BY <1>2, <2>1, <2>2, <2>5, UntouchedFacts, PlainUntouched
  <2>6. CASE expired'[p] /\ pc'[p] = "unlock" /\ err'[p] = "timeout"
    BY <1>2, <2>1, <2>2, <2>6, PlainUntouched
  <2> QED
    BY <2>2, <2>3, <2>4, <2>5, <2>6
<1>5. CASE StopRun(p)
  <2>1. Untouched(b, v)
    BY <1>2, <1>5 DEF RunLocal, StopRun, At
  <2>2. ASSUME Running(v), w = [v EXCEPT !.status = "stopped"]
        PROVE  Running(b) /\ SameButStatus(b, w) /\ Stopped(w)
    <3>1. SameButStatus(b, v) /\ Running(b)
      BY <1>2, <2>1, <2>2, UntouchedFacts DEF Usable, Running
    <3>2. w.status = "stopped" /\ w.protected = v.protected /\ w.config = v.config
      BY <1>2, <2>2, Fields
    <3> QED
      BY <3>1, <3>2 DEF SameButStatus, Usable, Stopped
  <2>3. /\ Keeps(p)
        /\ \/ /\ Running(b) /\ SameButStatus(b, w) /\ Stopped(w)
              /\ pc'[p] = "stop_wait" /\ err'[p] = "ok"
           \/ w = v /\ pc'[p] = "unlock" /\ err'[p] = "failed"
           \/ /\ w = v \/ (Running(b) /\ SameButStatus(b, w) /\ Stopped(w))
              /\ expired'[p] /\ pc'[p] = "unlock" /\ err'[p] = "timeout"
    BY <1>3, <1>5, <2>2, StopRunStep
  <2>4. CASE pc'[p] = "stop_wait"
    <3>1. RunLocal("stop_wait", c, b, w, err'[p], expired'[p])
      BY <1>3, <2>3, <2>4 DEF RunLocal, StopSteps, StartSteps
    <3> QED
      BY <1>2, <2>3, <2>4, <3>1, PlainGoesOn DEF StopSteps
  <2>5. CASE w = v /\ pc'[p] = "unlock" /\ err'[p] \in {"failed", "timeout"}
               /\ (err'[p] = "timeout" => expired'[p])
    BY <1>2, <1>3, <2>1, <2>3, <2>5, PlainUntouched
  <2>6. CASE /\ SameButStatus(b, w) /\ Stopped(w)
             /\ expired'[p] /\ pc'[p] = "unlock" /\ err'[p] = "timeout"
    <3>1. w.status \in RunStates(b, c.want)
      BY <1>3, <2>6 DEF RunStates, Stopped
    <3>2. RunPromise(c, b, w, err'[p], expired'[p])
      BY <2>6, <3>1 DEF RunPromise
    <3> QED
      BY <1>2, <2>3, <2>6, <3>2, PlainReturns
  <2> QED
    BY <2>3, <2>4, <2>5, <2>6
<1>6. CASE StopWait(p)
  <2>1. pc[p] = "stop_wait" /\ Running(b) /\ SameButStatus(b, v) /\ Stopped(v)
    BY <1>2, <1>6 DEF RunLocal, StopWait, At
  <2>2. "unlock" \in CallSteps(p)
    BY DEF CallSteps
  <2>3. /\ Keeps(p) /\ w = v /\ pc'[p] = "unlock"
        /\ err'[p] = "ok" \/ (expired'[p] /\ err'[p] = "timeout")
    BY <1>1, <1>2, <1>3, <1>6, <2>1, <2>2, PollStep DEF StopWait, Stays, Stopped
  <2>4. w.status = "stopped" /\ "stopped" \in RunStates(b, c.want) /\ Stoppable(b)
    BY <1>3, <2>1, <2>3 DEF RunStates, Stopped, Stoppable, Running
  <2>5. RunPromise(c, b, w, err'[p], expired'[p])
    BY <1>3, <2>1, <2>3, <2>4 DEF RunPromise, RunStatus
  <2> QED
    BY <1>2, <2>3, <2>5, PlainReturns
<1> QED
  BY <1>4, <1>5, <1>6

\* A resize that found a difference and goes on.
LEMMA EditGoesOn ==
  ASSUME SafeInv, CallInv, NEW p \in Procs, pc[p] \in LockedSteps, Op(p) = "resize",
         ~registered'[p], editing'[p],
         NEW l \in CommandSteps("resize"), l # "unlock", pc'[p] = l,
         EditLocal(l, call[p], before[p], vm'[Name(p)], err'[p])
  PROVE  LocalNext(p)
<1>1. l # "resize_inspect"
  BY DEF EditLocal
<1> QED
  BY <1>1 DEF LocalNext, Local, ResizeLocal, Op

\* One that returns keeps its contract.
LEMMA EditReturns ==
  ASSUME SafeInv, CallInv, NEW p \in Procs, pc[p] \in LockedSteps, Op(p) = "resize",
         ~registered'[p], editing'[p], pc'[p] = "unlock", err'[p] = "timeout" => expired'[p],
         ResizePromise(call[p], before[p], vm'[Name(p)], err'[p], expired'[p])
  PROVE  LocalNext(p)
<1>1. Promised(call[p], before[p], vm'[Name(p)], err'[p], registered'[p], expired'[p])
  BY DEF Promised, Op
<1> QED
  BY <1>1 DEF LocalNext, Local, Op

\* Where it stands.
LEMMA EditNow ==
  ASSUME SafeInv, CallInv, NEW p \in Procs,
         pc[p] \in StartSteps \cup StopSteps \cup {"edit_run"}, editing[p]
  PROVE  /\ EditLocal(pc[p], call[p], before[p], Instance(p), err[p])
         /\ Op(p) = "resize" /\ ~registered[p]
         /\ call[p].want \in BOOLEAN /\ call[p].config \in Configs
         /\ pc[p] \in LockedSteps /\ before[p] \in Instances /\ Instance(p) \in Instances
<1>1. pc[p] \in LockedSteps /\ pc[p] \notin {"unlock", "resize_inspect"}
  BY DEF StartSteps, StopSteps, LockedSteps, Steps, SetupSteps
<1>2. LocalNow(p) /\ call[p] \in CallRecords /\ before[p] \in Instances
      /\ Instance(p) \in Instances /\ Op(p) = "resize"
  BY <1>1, Now
<1>3. call[p].want \in BOOLEAN /\ call[p].config \in Configs
  BY <1>2 DEF CallRecords, Op
<1> QED
  BY <1>1, <1>2, <1>3 DEF LocalNow, Local, ResizeLocal, Op

\* The start that follows an edit: what fails is a failed restart.
LEMMA EditStartKeeps ==
  ASSUME Undisturbed, SafeInv, CallInv, NEW p \in Procs, editing[p],
         StartInspect(p) \/ StartRun(p) \/ StartDegraded(p) \/ StartWait(p)
  PROVE  LocalNext(p)
<1> DEFINE b == before[p]
           v == Instance(p)
           w == vm'[Name(p)]
           c == call[p]
<1>1. pc[p] \in StartSteps
  BY DEF StartInspect, StartRun, StartDegraded, StartWait, At, StartSteps
<1>2. /\ EditLocal(pc[p], c, b, v, err[p]) /\ Op(p) = "resize" /\ ~registered[p]
      /\ pc[p] \in LockedSteps /\ b \in Instances /\ v \in Instances
  BY <1>1, EditNow
<1>3. /\ c.want /\ Edited(c, b, v) /\ b.config # c.config /\ Usable(v) /\ Listed(v)
      /\ AfterStart(p) = "unlock"
      /\ err[p] = IF pc[p] = "start_degraded" THEN "restart" ELSE "ok"
  BY <1>1, <1>2 DEF EditLocal, Edited, Usable, Listed, AfterStart
<1>4. StartSteps \subseteq CommandSteps("resize") /\ "unlock" \notin StartSteps
  BY DEF CommandSteps, StartSteps
<1>5. ASSUME Edited(c, b, w), ~registered'[p], editing'[p], pc'[p] = "unlock",
             \/ err'[p] = "restart" /\ (Running(w) => expired'[p])
             \/ err'[p] = "ok" /\ Running(w)
      PROVE  LocalNext(p)
  <2>1. ResizePromise(c, b, w, err'[p], expired'[p])
    BY <1>3, <1>5 DEF ResizePromise, Edited
  <2> QED
    BY <1>2, <1>5, <2>1, EditReturns
<1>6. ASSUME NEW l \in StartSteps, Edited(c, b, w), ~registered'[p], editing'[p], pc'[p] = l,
             err'[p] = IF l = "start_degraded" THEN "restart" ELSE "ok",
             l \in {"start_inspect", "start_run"} => ~Running(w),
             l = "start_wait" => w.status \in {"running", "broken"}
      PROVE  LocalNext(p)
  <2>1. EditLocal(l, c, b, w, err'[p])
    BY <1>3, <1>6 DEF EditLocal, StartSteps, StopSteps
  <2> QED
    BY <1>2, <1>4, <1>6, <2>1, EditGoesOn
<1>7. CASE StartInspect(p)
  <2>1. ~Running(v) /\ pc[p] = "start_inspect" /\ err[p] = "ok"
    BY <1>2, <1>3, <1>7 DEF EditLocal, StartInspect, At
  <2>2. /\ Keeps(p) /\ w = v
        /\ \/ pc'[p] = "start_run" /\ err'[p] = "ok"
           \/ pc'[p] = "unlock" /\ err'[p] = "restart"
    BY <1>3, <1>7, <2>1, StartInspectStep DEF Stays, Wrapped
  <2> QED
    BY <1>2, <1>3, <1>5, <1>6, <2>1, <2>2 DEF Keeps, StartSteps
<1>8. CASE StartRun(p)
  <2>1. ~Running(v) /\ pc[p] = "start_run" /\ err[p] = "ok"
    BY <1>2, <1>3, <1>8 DEF EditLocal, StartRun, At
  <2>2. /\ Keeps(p)
        /\ w \in {v, [v EXCEPT !.status = "running"], [v EXCEPT !.status = "broken"]}
        /\ \/ /\ w \in {[v EXCEPT !.status = "running"], [v EXCEPT !.status = "broken"]}
              /\ pc'[p] = "start_wait" /\ err'[p] = "ok"
           \/ pc'[p] = "start_degraded" /\ err'[p] = "restart"
    BY <1>8, <2>1, StartRunStep DEF Wrapped
  <2>3. Edited(c, b, w)
    <3>1. CASE w = v
      BY <1>3, <3>1
    <3>2. CASE w = [v EXCEPT !.status = "running"]
      BY <1>2, <1>3, <3>2, Fields DEF Edited, Usable
    <3>3. CASE w = [v EXCEPT !.status = "broken"]
      BY <1>2, <1>3, <3>3, Fields DEF Edited, Usable
    <3> QED
      BY <2>2, <3>1, <3>2, <3>3
  <2>4. pc'[p] = "start_wait" => w.status \in {"running", "broken"}
    <3>1. [v EXCEPT !.status = "running"].status = "running"
      BY <1>2, Fields
    <3>2. [v EXCEPT !.status = "broken"].status = "broken"
      BY <1>2, Fields
    <3> QED
      BY <2>2, <3>1, <3>2
  <2> QED
    BY <1>2, <1>6, <2>2, <2>3, <2>4 DEF Keeps, StartSteps
<1>9. CASE StartDegraded(p)
  <2>1. err[p] = "restart"
    BY <1>3, <1>9 DEF StartDegraded, At
  <2>2. /\ Keeps(p) /\ w = v
        /\ \/ Running(v) /\ pc'[p] = "start_wait" /\ err'[p] = "ok"
           \/ /\ pc'[p] = "unlock" /\ err'[p] = "restart"
              /\ Running(v) => expired'[p]
    BY <1>9, <2>1, StartDegradedStep DEF Stays
  <2> QED
    BY <1>2, <1>3, <1>5, <1>6, <2>2 DEF Keeps, StartSteps, Running
<1>10. CASE StartWait(p)
  <2>1. /\ pc[p] = "start_wait" /\ err[p] = "ok" /\ v.status \in {"running", "broken"}
    BY <1>2, <1>3, <1>10 DEF EditLocal, StartWait, At
  <2>2. "unlock" \in CallSteps(p)
    BY DEF CallSteps
  <2>3. /\ Keeps(p) /\ w = v /\ pc'[p] = "unlock"
        /\ \/ v.status = "running" /\ err'[p] = "ok"
           \/ v.status = "broken" /\ err'[p] = "restart"
           \/ expired'[p] /\ err'[p] = "restart"
    BY <1>1, <1>2, <1>3, <1>10, <2>1, <2>2, PollStep DEF StartWait, Stays, Wrapped
  <2> QED
    BY <1>2, <1>3, <1>5, <2>3 DEF Keeps, Running
<1> QED
  BY <1>7, <1>8, <1>9, <1>10

\* The stop that precedes one.
LEMMA EditStopKeeps ==
  ASSUME Undisturbed, SafeInv, CallInv, NEW p \in Procs, editing[p],
         StopInspect(p) \/ StopRun(p) \/ StopWait(p)
  PROVE  LocalNext(p)
<1> DEFINE b == before[p]
           v == Instance(p)
           w == vm'[Name(p)]
           c == call[p]
           h == [b EXCEPT !.status = "stopped"]
<1>1. pc[p] \in StopSteps /\ pc[p] \notin StartSteps
  BY DEF StopInspect, StopRun, StopWait, At, StopSteps, StartSteps
<1>2. /\ EditLocal(pc[p], c, b, v, err[p]) /\ Op(p) = "resize" /\ ~registered[p]
      /\ pc[p] \in LockedSteps /\ b \in Instances /\ v \in Instances
  BY <1>1, EditNow
<1>3. /\ Running(b) /\ b.config # c.config /\ AfterStop(p) = "edit_run" /\ err[p] = "ok"
  BY <1>1, <1>2 DEF EditLocal, AfterStop, StopSteps, StartSteps
<1>4. /\ h.status = "stopped" /\ SameButStatus(b, h) /\ "stopped" \in RunStates(b, FALSE)
      /\ ~Running(h) /\ Stopped(h) /\ Untouched(b, b)
  <2>1. h.status = "stopped" /\ h.protected = b.protected /\ h.config = b.config
    BY <1>2, Fields
  <2> QED
    BY <1>3, <2>1 DEF SameButStatus, RunStates, Running, Stopped, Usable, Untouched
<1>5. /\ {"stop_run", "stop_wait", "edit_run"} \subseteq CommandSteps("resize")
      /\ "unlock" \notin {"stop_run", "stop_wait", "edit_run"}
  BY DEF CommandSteps, StopSteps
<1>6. ASSUME w \in {b, h}, ~registered'[p], editing'[p], pc'[p] = "unlock",
             err'[p] = "failed" \/ (err'[p] = "timeout" /\ expired'[p])
      PROVE  LocalNext(p)
  <2>1. ResizePromise(c, b, w, err'[p], expired'[p])
    BY <1>3, <1>4, <1>6 DEF ResizePromise
  <2> QED
    BY <1>2, <1>6, <2>1, EditReturns
<1>7. CASE StopInspect(p)
  <2>1. v = b /\ ~Stopped(v) /\ Listed(v)
    BY <1>2, <1>3, <1>7 DEF EditLocal, StopInspect, At, Running, Stopped, Listed
  <2>2. /\ Keeps(p) /\ w = v
        /\ \/ pc'[p] = "stop_run" /\ err'[p] = "ok"
           \/ expired'[p] /\ pc'[p] = "unlock" /\ err'[p] = "timeout"
    BY <1>3, <1>7, <2>1, StopInspectStep DEF Stays
  <2>3. CASE pc'[p] = "stop_run" /\ err'[p] = "ok"
    <3>1. EditLocal("stop_run", c, b, w, err'[p])
      BY <1>3, <2>1, <2>2, <2>3 DEF EditLocal, StartSteps
    <3> QED
      BY <1>2, <1>5, <2>2, <2>3, <3>1, EditGoesOn DEF Keeps
  <2> QED
    BY <1>2, <1>6, <2>1, <2>2, <2>3 DEF Keeps
<1>8. CASE StopRun(p)
  <2>1. v = b
    BY <1>2, <1>8 DEF EditLocal, StopRun, At
  <2>2. /\ Keeps(p)
        /\ \/ w = h /\ pc'[p] = "stop_wait" /\ err'[p] = "ok"
           \/ w = b /\ pc'[p] = "unlock" /\ err'[p] = "failed"
           \/ w \in {b, h} /\ expired'[p] /\ pc'[p] = "unlock" /\ err'[p] = "timeout"
    BY <1>3, <1>8, <2>1, StopRunStep
  <2>3. CASE w = h /\ pc'[p] = "stop_wait" /\ err'[p] = "ok"
    <3>1. EditLocal("stop_wait", c, b, w, err'[p])
      BY <1>3, <2>3 DEF EditLocal, StartSteps
    <3> QED
      BY <1>2, <1>5, <2>2, <2>3, <3>1, EditGoesOn DEF Keeps
  <2> QED
    BY <1>2, <1>6, <2>2, <2>3 DEF Keeps
<1>9. CASE StopWait(p)
  <2>1. pc[p] = "stop_wait" /\ v = h
    BY <1>2, <1>9 DEF EditLocal, StopWait, At
  <2>2. AfterStop(p) \in CallSteps(p)
    BY <1>2, <1>3, NextSteps DEF SafeInv
  <2>3. /\ Keeps(p) /\ w = h
        /\ \/ pc'[p] = "edit_run" /\ err'[p] = "ok"
           \/ expired'[p] /\ pc'[p] = "unlock" /\ err'[p] = "timeout"
    BY <1>1, <1>2, <1>3, <1>4, <1>9, <2>1, <2>2, PollStep DEF StopWait, Stays
  <2>4. CASE pc'[p] = "edit_run" /\ err'[p] = "ok"
    <3>1. EditLocal("edit_run", c, b, w, err'[p])
      BY <1>3, <1>4, <2>3, <2>4 DEF EditLocal, StartSteps
    <3> QED
      BY <1>2, <1>5, <2>3, <2>4, <3>1, EditGoesOn DEF Keeps
  <2> QED
    BY <1>2, <1>6, <2>3, <2>4 DEF Keeps
<1> QED
  BY <1>7, <1>8, <1>9

\* The comparison decides whether the resize edits.
LEMMA ResizeInspectKeeps ==
  ASSUME Undisturbed, SafeInv, CallInv, NEW p \in Procs, ResizeInspect(p)
  PROVE  LocalNext(p)
<1> DEFINE b == before[p]
           v == Instance(p)
           w == vm'[Name(p)]
           c == call[p]
           differs == v.config # c.config
           l == IF ~differs THEN RunState(c.want)
                ELSE IF Running(v) THEN "stop_inspect" ELSE "edit_run"
<1>1. pc[p] \in LockedSteps /\ At(p, "resize_inspect") /\ pc[p] \notin StartSteps
  BY DEF ResizeInspect, At, LockedSteps, Steps, SetupSteps, StartSteps
<1>2. /\ Op(p) = "resize" /\ b \in Instances /\ v \in Instances /\ c.want \in BOOLEAN
      /\ LocalNow(p) /\ registered[p] \in BOOLEAN
  BY <1>1, Now, StepOp DEF At, SafeInv
<1>3. Untouched(b, v) /\ err[p] = "ok" /\ ~registered[p]
  BY <1>1, <1>2 DEF LocalNow, Local, ResizeLocal, At, Op
<1>4. PICK o \in Inspections(p) :
        /\ Runs(p, o)
        /\ editing' = [editing EXCEPT ![p] = (o.exit = "ok" /\ o.vm.config # c.config)]
        /\ OnSuccess(p, o, IF ~(o.vm.config # c.config) THEN RunState(c.want)
                           ELSE IF Running(o.vm) THEN "stop_inspect" ELSE "edit_run")
  BY DEF ResizeInspect
<1>5. /\ o.vm = v /\ o.exit \in {"timeout", IF Listed(v) THEN "ok" ELSE "notfound"}
      /\ w = v /\ expired'[p] = (expired[p] \/ o.exit = "timeout")
  BY <1>1, <1>2, <1>4, InspectionTells, Gives
<1>6. /\ editing'[p] = (o.exit = "ok" /\ differs) /\ ~registered'[p]
      /\ editing'[p] \in BOOLEAN /\ expired'[p] \in BOOLEAN
  BY <1>1, <1>3, <1>4, <1>5, Now DEF ResizeInspect, SafeInv, TypeInv, TypeOK
<1>7. l \in CallSteps(p) /\ o.exit \in Errors
  BY <1>1, <1>2, <1>5, NextSteps DEF SafeInv, Errors, StopSteps
<1>8. IF o.exit = "ok" THEN pc'[p] = l /\ err'[p] = "ok"
      ELSE pc'[p] = "unlock" /\ err'[p] = o.exit
  BY <1>1, <1>3, <1>4, <1>5, <1>7, SuccessNext
<1>9. l \in CommandSteps("resize") /\ l \notin {"unlock", "resize_inspect"}
  BY <1>2 DEF CommandSteps, StartSteps, StopSteps, RunState
<1>10. CASE o.exit = "ok" /\ ~differs
  <2>1. b.config = c.config
    BY <1>2, <1>3, <1>5, <1>10, UntouchedFacts
  <2>2. RunLocal(l, c, b, v, "ok", expired'[p]) /\ l # "edit_run"
    BY <1>2, <1>3, <1>10 DEF RunLocal, RunState, StartSteps, StopSteps
  <2> QED
    BY <1>2, <1>5, <1>6, <1>8, <1>9, <1>10, <2>1, <2>2 DEF LocalNext, Local, ResizeLocal, Op
<1>11. CASE o.exit = "ok" /\ differs
  <2>1. b.config # c.config /\ (Running(v) => v = b /\ Running(b))
    BY <1>2, <1>3, <1>5, <1>11, UntouchedFacts
  <2>2. EditLocal(l, c, b, v, "ok")
    BY <1>3, <1>11, <2>1 DEF EditLocal, StartSteps
  <2> QED
    BY <1>1, <1>2, <1>5, <1>6, <1>8, <1>9, <1>11, <2>2, EditGoesOn
<1>12. CASE o.exit # "ok"
  <2>1. o.exit = "notfound" => ~Usable(b)
    BY <1>2, <1>3, <1>5, UntouchedFacts
  <2>2. ResizePromise(c, b, v, o.exit, expired'[p])
    BY <1>3, <1>5, <1>12, <2>1 DEF ResizePromise, RunPromise
  <2>3. Promised(c, b, w, err'[p], registered'[p], expired'[p])
    BY <1>2, <1>5, <1>6, <1>8, <1>12, <2>2 DEF Promised, Op
  <2> QED
    BY <1>2, <1>6, <1>8, <1>12, <2>3 DEF LocalNext, Local, Op
<1> QED
  BY <1>10, <1>11, <1>12

\* limactl edit; a failed one returns with the instance as it is.
LEMMA EditRunKeeps ==
  ASSUME Undisturbed, SafeInv, CallInv, NEW p \in Procs, EditRun(p)
  PROVE  LocalNext(p)
<1> DEFINE b == before[p]
           v == Instance(p)
           w == vm'[Name(p)]
           c == call[p]
           d == [v EXCEPT !.config = c.config]
<1>1. pc[p] \in LockedSteps /\ At(p, "edit_run") /\ pc[p] \notin StartSteps
  BY DEF EditRun, At, LockedSteps, Steps, SetupSteps, StartSteps
<1>2. /\ Op(p) = "resize" /\ b \in Instances /\ v \in Instances /\ c.want \in BOOLEAN
      /\ c.config \in Configs /\ LocalNow(p)
      /\ registered[p] \in BOOLEAN /\ editing[p] \in BOOLEAN
  BY <1>1, Now, StepOp DEF At, SafeInv
<1>3. editing[p] /\ ~registered[p]
  BY <1>1, <1>2 DEF LocalNow, Local, ResizeLocal, At, Op
<1>4. EditLocal("edit_run", c, b, v, err[p])
  BY <1>1, <1>3, EditNow DEF At
<1>5. /\ err[p] = "ok" /\ b.config # c.config /\ ~Running(v)
      /\ Untouched(b, v) \/ (Running(b) /\ v = [b EXCEPT !.status = "stopped"])
  BY <1>4 DEF EditLocal
<1>6. \/ Untouched(b, v)
      \/ SameButStatus(b, v) /\ v.status \in RunStates(b, FALSE)
  <2>1. CASE Running(b) /\ v = [b EXCEPT !.status = "stopped"]
    <3>1. v.status = "stopped" /\ v.protected = b.protected /\ v.config = b.config
      BY <1>2, <2>1, Fields
    <3> QED
      BY <2>1, <3>1 DEF SameButStatus, RunStates, Running, Usable
  <2> QED
    BY <1>5, <2>1
<1>7. Usable(v) => SameButStatus(b, v)
  BY <1>2, <1>6, UntouchedFacts
<1>8. PICK o \in Ends(p, EditOutcomes(v, c.config)) : Runs(p, o) /\ OnSuccess(p, o, AfterEdit(p))
  BY DEF EditRun
<1>9. /\ o.vm = v \/ (Usable(v) /\ o.vm = d)
      /\ o.exit = "ok" => Usable(v) /\ o.vm = d
      /\ o.exit = "failed" => o.vm = v
      /\ o.exit \in {"ok", "failed", "timeout"}
  <2>1. \A q \in EditOutcomes(v, c.config) :
          (q.vm = v /\ q.exit = "failed") \/ (Usable(v) /\ q.vm = d /\ q.exit = "ok")
    BY EditForms
  <2> QED
    BY <1>8, <2>1, EndsForms
<1>10. o.vm \in Instances
  BY <1>2, <1>9, InstanceForms
<1>11. Keeps(p) /\ w = o.vm /\ (o.exit = "timeout" => expired'[p])
  BY <1>1, <1>8, <1>10, KeepsFacts DEF EditRun
<1>12. /\ AfterEdit(p) \in CallSteps(p) /\ o.exit \in Errors
       /\ AfterEdit(p) = IF c.want THEN "start_inspect" ELSE "unlock"
  BY <1>1, <1>2, <1>9, NextSteps DEF SafeInv, Errors, AfterEdit
<1>13. IF o.exit = "ok" THEN pc'[p] = AfterEdit(p) /\ err'[p] = "ok"
       ELSE pc'[p] = "unlock" /\ err'[p] = o.exit
  BY <1>1, <1>5, <1>8, <1>12, SuccessNext
<1>14. Usable(v) /\ w = d => Edited(c, b, w) /\ ~Running(w)
  <2>1. d.status = v.status /\ d.protected = v.protected /\ d.config = c.config
    BY <1>2, Fields
  <2> QED
    BY <1>5, <1>7, <2>1 DEF Edited, SameButStatus, Usable, Running
<1>15. CASE o.exit = "ok" /\ c.want
  <2>1. EditLocal("start_inspect", c, b, w, "ok")
    BY <1>5, <1>9, <1>11, <1>14, <1>15 DEF EditLocal, StartSteps, StopSteps
  <2>2. "start_inspect" \in CommandSteps("resize")
    BY DEF CommandSteps, StartSteps
  <2> QED
    BY <1>1, <1>2, <1>3, <1>11, <1>12, <1>13, <1>15, <2>1, <2>2, EditGoesOn DEF Keeps
<1>16. CASE o.exit = "ok" /\ ~c.want
  <2>1. ResizePromise(c, b, w, "ok", expired'[p])
    BY <1>5, <1>9, <1>11, <1>14, <1>16 DEF ResizePromise, Edited
  <2> QED
    BY <1>1, <1>2, <1>3, <1>11, <1>12, <1>13, <1>16, <2>1, EditReturns DEF Keeps
<1>17. CASE o.exit # "ok"
  <2>1. ResizePromise(c, b, w, o.exit, expired'[p])
    BY <1>5, <1>6, <1>9, <1>11, <1>14, <1>17 DEF ResizePromise, Edited
  <2> QED
    BY <1>1, <1>2, <1>3, <1>11, <1>13, <1>17, <2>1, EditReturns DEF Keeps
<1> QED
  BY <1>15, <1>16, <1>17

\* A protection change's next step, from its parts.
LEMMA ProtectNext ==
  ASSUME SafeInv, CallInv, NEW p \in Procs, pc[p] \in LockedSteps, Op(p) = "protect",
         Keeps(p),
         \/ pc'[p] = "protect_run"
            /\ ProtectLocal("protect_run", call[p], before[p], vm'[Name(p)], err'[p])
         \/ /\ pc'[p] = "unlock" /\ (err'[p] = "timeout" => expired'[p])
            /\ ProtectPromise(call[p], before[p], vm'[Name(p)], err'[p], expired'[p])
  PROVE  LocalNext(p)
<1>1. LocalNow(p) /\ ~editing'[p] /\ ~registered'[p]
  BY Now DEF Keeps, LocalNow, Local, Op
<1>2. pc'[p] = "unlock" =>
        Promised(call[p], before[p], vm'[Name(p)], err'[p], registered'[p], expired'[p])
  BY <1>1 DEF Promised, Op
<1> QED
  BY <1>1, <1>2 DEF LocalNext, Local, Op, CommandSteps

\* SetProtection.
LEMMA ProtectKeeps ==
  ASSUME Undisturbed, SafeInv, CallInv, NEW p \in Procs, ProtectInspect(p) \/ ProtectRun(p)
  PROVE  LocalNext(p)
<1> DEFINE b == before[p]
           v == Instance(p)
           w == vm'[Name(p)]
           c == call[p]
<1>1. /\ pc[p] \in LockedSteps /\ pc[p] \in {"protect_inspect", "protect_run"}
      /\ pc[p] \notin StartSteps \cup {"unlock"}
  BY DEF ProtectInspect, ProtectRun, At, LockedSteps, Steps, SetupSteps, StartSteps
<1>2. /\ Op(p) = "protect" /\ b \in Instances /\ v \in Instances /\ c.want \in BOOLEAN
      /\ LocalNow(p)
  BY <1>1, Now, StepOp DEF SafeInv
<1>3. Untouched(b, v) /\ err[p] = "ok"
  BY <1>1, <1>2 DEF LocalNow, Local, ProtectLocal, Op
<1>4. "unlock" \in CallSteps(p) /\ "protect_run" \in CallSteps(p)
  BY <1>1, <1>2, NextSteps DEF SafeInv
<1>5. CASE ProtectInspect(p)
  <2> DEFINE l == IF v.protected = c.want THEN "unlock" ELSE "protect_run"
  <2>1. PICK o \in Inspections(p) :
          /\ Runs(p, o)
          /\ OnSuccess(p, o, IF o.vm.protected = c.want THEN "unlock" ELSE "protect_run")
    BY <1>5 DEF ProtectInspect
  <2>2. o.vm = v /\ o.exit \in {"timeout", IF Listed(v) THEN "ok" ELSE "notfound"}
    BY <2>1, InspectionTells
  <2>3. Keeps(p) /\ w = v /\ (o.exit = "timeout" => expired'[p])
    BY <1>1, <1>2, <1>5, <2>1, <2>2, KeepsFacts DEF ProtectInspect
  <2>4. l \in CallSteps(p) /\ o.exit \in Errors
    BY <1>4, <2>2 DEF Errors
  <2>5. IF o.exit = "ok" THEN pc'[p] = l /\ err'[p] = "ok"
        ELSE pc'[p] = "unlock" /\ err'[p] = o.exit
    BY <1>1, <1>3, <2>1, <2>2, <2>4, SuccessNext
  <2>6. CASE o.exit = "ok" /\ v.protected # c.want
    <3>1. ProtectLocal("protect_run", c, b, w, err'[p])
      BY <1>3, <2>3, <2>5, <2>6 DEF ProtectLocal
    <3> QED
      BY <1>1, <1>2, <2>3, <2>5, <2>6, <3>1, ProtectNext
  <2>7. CASE ~(o.exit = "ok" /\ v.protected # c.want)
    <3>1. /\ Listed(v) => Listed(b) /\ v.protected = b.protected
          /\ ~Listed(v) => ~Usable(b)
      BY <1>2, <1>3, UntouchedFacts
    <3>2. ProtectPromise(c, b, w, err'[p], expired'[p])
      BY <1>3, <2>2, <2>3, <2>5, <2>7, <3>1 DEF ProtectPromise
    <3> QED
      BY <1>1, <1>2, <2>3, <2>5, <2>7, <3>2, ProtectNext
  <2> QED
    BY <2>6, <2>7
<1>6. CASE ProtectRun(p)
  <2> DEFINE d == [v EXCEPT !.protected = c.want]
  <2>1. PICK o \in Ends(p, ProtectOutcomes(v, c.want)) : Runs(p, o) /\ OnSuccess(p, o, "unlock")
    BY <1>6 DEF ProtectRun
  <2>2. /\ o.vm = v \/ (Usable(v) /\ o.vm = d)
        /\ o.exit = "ok" => Usable(v) /\ o.vm = d
        /\ o.exit = "failed" => o.vm = v
        /\ o.exit \in {"ok", "failed", "timeout"}
    <3>1. \A q \in ProtectOutcomes(v, c.want) :
            (q.vm = v /\ q.exit = "failed") \/ (Usable(v) /\ q.vm = d /\ q.exit = "ok")
      BY ProtectForms
    <3> QED
      BY <2>1, <3>1, EndsForms
  <2>3. o.vm \in Instances
    BY <1>2, <2>2, InstanceForms
  <2>4. Keeps(p) /\ w = o.vm /\ (o.exit = "timeout" => expired'[p])
    BY <1>1, <1>6, <2>1, <2>3, KeepsFacts DEF ProtectRun
  <2>5. o.exit \in Errors
    BY <2>2 DEF Errors
  <2>6. pc'[p] = "unlock" /\ err'[p] = o.exit
    BY <1>1, <1>3, <1>4, <2>1, <2>5, SuccessNext
  <2>7. Usable(v) /\ w = d =>
          Usable(b) /\ w \in {[x EXCEPT !.protected = c.want] : x \in {b, Settled(b)}}
    BY <1>2, <1>3, UntouchedFacts DEF Untouched
  <2>8. ProtectPromise(c, b, w, err'[p], expired'[p])
    BY <1>3, <2>2, <2>4, <2>6, <2>7 DEF ProtectPromise
  <2> QED
    BY <1>1, <1>2, <2>4, <2>6, <2>8, ProtectNext
<1> QED
  BY <1>5, <1>6

\* A delete's next step, from its parts.
LEMMA DeleteNext ==
  ASSUME SafeInv, CallInv, NEW p \in Procs, pc[p] \in LockedSteps, Op(p) = "delete",
         Keeps(p),
         \/ /\ pc'[p] \in {"delete_run", "delete_wait"}
            /\ DeleteLocal(pc'[p], before[p], vm'[Name(p)], err'[p])
         \/ /\ pc'[p] = "unlock" /\ (err'[p] = "timeout" => expired'[p])
            /\ DeletePromise(call[p], before[p], vm'[Name(p)], err'[p], expired'[p])
  PROVE  LocalNext(p)
<1>1. LocalNow(p) /\ ~editing'[p] /\ ~registered'[p]
  BY Now DEF Keeps, LocalNow, Local, Op
<1>2. pc'[p] = "unlock" =>
        Promised(call[p], before[p], vm'[Name(p)], err'[p], registered'[p], expired'[p])
  BY <1>1 DEF Promised, Op
<1> QED
  BY <1>1, <1>2 DEF LocalNext, Local, Op, CommandSteps

\* Delete.
LEMMA DeleteKeeps ==
  ASSUME Undisturbed, SafeInv, CallInv, NEW p \in Procs,
         DeleteInspect(p) \/ DeleteRun(p) \/ DeleteWait(p)
  PROVE  LocalNext(p)
<1> DEFINE b == before[p]
           v == Instance(p)
           w == vm'[Name(p)]
<1>1. /\ pc[p] \in LockedSteps /\ pc[p] \in {"delete_inspect", "delete_run", "delete_wait"}
      /\ pc[p] \notin StartSteps \cup {"unlock"}
  BY DEF DeleteInspect, DeleteRun, DeleteWait, At, LockedSteps, Steps, SetupSteps, StartSteps
<1>2. Op(p) = "delete" /\ b \in Instances /\ v \in Instances /\ LocalNow(p)
  BY <1>1, Now, StepOp DEF SafeInv
<1>3. err[p] = "ok" /\ DeleteLocal(pc[p], b, v, "ok")
  BY <1>1, <1>2 DEF LocalNow, Local, DeleteLocal, Op
<1>4. "unlock" \in CallSteps(p) /\ {"delete_run", "delete_wait"} \subseteq CallSteps(p)
  BY <1>1, <1>2, NextSteps DEF SafeInv
<1>5. CASE DeleteInspect(p)
  <2>1. PICK o \in Inspections(p) :
          /\ Runs(p, o)
          /\ IF o.exit = "notfound" THEN Goto(p, "unlock") /\ UNCHANGED err
             ELSE IF o.exit = "ok" /\ o.vm.protected
             THEN Goto(p, "unlock") /\ Fail(p, "protected")
             ELSE OnSuccess(p, o, "delete_run")
    BY <1>5 DEF DeleteInspect
  <2>2. o.vm = v /\ o.exit \in {"timeout", IF Listed(v) THEN "ok" ELSE "notfound"}
    BY <2>1, InspectionTells
  <2>3. Keeps(p) /\ w = v /\ (o.exit = "timeout" => expired'[p])
    BY <1>1, <1>2, <1>5, <2>1, <2>2, KeepsFacts DEF DeleteInspect
  <2>4. Untouched(b, v)
    BY <1>3, <1>5 DEF DeleteLocal, DeleteInspect, At
  <2>5. /\ Listed(v) => Listed(b) /\ v.protected = b.protected
        /\ ~Listed(v) => ~b.protected
    BY <1>2, <2>4, UntouchedFacts
  <2>6. \/ o.exit = "notfound" /\ pc'[p] = "unlock" /\ err'[p] = "ok"
        \/ o.exit = "ok" /\ v.protected /\ pc'[p] = "unlock" /\ err'[p] = "protected"
        \/ o.exit = "ok" /\ ~v.protected /\ pc'[p] = "delete_run" /\ err'[p] = "ok"
        \/ o.exit = "timeout" /\ pc'[p] = "unlock" /\ err'[p] = "timeout"
    <3>1. CASE o.exit = "notfound"
      BY <1>3, <2>1, <3>1 DEF Goto, SafeInv, TypeInv, TypeOK
    <3>2. CASE o.exit = "ok" /\ v.protected
      BY <1>1, <2>1, <2>2, <3>2 DEF Goto, Fail, SafeInv, TypeInv, TypeOK
    <3>3. CASE (o.exit = "ok" /\ ~v.protected) \/ o.exit = "timeout"
      <4>1. OnSuccess(p, o, "delete_run") /\ o.exit \in Errors
        BY <2>1, <2>2, <3>3 DEF Errors
      <4> QED
        BY <1>1, <1>3, <1>4, <3>3, <4>1, SuccessNext
    <3> QED
      BY <2>2, <3>1, <3>2, <3>3
  <2>7. CASE pc'[p] = "delete_run"
    <3>1. DeleteLocal("delete_run", b, w, err'[p])
      BY <2>2, <2>3, <2>4, <2>5, <2>6, <2>7 DEF DeleteLocal
    <3> QED
      BY <1>1, <1>2, <2>3, <2>7, <3>1, DeleteNext
  <2>8. CASE pc'[p] = "unlock"
    <3>1. DeletePromise(call[p], b, w, err'[p], expired'[p])
      BY <2>2, <2>3, <2>4, <2>5, <2>6, <2>8 DEF DeletePromise
    <3> QED
      BY <1>1, <1>2, <2>3, <2>6, <2>8, <3>1, DeleteNext
  <2> QED
    BY <2>6, <2>7, <2>8
<1>6. CASE DeleteRun(p)
  <2>1. Untouched(b, v) /\ ~v.protected /\ ~b.protected
    BY <1>3, <1>6 DEF DeleteLocal, DeleteRun, At
  <2>2. PICK o \in Ends(p, DeleteOutcomes(v)) : Runs(p, o) /\ OnSuccess(p, o, "delete_wait")
    BY <1>6 DEF DeleteRun
  <2>3. /\ o.vm = v \/ (~Usable(o.vm) /\ o.vm \in Instances)
        /\ o.exit = "ok" => ~Usable(o.vm)
        /\ o.exit = "failed" => o.vm = v
        /\ o.exit \in {"ok", "failed", "timeout"}
    <3>1. \A q \in DeleteOutcomes(v) :
            \/ q.vm = v /\ (q.exit = "failed" \/ (q.exit = "ok" /\ ~Listed(v)))
            \/ q.vm = Absent /\ q.exit = "ok"
            \/ Listed(v) /\ q.vm = [v EXCEPT !.status = "deleting"] /\ q.exit = "ok"
      BY <2>1, DeleteForms
    <3>2. ~Usable([v EXCEPT !.status = "deleting"])
      BY <1>2, Fields DEF Usable
    <3>3. \A q \in DeleteOutcomes(v) : q.exit = "ok" => ~Usable(q.vm)
      <4>1. ~Usable(Absent) /\ (~Listed(v) => ~Usable(v))
        BY DEF Usable, Listed, Absent
      <4> QED
        BY <3>1, <3>2, <4>1
    <3>4. \A q \in DeleteOutcomes(v) : q.vm \in Instances
      BY <1>2, OutcomesSound DEF Sound
    <3>5. \A q \in DeleteOutcomes(v) :
            (q.vm = v /\ q.exit = "failed") \/ (q.exit = "ok" /\ ~Usable(q.vm))
      BY <3>1, <3>3
    <3> QED
      BY <1>2, <2>2, <3>4, <3>5, EndsForms
  <2>4. Keeps(p) /\ w = o.vm /\ (o.exit = "timeout" => expired'[p])
    BY <1>1, <1>2, <1>6, <2>2, <2>3, KeepsFacts DEF DeleteRun
  <2>5. o.exit \in Errors
    BY <2>3 DEF Errors
  <2>6. IF o.exit = "ok" THEN pc'[p] = "delete_wait" /\ err'[p] = "ok"
        ELSE pc'[p] = "unlock" /\ err'[p] = o.exit
    BY <1>1, <1>3, <1>4, <2>2, <2>5, SuccessNext
  <2>7. CASE o.exit = "ok"
    <3>1. DeleteLocal("delete_wait", b, w, err'[p])
      BY <2>1, <2>3, <2>4, <2>6, <2>7 DEF DeleteLocal
    <3> QED
      BY <1>1, <1>2, <2>4, <2>6, <2>7, <3>1, DeleteNext
  <2>8. CASE o.exit # "ok"
    <3>1. DeletePromise(call[p], b, w, err'[p], expired'[p])
      BY <2>1, <2>3, <2>4, <2>6, <2>8 DEF DeletePromise
    <3> QED
      BY <1>1, <1>2, <2>4, <2>6, <2>8, <3>1, DeleteNext
  <2> QED
    BY <2>7, <2>8
<1>7. CASE DeleteWait(p)
  <2>1. ~Usable(v) /\ ~b.protected /\ pc[p] = "delete_wait"
    BY <1>3, <1>7 DEF DeleteLocal, DeleteWait, At
  <2>2. PICK o \in Inspections(p) :
          /\ Runs(p, o)
          /\ CASE Seen(o) \in {"notfound"}  -> Goto(p, "unlock") /\ UNCHANGED err
               [] Seen(o) \in {"failed", "timeout"} -> Goto(p, "unlock") /\ Fail(p, Seen(o))
               [] OTHER -> UNCHANGED <<pc, err>>
          /\ UNCHANGED Service
    BY <1>7 DEF DeleteWait, WaitForAbsence, Polls
  <2>3. o.vm = v /\ o.exit \in {"timeout", IF Listed(v) THEN "ok" ELSE "notfound"}
    BY <2>2, InspectionTells
  <2>4. Keeps(p) /\ w = v /\ (o.exit = "timeout" => expired'[p])
    BY <1>1, <1>2, <2>2, <2>3, KeepsFacts
  <2>5. CASE o.exit = "timeout"
    <3>1. Seen(o) = "timeout"
      BY <2>5 DEF Seen
    <3>2. Goto(p, "unlock") /\ Fail(p, "timeout")
      BY <2>2, <3>1
    <3>3. pc'[p] = "unlock" /\ err'[p] = "timeout"
      BY <1>1, <3>2 DEF Goto, Fail, SafeInv, TypeInv, TypeOK
    <3>4. DeletePromise(call[p], b, w, err'[p], expired'[p])
      BY <2>1, <2>4, <2>5, <3>3 DEF DeletePromise
    <3> QED
      BY <1>1, <1>2, <2>4, <2>5, <3>3, <3>4, DeleteNext
  <2>6. CASE o.exit = "notfound"
    <3>1. Seen(o) = "notfound"
      BY <2>6 DEF Seen
    <3>2. Goto(p, "unlock") /\ UNCHANGED err
      BY <2>2, <3>1
    <3>3. pc'[p] = "unlock" /\ err'[p] = "ok"
      BY <1>3, <3>2 DEF Goto, SafeInv, TypeInv, TypeOK
    <3>4. DeletePromise(call[p], b, w, err'[p], expired'[p])
      BY <2>1, <2>3, <2>4, <2>6, <3>3 DEF DeletePromise
    <3> QED
      BY <1>1, <1>2, <2>4, <3>3, <3>4, DeleteNext
  <2>7. CASE o.exit = "ok"
    <3>1. Seen(o) = "deleting"
      BY <2>1, <2>3, <2>7 DEF Seen, Usable, Listed
    <3>2. UNCHANGED <<pc, err>>
      BY <2>2, <3>1
    <3>3. DeleteLocal("delete_wait", b, w, err'[p])
      BY <1>3, <2>1, <2>4, <3>2 DEF DeleteLocal
    <3> QED
      BY <1>1, <1>2, <2>1, <2>4, <3>2, <3>3, DeleteNext
  <2> QED
    BY <2>3, <2>5, <2>6, <2>7
<1> QED
  BY <1>5, <1>6, <1>7

\* Every command keeps what its call owes.
LEMMA CommandKeeps ==
  ASSUME Undisturbed, SafeInv, CallInv, NEW p \in Procs, Command(p)
  PROVE  LocalNext(p)
<1>1. ASSUME \/ StartInspect(p) \/ StartRun(p) \/ StartDegraded(p) \/ StartWait(p)
             \/ StopInspect(p) \/ StopRun(p) \/ StopWait(p)
      PROVE  LocalNext(p)
  <2>1. pc[p] \in LockedSteps
    BY <1>1 DEF StartInspect, StartRun, StartDegraded, StartWait, StopInspect, StopRun,
                StopWait, At, LockedSteps, Steps, SetupSteps
  <2>2. /\ pc[p] \in StartSteps \cup StopSteps
        /\ StopInspect(p) \/ StopRun(p) \/ StopWait(p) => pc[p] \in StopSteps
    BY <1>1 DEF StartInspect, StartRun, StartDegraded, StartWait, StopInspect, StopRun,
                StopWait, At, StartSteps, StopSteps
  <2>3. /\ Op(p) \in {"create", "resize", "run"}
        /\ pc[p] \in StopSteps => Op(p) \in {"resize", "run"}
    BY <2>1, <2>2, StepOp DEF SafeInv
  <2>4. editing[p] \in BOOLEAN
    BY <2>1, Now
  <2> QED
    BY <1>1, <2>2, <2>3, <2>4, CreateStartKeeps, PlainStartKeeps, PlainStopKeeps,
       EditStartKeeps, EditStopKeeps
<1> QED
  BY <1>1, CreateExistsKeeps, CreateValidateKeeps, CreateRunKeeps, CreateRecheckKeeps,
     CreateWaitKeeps, CreateProtectKeeps, CreateInspectKeeps, ResizeInspectKeeps,
     EditRunKeeps, ProtectKeeps, DeleteKeeps
     DEF Command

\* A deadline that passes takes no promise away.
LEMMA PromisedLate ==
  ASSUME NEW c, c.op \in CallOps, NEW b, NEW v, NEW e, NEW r, Promised(c, b, v, e, r, FALSE)
  PROVE  Promised(c, b, v, e, r, TRUE)
<1>1. CreatePromise(c, b, v, e, r, FALSE) => CreatePromise(c, b, v, e, r, TRUE)
  BY DEF CreatePromise
<1>2. RunPromise(c, b, v, e, FALSE) => RunPromise(c, b, v, e, TRUE)
  BY DEF RunPromise
<1>3. ResizePromise(c, b, v, e, FALSE) => ResizePromise(c, b, v, e, TRUE)
  BY <1>2 DEF ResizePromise
<1>4. ProtectPromise(c, b, v, e, FALSE) => ProtectPromise(c, b, v, e, TRUE)
  BY DEF ProtectPromise
<1>5. DeletePromise(c, b, v, e, FALSE) => DeletePromise(c, b, v, e, TRUE)
  BY DEF DeletePromise
<1> QED
  BY <1>1, <1>2, <1>3, <1>4, <1>5 DEF Promised, CallOps

\* Nor does it undo anything else that Local says of a call.
LEMMA LocalLate ==
  ASSUME NEW l, NEW c, c.op \in CallOps, NEW b, NEW v, NEW e, NEW r, NEW g,
         Local(l, c, b, v, e, r, g, FALSE)
  PROVE  Local(l, c, b, v, e, r, g, TRUE)
<1>1. CASE l = "unlock"
  BY <1>1, PromisedLate DEF Local
<1>2. CASE l # "unlock"
  <2>1. CreateLocal(l, c, b, v, e, r, FALSE) => CreateLocal(l, c, b, v, e, r, TRUE)
    BY DEF CreateLocal, Failed
  <2>2. RunLocal(l, c, b, v, e, FALSE) => RunLocal(l, c, b, v, e, TRUE)
    BY DEF RunLocal, Failed
  <2>3. ResizeLocal(l, c, b, v, e, g, FALSE) => ResizeLocal(l, c, b, v, e, g, TRUE)
    BY <2>2 DEF ResizeLocal
  <2> QED
    BY <1>2, <2>1, <2>2, <2>3 DEF Local, CallOps
<1> QED
  BY <1>1, <1>2

-----------------------------------------------------------------------------
(* The file system catches up.                                             *)

\* What settling does to an instance that is not settled.
LEMMA SettledForms ==
  ASSUME NEW v \in Instances, Settled(v) # v
  PROVE  \/ /\ v.status = "creating" /\ Settled(v) = [v EXCEPT !.status = "stopped"]
            /\ Settled(v).status = "stopped"
            /\ Settled(v).protected = v.protected /\ Settled(v).config = v.config
         \/ v.status = "deleting" /\ Settled(v) = Absent /\ ~v.protected
<1>1. CASE v.status = "creating"
  <2>1. Settled(v) = [v EXCEPT !.status = "stopped"]
    BY <1>1 DEF Settled
  <2> QED
    BY <1>1, <2>1, Fields
<1>2. CASE v.status = "deleting"
  BY <1>2 DEF Settled, Instances
<1>3. CASE v.status \notin {"creating", "deleting"}
  BY <1>3 DEF Settled
<1> QED
  BY <1>1, <1>2, <1>3

\* An untouched instance that settles is still untouched.
LEMMA SettledTwice ==
  ASSUME NEW b \in Instances, NEW v \in Instances
  PROVE  /\ Untouched(b, v) => Untouched(b, Settled(v))
         /\ Untouched(b, v) /\ Settled(v) # v => v = b
<1>1. Settled(Settled(b)) = Settled(b)
  <2>1. CASE Settled(b) = b
    BY <2>1
  <2>2. CASE Settled(b) # b
    <3>1. Settled(b).status \in {"stopped", "absent"}
      BY <2>2, SettledForms DEF Absent
    <3> QED
      BY <3>1 DEF Settled
  <2> QED
    BY <2>1, <2>2
<1> QED
  BY <1>1 DEF Untouched

\* What settling an instance keeps.
LEMMA SettledKeeps ==
  ASSUME NEW v \in Instances, Settled(v) # v
  PROVE  LET w == Settled(v) IN
         /\ w \in Instances /\ ~Running(v) /\ ~Running(w) /\ ~Stopped(v)
         /\ v.status \notin {"stopped", "running", "broken"}
         /\ Usable(v) <=> v.status = "creating"
         /\ Usable(v) => /\ Usable(w) /\ w.status = "stopped"
                         /\ w.protected = v.protected /\ w.config = v.config
         /\ ~Usable(v) => ~Usable(w) /\ w = Absent
         /\ w.protected = v.protected
         /\ Listed(v)
<1>1. Settled(v) \in Instances
  BY InstanceForms
<1>2. CASE v.status = "creating"
  BY <1>1, <1>2, SettledForms DEF Running, Stopped, Usable, Listed
<1>3. CASE v.status = "deleting"
  <2>1. v.protected = FALSE /\ Settled(v) = Absent
    BY <1>3, SettledForms DEF Instances, VM, Absent
  <2>2. Absent.status = "absent" /\ Absent.protected = FALSE
    BY DEF Absent
  <2> QED
    BY <1>1, <1>3, <2>1, <2>2 DEF Running, Stopped, Usable, Listed
<1> QED
  BY <1>2, <1>3, SettledForms

\* Settling starts and stops nothing.
LEMMA SettledStatus ==
  ASSUME NEW v \in Instances
  PROVE  Settled(v).status \notin {"creating", "deleting"}
<1>1. CASE Settled(v) = v
  BY <1>1, InstanceForms, Fields DEF Settled, Absent
<1>2. CASE Settled(v) # v
  BY <1>2, SettledForms DEF Absent
<1> QED
  BY <1>1, <1>2

\* A created instance that settles is still as created.
LEMMA MadeSettled ==
  ASSUME NEW c, NEW v \in Instances, Settled(v) # v, NEW ss, "stopped" \in ss,
         "deleting" \notin ss, Made(c, v, ss)
  PROVE  Made(c, Settled(v), ss)
<1>1. PICK s \in ss : v = New(c.config, s)
  BY DEF Made
<1>2. v.status = s
  BY <1>1 DEF New
<1>3. CASE v.status = "creating"
  <2>1. Settled(v) = [v EXCEPT !.status = "stopped"]
    BY <1>3 DEF Settled
  <2>2. Settled(v) = New(c.config, "stopped")
    BY <1>1, <2>1, NewChanged
  <2> QED
    BY <2>2 DEF Made
<1> QED
  BY <1>1, <1>2, <1>3, SettledForms

\* Settling keeps what is the same but for its status.
LEMMA SameSettled ==
  ASSUME NEW b \in Instances, NEW v \in Instances, Settled(v) # v, NEW want \in BOOLEAN
  PROVE  /\ SameButStatus(b, v) => SameButStatus(b, Settled(v))
         /\ SameButStatus(b, v) /\ v.status \in RunStates(b, want)
              => Settled(v).status \in RunStates(b, want)
<1>1. SameButStatus(b, v) => SameButStatus(b, Settled(v))
  BY SettledKeeps DEF SameButStatus
<1>2. ASSUME SameButStatus(b, v), v.status \in RunStates(b, want)
      PROVE  Settled(v).status \in RunStates(b, want)
  <2>1. v.status = "creating" /\ Settled(v).status = "stopped"
    BY <1>2, SettledKeeps DEF SameButStatus
  <2>2. Settled(b).status # "creating"
    BY SettledStatus
  <2>3. b.status = "creating"
    BY <1>2, <2>1, <2>2 DEF RunStates
  <2>4. Settled(b).status = "stopped"
    <3>1. Settled(b) = [b EXCEPT !.status = "stopped"]
      BY <2>3 DEF Settled
    <3> QED
      BY <3>1, Fields
  <2> QED
    BY <2>1, <2>4 DEF RunStates
<1> QED
  BY <1>1, <1>2

\* An instance that settles takes no promise away.
LEMMA PromisedSettled ==
  ASSUME NEW c \in CallRecords, NEW b \in Instances, NEW v \in Instances, Settled(v) # v,
         NEW e, NEW r, NEW x, Promised(c, b, v, e, r, x)
  PROVE  Promised(c, b, Settled(v), e, r, x)
<1> DEFINE w == Settled(v)
<1>1. /\ Untouched(b, v) => Untouched(b, w)
      /\ SameButStatus(b, v) => SameButStatus(b, w)
  BY SettledTwice, SameSettled
<1>2. \A want \in BOOLEAN : SameButStatus(b, v) /\ v.status \in RunStates(b, want)
                              => w.status \in RunStates(b, want)
  BY SameSettled
<1>3. c.op \in CallOps
  BY DEF CallRecords, CallOps
<1>4. \A want : v.status # RunStatus(want)
  BY SettledKeeps DEF RunStatus
<1>5. CASE c.op = "create"
  <2>1. Leftover(c, v, e) => Leftover(c, w, e) /\ ~w.protected
    BY <1>4, SettledKeeps DEF Leftover
  <2>2. v # [status |-> RunStatus(c.start), protected |-> c.protect, config |-> c.config]
    BY <1>4
  <2>3. CreatePromise(c, b, v, e, r, x) => CreatePromise(c, b, w, e, r, x)
    BY <1>1, <2>1, <2>2 DEF CreatePromise
  <2> QED
    BY <1>5, <2>3 DEF Promised
<1>6. ASSUME c.want \in BOOLEAN, RunPromise(c, b, v, e, x)
      PROVE  RunPromise(c, b, w, e, x)
  BY <1>1, <1>2, <1>4, <1>6, SettledKeeps DEF RunPromise
<1>7. CASE c.op = "run"
  <2>1. c.want \in BOOLEAN
    BY <1>7 DEF CallRecords
  <2> QED
    BY <1>6, <1>7, <2>1 DEF Promised
<1>8. CASE c.op = "resize"
  <2>1. c.want \in BOOLEAN
    BY <1>8 DEF CallRecords
  <2>2. ResizePromise(c, b, v, e, x) => ResizePromise(c, b, w, e, x)
    <3>1. ~Running(v) /\ ~Running(w)
      BY SettledKeeps
    <3>2. Usable(v) => Usable(w) /\ w.protected = v.protected /\ w.config = v.config
      BY SettledKeeps
    <3>3. SameButStatus(b, v) /\ v.status \in RunStates(b, FALSE)
            => w.status \in RunStates(b, FALSE)
      BY <1>2
    <3> QED
      BY <1>1, <1>6, <2>1, <3>1, <3>2, <3>3 DEF ResizePromise
  <2> QED
    BY <1>8, <2>2 DEF Promised
<1>9. CASE c.op = "protect"
  <2>1. c.want \in BOOLEAN
    BY <1>9 DEF CallRecords
  <2>2. ASSUME Usable(b), v \in {[y EXCEPT !.protected = c.want] : y \in {b, Settled(b)}}
        PROVE  w \in {[y EXCEPT !.protected = c.want] : y \in {b, Settled(b)}}
    <3>1. PICK y \in {b, Settled(b)} : v = [y EXCEPT !.protected = c.want]
      BY <2>2
    <3>2. y \in Instances /\ v.status = y.status
      BY <3>1, InstanceForms, Fields
    <3>3. Usable(y)
      BY <2>2, <3>1, SettledKeeps
    <3>4. v.status = "creating" /\ y.status = "creating"
      BY <3>2, <3>3, SettledKeeps DEF Usable
    <3>5. y = b
      BY <3>1, <3>4, SettledStatus
    <3>6. Settled(b) = [b EXCEPT !.status = "stopped"] /\ w = [v EXCEPT !.status = "stopped"]
      BY <3>4, <3>5 DEF Settled
    <3>7. w = [Settled(b) EXCEPT !.protected = c.want]
      <4>1. Settled(b) \in Instances /\ w \in Instances
        BY InstanceForms
      <4>2. Usable(Settled(b))
        BY <3>4, <3>5, <3>6, Fields DEF Usable
      <4>3. [Settled(b) EXCEPT !.protected = c.want] \in Instances
        BY <2>1, <4>1, <4>2, InstanceForms
      <4>4. /\ w.status = "stopped" /\ w.protected = c.want /\ w.config = b.config
            /\ Settled(b).status = "stopped" /\ Settled(b).config = b.config
        <5>1. v = [b EXCEPT !.protected = c.want]
          BY <3>1, <3>5
        <5>2. v.protected = c.want /\ v.config = b.config
          BY <5>1, Fields
        <5>3. w.status = "stopped" /\ w.protected = v.protected /\ w.config = v.config
          BY <3>6, Fields
        <5>4. Settled(b).status = "stopped" /\ Settled(b).config = b.config
          BY <3>6, Fields
        <5> QED
          BY <5>2, <5>3, <5>4
      <4>5. /\ [Settled(b) EXCEPT !.protected = c.want].status = "stopped"
            /\ [Settled(b) EXCEPT !.protected = c.want].protected = c.want
            /\ [Settled(b) EXCEPT !.protected = c.want].config = b.config
        BY <4>1, <4>4, Fields
      <4> QED
        BY <4>1, <4>3, <4>4, <4>5, InstanceRecord
    <3> QED
      BY <3>7
  <2>3. ProtectPromise(c, b, v, e, x) => ProtectPromise(c, b, w, e, x)
    BY <1>1, <2>2 DEF ProtectPromise
  <2> QED
    BY <1>9, <2>3 DEF Promised
<1>10. CASE c.op = "delete"
  <2>1. DeletePromise(c, b, v, e, x) => DeletePromise(c, b, w, e, x)
    BY <1>1, SettledKeeps DEF DeletePromise
  <2> QED
    BY <1>10, <2>1 DEF Promised
<1> QED
  BY <1>3, <1>5, <1>7, <1>8, <1>9, <1>10 DEF CallOps

\* Nor does it undo anything else that Local says of a call.
LEMMA LocalSettled ==
  ASSUME NEW l, NEW c \in CallRecords, NEW b \in Instances,
         NEW v \in Instances, Settled(v) # v,
         NEW e, NEW r, NEW g, NEW x, Local(l, c, b, v, e, r, g, x)
  PROVE  Local(l, c, b, Settled(v), e, r, g, x)
<1> DEFINE w == Settled(v)
<1>1. /\ Untouched(b, v) => Untouched(b, w) /\ v = b
      /\ SameButStatus(b, v) => SameButStatus(b, w)
  BY SettledTwice, SameSettled
<1>2. /\ ~Running(v) /\ ~Running(w) /\ ~Stopped(v)
      /\ v.status \notin {"stopped", "running", "broken"}
      /\ Usable(v) <=> v.status = "creating"
      /\ Usable(v) => Usable(w) /\ w.protected = v.protected /\ w.config = v.config
      /\ ~Usable(v) => ~Usable(w) /\ w = Absent
      /\ w.protected = v.protected /\ Listed(v)
  BY SettledKeeps
<1>3. c.op \in CallOps
  BY DEF CallRecords, CallOps
<1>4. CASE l = "unlock"
  BY <1>4, PromisedSettled DEF Local
<1>5. CASE l # "unlock" /\ c.op = "create"
  <2>1. \A ss : Made(c, v, ss) /\ "stopped" \in ss /\ "deleting" \notin ss => Made(c, w, ss)
    BY MadeSettled
  <2>2. \A ss : Made(c, v, ss) => v.status \in ss
    BY DEF Made, New
  <2>3. /\ Made(c, v, {"creating", "stopped", "broken"})
             => Made(c, w, {"creating", "stopped", "broken"})
        /\ Made(c, v, {"creating", "stopped"}) => Made(c, w, {"creating", "stopped"})
        /\ ~Made(c, v, {"stopped"}) /\ ~Made(c, v, {"stopped", "running", "broken"})
        /\ ~Made(c, v, {"running", "broken"}) /\ ~Made(c, v, {RunStatus(c.start)})
        /\ v # [status |-> RunStatus(c.start), protected |-> c.protect, config |-> c.config]
        /\ v # Absent
    BY <1>2, <2>1, <2>2 DEF RunStatus, Absent, Listed
  <2>4. CreateLocal(l, c, b, v, e, r, x) => CreateLocal(l, c, b, w, e, r, x)
    BY <1>1, <1>2, <2>3 DEF CreateLocal
  <2> QED
    BY <1>5, <2>4 DEF Local
<1>6. RunLocal(l, c, b, v, e, x) => RunLocal(l, c, b, w, e, x)
  <2>1. v.status \notin {"running", "broken"} /\ ~Stopped(v)
    BY <1>2
  <2>2. Untouched(b, v) /\ Stopped(w) => b.status = "creating"
    <3>1. Stopped(w) => Usable(v)
      BY <1>2 DEF Stopped, Absent
    <3> QED
      BY <1>1, <1>2, <3>1
  <2> QED
    BY <1>1, <1>2, <2>1, <2>2 DEF RunLocal
<1>7. CASE l # "unlock" /\ c.op = "run"
  BY <1>6, <1>7 DEF Local
<1>8. CASE l # "unlock" /\ c.op = "resize"
  <2>1. Edited(c, b, v) => Edited(c, b, w)
    BY <1>2 DEF Edited
  <2>2. ~(v = b /\ Running(b)) /\ v # [b EXCEPT !.status = "stopped"]
    <3>1. [b EXCEPT !.status = "stopped"].status = "stopped"
      BY Fields
    <3> QED
      BY <1>2, <3>1
  <2>3. EditLocal(l, c, b, v, e) => EditLocal(l, c, b, w, e)
    BY <1>1, <1>2, <2>1, <2>2 DEF EditLocal
  <2>4. ResizeLocal(l, c, b, v, e, g, x) => ResizeLocal(l, c, b, w, e, g, x)
    BY <1>1, <1>6, <2>3 DEF ResizeLocal
  <2> QED
    BY <1>8, <2>4 DEF Local
<1>9. CASE l # "unlock" /\ c.op = "protect"
  BY <1>1, <1>2, <1>9 DEF Local, ProtectLocal
<1>10. CASE l # "unlock" /\ c.op = "delete"
  BY <1>1, <1>2, <1>10 DEF Local, DeleteLocal
<1> QED
  BY <1>3, <1>4, <1>5, <1>7, <1>8, <1>9, <1>10 DEF CallOps

-----------------------------------------------------------------------------
(* CallInv is inductive.                                                   *)

\* Calls that are under way on different instances.
LEMMA LocksApart ==
  ASSUME SafeInv, NEW p \in Procs, NEW q \in Procs, p # q,
         pc[p] \in LockedSteps, pc[q] \in LockedSteps
  PROVE  Name(p) \in Names /\ Name(q) \in Names /\ Name(p) # Name(q)
<1>1. Name(p) \in Names /\ Name(q) \in Names
  BY LockedCall DEF SafeInv
<1> QED
  BY <1>1 DEF SafeInv, InstanceLockInv, Holds

\* A command keeps CallInv: for its own call by CommandKeeps, for the others as
\* their instances have other names.
LEMMA CommandCallInv ==
  ASSUME Undisturbed, SafeInv, CallInv, NEW p \in Procs, Command(p)
  PROVE  CallInv'
<1>1. CommandFrame(p) /\ pc[p] \in LockedSteps
  BY CommandFramed DEF SafeInv, CommandFrame
<1>2. LocalNext(p)
  BY CommandKeeps
<1>3. \A q \in Procs : Name(q)' = Name(q)
  BY <1>1 DEF CommandFrame, Name
<1> SUFFICES ASSUME NEW q \in Procs, pc'[q] \in LockedSteps
             PROVE  Local(pc[q], call[q], before[q], Instance(q), err[q], registered[q],
                          editing[q], expired[q])'
  BY DEF CallInv
<1>4. CASE q = p
  BY <1>1, <1>2, <1>3, <1>4 DEF LocalNext, CommandFrame, Instance
<1>5. CASE q # p
  <2>1. /\ pc'[q] = pc[q] /\ err'[q] = err[q] /\ registered'[q] = registered[q]
        /\ editing'[q] = editing[q] /\ expired'[q] = expired[q]
        /\ call' = call /\ before' = before
    BY <1>1, <1>5 DEF CommandFrame, PcFrame, ResultFrame, WorldFrame
  <2>2. Name(q) \in Names \ {Name(p)}
    BY <1>1, <1>5, <2>1, LocksApart
  <2>3. Instance(q)' = Instance(q)
    BY <1>1, <1>3, <2>2 DEF CommandFrame, WorldFrame, Instance
  <2> QED
    BY <2>1, <2>3 DEF CallInv
<1> QED
  BY <1>4, <1>5

\* Steps that run no command leave the other calls alone.
OthersStay(p) ==
  /\ \A q \in Procs \ {p} :
       /\ pc'[q] = pc[q] /\ call'[q] = call[q] /\ before'[q] = before[q]
       /\ err'[q] = err[q] /\ registered'[q] = registered[q] /\ editing'[q] = editing[q]
       /\ expired'[q] = expired[q]
  /\ vm' = vm

\* They keep CallInv if they do for p.
LEMMA OthersCallInv ==
  ASSUME CallInv, NEW p \in Procs, OthersStay(p),
         pc'[p] \in LockedSteps =>
           Local(pc[p], call[p], before[p], Instance(p), err[p], registered[p], editing[p],
                 expired[p])'
  PROVE  CallInv'
<1>1. \A q \in Procs \ {p} : Instance(q)' = Instance(q)
  BY DEF OthersStay, Instance, Name
<1> QED
  BY <1>1 DEF CallInv, OthersStay

\* The steps of p that run no command, but for taking the instance's lock.
LEMMA OwnSteps ==
  ASSUME SafeInv, NEW p \in Procs,
         \/ \E c \in Calls : Begin(p, c)
         \/ SetupReady(p) \/ SetupLock(p) \/ SetupRefused(p) \/ SetupRecheck(p)
         \/ SetupMark(p) \/ SetupUnlock(p) \/ LockRefused(p) \/ Unlock(p)
  PROVE  OthersStay(p) /\ pc'[p] \notin LockedSteps
<1> USE DEF SafeInv, TypeInv, TypeOK, OthersStay, LockedSteps, SetupSteps
<1>1. ASSUME NEW c \in Calls, Begin(p, c) PROVE OthersStay(p) /\ pc'[p] \notin LockedSteps
  BY <1>1 DEF Begin, Goto, At, result, world
<1>2. CASE SetupReady(p) \/ SetupLock(p) \/ SetupRecheck(p) \/ SetupMark(p)
  BY <1>2 DEF SetupReady, SetupLock, SetupRecheck, SetupMark, Goto, args, result, world
<1>3. CASE SetupRefused(p) \/ SetupUnlock(p)
  BY <1>3 DEF SetupRefused, SetupUnlock, Return, Goto, world
<1>4. CASE LockRefused(p)
  BY <1>4, FailErr DEF LockRefused, Return, Goto, args, world, Errors
<1>5. CASE Unlock(p)
  BY <1>5 DEF Unlock, Return, Goto, args, result
<1> QED
  BY <1>1, <1>2, <1>3, <1>4, <1>5

\* A call that takes its lock starts from the instance as it is.
LEMMA LockCallInv ==
  ASSUME SafeInv, CallInv, NEW p \in Procs, LockInstance(p)
  PROVE  CallInv'
<1> DEFINE l == FirstStep(call[p])
<1>1. /\ At(p, "lock") /\ Goto(p, l) /\ before' = [before EXCEPT ![p] = Instance(p)]
      /\ UNCHANGED <<call, expired, result, sharedReady, world>>
  BY DEF LockInstance
<1>2. OthersStay(p) /\ pc'[p] = l /\ before'[p] = Instance(p)
  BY <1>1 DEF Goto, OthersStay, result, world, SafeInv, TypeInv, TypeOK
<1>3. /\ call[p] \in CallRecords /\ Op(p) \in CallOps /\ l \in CallSteps(p)
      /\ Instance(p) \in Instances
  BY <1>1, LockedCall, FirstStepSound DEF SafeInv, At
<1>4. err[p] = "ok" /\ ~registered[p] /\ ~editing[p]
  BY <1>1 DEF SafeInv, QuietInv, QuietSteps, At
<1>5. Untouched(Instance(p), Instance(p))
  BY DEF Untouched
<1>6. \A v, x : Untouched(v, v) => Local(l, call[p], v, v, "ok", FALSE, FALSE, x)
  <2> SUFFICES ASSUME NEW v, NEW x, Untouched(v, v)
               PROVE  Local(l, call[p], v, v, "ok", FALSE, FALSE, x)
    OBVIOUS
  <2>1. l \in CommandSteps(call[p].op) \cup {"unlock"}
    BY <1>3 DEF CallSteps, Op
  <2>2. CASE Op(p) = "create"
    BY <2>1, <2>2 DEF Local, CreateLocal, FirstStep, Op, StartSteps
  <2>3. CASE Op(p) = "resize"
    BY <2>1, <2>3 DEF Local, ResizeLocal, FirstStep, Op
  <2>4. CASE Op(p) = "run"
    <3>1. call[p].want \in BOOLEAN
      BY <1>3, <2>4 DEF CallRecords, Op
    <3> QED
      BY <2>1, <2>4, <3>1 DEF Local, RunLocal, FirstStep, RunState, Op, StartSteps, StopSteps
  <2>5. CASE Op(p) = "protect"
    BY <2>1, <2>5 DEF Local, ProtectLocal, FirstStep, Op
  <2>6. CASE Op(p) = "delete"
    BY <2>1, <2>6 DEF Local, DeleteLocal, FirstStep, Op
  <2> QED
    BY <1>3, <2>2, <2>3, <2>4, <2>5, <2>6 DEF CallOps
<1>7. /\ err'[p] = "ok" /\ registered'[p] = FALSE /\ editing'[p] = FALSE
      /\ call'[p] = call[p] /\ Instance(p)' = Instance(p)
  BY <1>1, <1>4 DEF result, world, Instance, Name, SafeInv, TypeInv, TypeOK
<1>8. Local(pc[p], call[p], before[p], Instance(p), err[p], registered[p], editing[p],
            expired[p])'
  BY <1>2, <1>5, <1>6, <1>7
<1> QED
  BY <1>2, <1>8, OthersCallInv

\* Contexts that end and instances that settle keep CallInv.
LEMMA BesideCallInv ==
  ASSUME Undisturbed, SafeInv, CallInv,
         \/ \E p \in Procs : Expire(p)
         \/ \E n \in Names : Settle(n) \/ User(n)
         \/ UNCHANGED vars
  PROVE  CallInv'
<1>1. ASSUME NEW p \in Procs, Expire(p) PROVE CallInv'
  <2>1. /\ \A q \in Procs \ {p} : expired'[q] = expired[q]
        /\ expired'[p] = TRUE /\ expired[p] = FALSE
        /\ UNCHANGED <<pc, call, before, err, registered, editing, vm>>
    BY <1>1 DEF Expire, args, result, world, SafeInv, TypeInv, TypeOK
  <2>2. \A q \in Procs : Instance(q)' = Instance(q)
    BY <2>1 DEF Instance, Name
  <2>3. pc[p] \in LockedSteps => call[p].op \in CallOps
    BY LockedCall DEF SafeInv, Op
  <2> SUFFICES ASSUME NEW q \in Procs, pc[q] \in LockedSteps
               PROVE  Local(pc[q], call[q], before[q], Instance(q), err[q], registered[q],
                            editing[q], expired'[q])
    BY <2>1, <2>2 DEF CallInv
  <2>4. Local(pc[q], call[q], before[q], Instance(q), err[q], registered[q], editing[q],
              expired[q])
    BY DEF CallInv
  <2>5. CASE q = p
    BY <2>1, <2>3, <2>4, <2>5, LocalLate
  <2> QED
    BY <2>1, <2>4, <2>5
<1>2. ASSUME NEW n \in Names, Settle(n) PROVE CallInv'
  <2>1. /\ Settled(vm[n]) # vm[n] /\ vm' = [vm EXCEPT ![n] = Settled(vm[n])]
        /\ UNCHANGED <<pc, call, before, expired, err, registered, editing>>
    BY <1>2 DEF Settle, args, result
  <2> SUFFICES ASSUME NEW q \in Procs, pc[q] \in LockedSteps
               PROVE  Local(pc[q], call[q], before[q], vm'[Name(q)], err[q], registered[q],
                            editing[q], expired[q])
    BY <2>1 DEF CallInv, Instance, Name
  <2>2. /\ Local(pc[q], call[q], before[q], Instance(q), err[q], registered[q], editing[q],
                 expired[q])
        /\ call[q] \in CallRecords /\ before[q] \in Instances /\ Instance(q) \in Instances
        /\ Name(q) \in Names
    BY Now DEF LocalNow
  <2>3. CASE Name(q) = n
    <3>1. vm'[Name(q)] = Settled(Instance(q)) /\ Settled(Instance(q)) # Instance(q)
      BY <2>1, <2>3 DEF Instance, SafeInv, TypeInv
    <3> QED
      BY <2>2, <3>1, LocalSettled
  <2>4. CASE Name(q) # n
    BY <2>1, <2>2, <2>4 DEF Instance, SafeInv, TypeInv
  <2> QED
    BY <2>3, <2>4
<1>3. ASSUME NEW n \in Names PROVE ~User(n)
  BY DEF User, UserOutcomes, Undisturbed
<1>4. CASE UNCHANGED vars
  BY <1>4 DEF vars, CallInv, Instance, Name
<1> QED
  BY <1>1, <1>2, <1>3, <1>4

\* CallInv is inductive, relative to SafeInv.
LEMMA NextCallInv ==
  ASSUME Undisturbed, SafeInv, CallInv, [Next]_vars
  PROVE  CallInv'
<1>1. ASSUME NEW p \in Procs, Step(p) \/ Locking(p) \/ \E c \in Calls : Begin(p, c)
      PROVE  CallInv'
  <2>1. CASE Command(p)
    BY <2>1, CommandCallInv
  <2>2. CASE LockInstance(p)
    BY <2>2, LockCallInv
  <2>3. CASE ~Command(p) /\ ~LockInstance(p)
    <3>1. OthersStay(p) /\ pc'[p] \notin LockedSteps
      BY <1>1, <2>3, OwnSteps DEF Step, Locking
    <3> QED
      BY <3>1, OthersCallInv
  <2> QED
    BY <2>1, <2>2, <2>3
<1> QED
  BY <1>1, BesideCallInv DEF Next

-----------------------------------------------------------------------------
(* What CallInv gives.                                                     *)

\* At first no call has a lock.
LEMMA InitCallInv == Init => CallInv
BY DEF Init, CallInv, LockedSteps

\* The same as one formula.
LEMMA CallInvKept == Undisturbed /\ SafeInv /\ CallInv /\ [Next]_vars => CallInv'
BY NextCallInv

\* CallInv is invariant in an undisturbed home.
LEMMA CallInvHolds == Undisturbed => (Spec => []CallInv)
<1> SUFFICES ASSUME Undisturbed PROVE Spec => []CallInv
  OBVIOUS
<1>1. SafeInv /\ CallInv /\ [Next]_vars => CallInv'
  BY CallInvKept
<1> QED
  BY <1>1, InitCallInv, SafeInvHolds, PTL DEF Spec

\* At the last step of a call Local is its contract.
LEMMA CallInvContract ==
  ASSUME CallInv PROVE ContractKept
<1> SUFFICES ASSUME NEW p \in Procs, At(p, "unlock")
             PROVE  Promised(call[p], before[p], Instance(p), err[p], registered[p],
                             expired[p])
  BY DEF ContractKept
<1>1. pc[p] \in LockedSteps
  BY DEF At, LockedSteps, Steps, SetupSteps
<1> QED
  BY <1>1 DEF CallInv, Local, At

\* Every call of the service keeps its contract, from the instance it found when
\* it took its lock to the instance it leaves when it gives it up, whatever the
\* other calls do meanwhile, wherever limactl fails and whenever the context ends.
THEOREM ContractIsKept == Undisturbed => (Spec => []ContractKept)
<1> SUFFICES ASSUME Undisturbed PROVE Spec => []ContractKept
  OBVIOUS
<1>1. CallInv => ContractKept
  BY CallInvContract
<1> QED
  BY <1>1, CallInvHolds, PTL

\* Before a command Local says what the inspection told.
LEMMA CallInvInspection ==
  ASSUME SafeInv, CallInv PROVE InspectionStillTrue
<1> SUFFICES ASSUME NEW p \in Procs, pc[p] \in LockedSteps
             PROVE  /\ pc[p] \in {"create_run", "create_keygen"} => ~Listed(Instance(p))
                    /\ pc[p] = "start_run" => ~Running(Instance(p))
                    /\ pc[p] = "stop_run" =>
                         ~Stopped(Instance(p)) \/ before[p].status = "creating"
                    /\ pc[p] = "edit_run" => ~Running(Instance(p))
                    /\ pc[p] = "delete_run" => ~Instance(p).protected
                    /\ pc[p] = "protect_run" => Instance(p).protected # call[p].want
  BY DEF InspectionStillTrue, At, LockedSteps, Steps, SetupSteps
<1>1. LocalNow(p) /\ TypeInv
  BY Now DEF SafeInv
<1>2. CASE Op(p) = "create"
  <2>1. pc[p] # "unlock" =>
          CreateLocal(pc[p], call[p], before[p], Instance(p), err[p], registered[p], expired[p])
    BY <1>1, <1>2 DEF LocalNow, Local, Op
  <2>2. pc[p] \in {"create_run", "create_keygen"} => ~Listed(Instance(p))
    BY <2>1 DEF CreateLocal
  <2>3. pc[p] = "start_run" => ~Running(Instance(p))
    BY <2>1 DEF CreateLocal, Made, New, Running
  <2> QED
    BY <1>1, <1>2, <2>2, <2>3, StepOp DEF StopSteps
<1>3. CASE Op(p) = "resize"
  <2>1. pc[p] # "unlock" =>
          ResizeLocal(pc[p], call[p], before[p], Instance(p), err[p], editing[p], expired[p])
    BY <1>1, <1>3 DEF LocalNow, Local, Op
  <2>2. pc[p] = "start_run" \/ pc[p] = "edit_run" => ~Running(Instance(p))
    BY <2>1 DEF ResizeLocal, EditLocal, RunLocal
  <2>3. pc[p] = "stop_run" => ~Stopped(Instance(p)) \/ before[p].status = "creating"
    BY <2>1 DEF ResizeLocal, EditLocal, RunLocal, Running, Stopped
  <2> QED
    BY <1>1, <1>3, <2>2, <2>3, StepOp
<1>4. CASE Op(p) = "run"
  <2>1. pc[p] # "unlock" =>
          RunLocal(pc[p], call[p], before[p], Instance(p), err[p], expired[p])
    BY <1>1, <1>4 DEF LocalNow, Local, Op
  <2> QED
    BY <1>1, <1>4, <2>1, StepOp DEF RunLocal
<1>5. CASE Op(p) = "protect"
  BY <1>1, <1>5, StepOp DEF LocalNow, Local, Op, ProtectLocal, StartSteps, StopSteps
<1>6. CASE Op(p) = "delete"
  BY <1>1, <1>6, StepOp DEF LocalNow, Local, Op, DeleteLocal, StartSteps, StopSteps
<1>7. Op(p) \in CallOps
  BY <1>1, LockedCall
<1> QED
  BY <1>2, <1>3, <1>4, <1>5, <1>6, <1>7 DEF CallOps

\* What a call learned of its instance is still so when it runs the command it
\* learned it for, in every interleaving of the calls.
THEOREM InspectionsStayTrue == Undisturbed => (Spec => []InspectionStillTrue)
<1> SUFFICES ASSUME Undisturbed PROVE Spec => []InspectionStillTrue
  OBVIOUS
<1>1. SafeInv /\ CallInv => InspectionStillTrue
  BY CallInvInspection
<1> QED
  BY <1>1, CallInvHolds, SafeInvHolds, PTL

-----------------------------------------------------------------------------
(***************************************************************************)
(* What the calls do to the home between them: who made the instance that  *)
(* a failed create leaves behind (MakerInv), who initialises the home      *)
(* (KeypairInv), and which steps may start, stop or delete an instance.    *)
(* All of it rests on CallInv.                                             *)
(***************************************************************************)

BeforeCreate == {"create_exists", "create_validate", "create_run", "create_keygen"}

\* Only a create in progress is the maker of an instance, which is then there.
MakerInv ==
  /\ \A n \in Names : maker[n] # NoProc =>
       Listed(vm[n]) /\ maker[n] \in Procs /\ Holds(maker[n], n)
  /\ \A p \in Procs : pc[p] \in LockedSteps /\ Op(p) = "create" =>
       /\ pc[p] \in BeforeCreate => maker[Name(p)] # p
       /\ At(p, "create_recheck") /\ Listed(Instance(p)) => maker[Name(p)] = p
       /\ registered[p] => maker[Name(p)] = p
  /\ LeftoverReported

\* Without a keypair a create holds the home's lock until it has made one.
KeypairInv ==
  /\ sharedReady => keypair
  /\ \A p \in Procs :
       /\ At(p, "create_keygen") => ~keypair
       /\ pc[p] \in LockedSteps \cup {"lock"} /\ Op(p) = "create" => Holds(p, Home) \/ keypair
       /\ registered[p] => keypair
       /\ At(p, "create_recheck") /\ Listed(Instance(p)) => keypair

-----------------------------------------------------------------------------
(* Who made an instance.                                                   *)

\* At first nobody is a maker.
LEMMA InitMakerInv == Init => MakerInv
BY DEF Init, MakerInv, LeftoverReported, Creating, At, LockedSteps

\* An instance that is reported registered is there.
LEMMA RegisteredListed ==
  ASSUME NEW l, NEW c \in CallRecords, NEW b, NEW v, NEW e, NEW g, NEW x,
         Local(l, c, b, v, e, TRUE, g, x)
  PROVE  Listed(v)
<1>1. c.op = "create"
  BY DEF Local
<1>2. CASE l = "unlock"
  <2>1. CreatePromise(c, b, v, e, TRUE, x)
    BY <1>1, <1>2 DEF Local, Promised
  <2> QED
    BY <2>1 DEF CreatePromise, Leftover, Usable, Listed, RunStatus
<1>3. CASE l # "unlock"
  <2>1. CreateLocal(l, c, b, v, e, TRUE, x)
    BY <1>1, <1>3 DEF Local
  <2>2. l \in {"create_wait", "create_protect", "create_inspect"} \cup StartSteps
    BY <2>1 DEF CreateLocal
  <2> QED
    BY <2>1, <2>2 DEF CreateLocal, Made, New, Listed, StartSteps, RunStatus
<1> QED
  BY <1>2, <1>3

\* A command's step runs a command, or is the turn to ssh-keygen.
LEMMA RunsOrNot ==
  ASSUME NEW p \in Procs, Command(p)
  PROVE  (\E o : Runs(p, o)) \/ UNCHANGED <<vm, maker>>
BY DEF Command, CreateExists, CreateValidate, CreateRun, CreateKeygen, Created, CreateRecheck,
       CreateWait, CreateProtect, CreateInspect, StartInspect, StartRun, StartDegraded,
       StartWait, StopInspect, StopRun, StopWait, ResizeInspect, EditRun, ProtectInspect,
       ProtectRun, DeleteInspect, DeleteRun, DeleteWait, WaitForStatus, WaitForAbsence, Polls

\* A command that makes the instance appear becomes its maker, and one that takes
\* it away leaves none.
LEMMA CommandMaker ==
  ASSUME SafeInv, MakerInv, NEW p \in Procs, Command(p)
  PROVE  maker'[Name(p)] = IF ~Listed(vm'[Name(p)]) THEN NoProc
                           ELSE IF ~Listed(Instance(p)) THEN p ELSE maker[Name(p)]
<1>1. pc[p] \in LockedSteps
  BY CommandFramed DEF SafeInv, CommandFrame
<1>2. Name(p) \in Names
  BY <1>1, LockedCall DEF SafeInv
<1>3. CASE \E o : Runs(p, o)
  <2>1. PICK o : Runs(p, o)
    BY <1>3
  <2>2. vm'[Name(p)] = o.vm
    BY <1>2, <2>1 DEF Runs, SafeInv, TypeInv
  <2>3. maker'[Name(p)] = IF ~Listed(o.vm) THEN NoProc
                          ELSE IF ~Listed(vm[Name(p)]) THEN p ELSE maker[Name(p)]
    BY <1>2, <2>1 DEF Runs, SafeInv, TypeInv, TypeOK
  <2> QED
    BY <2>2, <2>3 DEF Instance
<1>4. CASE UNCHANGED <<vm, maker>>
  BY <1>2, <1>4 DEF MakerInv, Instance
<1> QED
  BY <1>3, <1>4, RunsOrNot

\* What MakerInv says of the create of p, before and after one of its steps.
OwnMaker(p) ==
  /\ pc[p] \in BeforeCreate => maker[Name(p)] # p
  /\ At(p, "create_recheck") /\ Listed(Instance(p)) => maker[Name(p)] = p
  /\ registered[p] => maker[Name(p)] = p
  /\ At(p, "unlock") /\ err[p] # "ok" /\ ~expired[p] /\ maker[Name(p)] = p => registered[p]

OwnMakerNext(p) ==
  /\ pc'[p] \in BeforeCreate => maker'[Name(p)] # p
  /\ pc'[p] = "create_recheck" /\ Listed(vm'[Name(p)]) => maker'[Name(p)] = p
  /\ registered'[p] => maker'[Name(p)] = p
  /\ pc'[p] = "unlock" /\ err'[p] # "ok" /\ ~expired'[p] /\ maker'[Name(p)] = p
       => registered'[p]

\* Before limactl create runs, a create is not the maker.
LEMMA CreateSearchMaker ==
  ASSUME Undisturbed, SafeInv, CallInv, MakerInv, NEW p \in Procs, Command(p),
         CreateExists(p) \/ CreateValidate(p)
  PROVE  OwnMakerNext(p)
<1>1. pc[p] \in {"create_exists", "create_validate"} /\ pc[p] \in LockedSteps
  BY DEF CreateExists, CreateValidate, At, LockedSteps, Steps, SetupSteps
<1>2. Op(p) = "create" /\ Name(p) \in Names /\ Instance(p) \in Instances
  BY <1>1, StepOp, LockedCall DEF SafeInv
<1>3. ~registered[p]
  BY <1>1, <1>2, Now DEF LocalNow, Local, CreateLocal, Op, StartSteps
<1>4. vm'[Name(p)] = Instance(p)
  <2>1. CASE CreateExists(p)
    <3>1. PICK o \in Inspections(p) : Runs(p, o)
      BY <2>1 DEF CreateExists
    <3> QED
      BY <1>1, <1>2, <3>1, InspectionTells, Gives
  <2>2. CASE CreateValidate(p)
    <3>1. PICK o \in Ends(p, ValidateOutcomes(Instance(p))) : Runs(p, o)
      BY <2>2 DEF CreateValidate
    <3>2. \A q \in ValidateOutcomes(Instance(p)) : q.vm = Instance(p)
      BY DEF ValidateOutcomes, Outcome, Fault
    <3>3. o.vm = Instance(p)
      BY <3>1, <3>2, EndsForms
    <3> QED
      BY <1>1, <1>2, <3>1, <3>3, Gives
  <2> QED
    BY <2>1, <2>2
<1>5. maker[Name(p)] # p /\ p # NoProc
  BY <1>1, <1>2, NoProcAssumption DEF MakerInv, BeforeCreate
<1>6. maker'[Name(p)] # p
  BY <1>4, <1>5, CommandMaker
<1>7. registered'[p] = registered[p]
  BY DEF CreateExists, CreateValidate, Service
<1>8. pc'[p] \in {"create_validate", "create_run", "unlock"}
  BY <1>1 DEF CreateExists, CreateValidate, Goto, OnSuccess, SafeInv, TypeInv, TypeOK
<1> QED
  BY <1>3, <1>6, <1>7, <1>8 DEF OwnMakerNext

\* When it runs, the create becomes the maker if an instance appears.
LEMMA CreateRunMaker ==
  ASSUME Undisturbed, SafeInv, CallInv, MakerInv, NEW p \in Procs, Command(p),
         CreateRun(p) \/ CreateKeygen(p)
  PROVE  OwnMakerNext(p)
<1>1. pc[p] \in {"create_run", "create_keygen"} /\ pc[p] \in LockedSteps
  BY DEF CreateRun, CreateKeygen, At, LockedSteps, Steps, SetupSteps
<1>2. Op(p) = "create" /\ call[p] \in CallRecords
  BY <1>1, StepOp, LockedCall DEF SafeInv
<1>3. ~Listed(Instance(p)) /\ ~registered[p]
  BY <1>1, <1>2, Now DEF LocalNow, Local, CreateLocal, Op, StartSteps
<1>4. pc'[p] \in {"create_keygen", "create_wait", "create_recheck"}
  <2>1. ASSUME NEW outs, Created(p, outs) PROVE pc'[p] \in {"create_wait", "create_recheck"}
    BY <2>1 DEF Created, Goto, SafeInv, TypeInv, TypeOK
  <2> QED
    BY <2>1 DEF CreateRun, CreateKeygen, Goto, SafeInv, TypeInv, TypeOK
<1>5. CreateLocal(pc'[p], call[p], before[p], vm'[Name(p)], err'[p], registered'[p],
                  expired'[p])
  BY <1>2, <1>4, CommandKeeps DEF LocalNext, Local, Op
<1>6. registered'[p] => Listed(vm'[Name(p)])
  <2>1. registered'[p] => pc'[p] = "create_wait"
    BY <1>4, <1>5 DEF CreateLocal, StartSteps
  <2> QED
    BY <1>5, <2>1 DEF CreateLocal, Made, New, Listed
<1>7. pc'[p] \in BeforeCreate => ~Listed(vm'[Name(p)])
  BY <1>4, <1>5 DEF CreateLocal, BeforeCreate
<1>8. p # NoProc
  BY NoProcAssumption
<1> QED
  BY <1>3, <1>4, <1>6, <1>7, <1>8, CommandMaker DEF OwnMakerNext

\* The second look finds the instance the create is the maker of.
LEMMA CreateRecheckMaker ==
  ASSUME Undisturbed, SafeInv, CallInv, MakerInv, NEW p \in Procs, Command(p),
         CreateRecheck(p)
  PROVE  OwnMakerNext(p)
<1>1. At(p, "create_recheck") /\ pc[p] \in LockedSteps
  BY DEF CreateRecheck, At, LockedSteps, Steps, SetupSteps
<1>2. /\ Op(p) = "create" /\ call[p] \in CallRecords /\ Name(p) \in Names
      /\ Instance(p) \in Instances
  BY <1>1, StepOp, LockedCall DEF SafeInv, At
<1>3. PICK o \in Inspections(p) :
        /\ Runs(p, o)
        /\ registered' = [registered EXCEPT ![p] = (o.exit = "ok")]
  BY DEF CreateRecheck
<1>4. /\ o.vm = Instance(p)
      /\ o.exit \in {"timeout", IF Listed(Instance(p)) THEN "ok" ELSE "notfound"}
  BY InspectionTells
<1>5. vm'[Name(p)] = Instance(p) /\ (o.exit = "timeout" => expired'[p])
  BY <1>1, <1>2, <1>3, <1>4, Gives
<1>6. registered'[p] <=> o.exit = "ok"
  BY <1>3 DEF SafeInv, TypeInv, TypeOK
<1>7. pc'[p] = "unlock"
  BY DEF CreateRecheck, Goto, SafeInv, TypeInv, TypeOK
<1>8. p # NoProc
  BY NoProcAssumption
<1>9. Listed(Instance(p)) => maker[Name(p)] = p
  BY <1>1, <1>2 DEF MakerInv
<1> QED
  BY <1>4, <1>5, <1>6, <1>7, <1>8, <1>9, CommandMaker DEF OwnMakerNext, BeforeCreate

\* From the wait on, a create is the maker and says so.
LEMMA CreateOnMaker ==
  ASSUME Undisturbed, SafeInv, CallInv, MakerInv, NEW p \in Procs, Command(p),
         Op(p) = "create",
         pc[p] \in {"create_wait", "create_protect", "create_inspect"} \cup StartSteps
  PROVE  OwnMakerNext(p)
<1>1. pc[p] \in LockedSteps
  BY DEF LockedSteps, Steps, SetupSteps, StartSteps
<1>2. call[p] \in CallRecords
  BY <1>1, LockedCall DEF SafeInv
<1>3. registered[p] = TRUE
  BY <1>1, Now DEF LocalNow, Local, CreateLocal, Op, StartSteps
<1>4. registered' = registered
  BY DEF Command, CreateExists, CreateValidate, CreateRun, CreateKeygen, CreateRecheck,
         CreateWait, CreateProtect, CreateInspect, StartInspect, StartRun, StartDegraded,
         StartWait, StopInspect, StopRun, StopWait, ResizeInspect, EditRun, ProtectInspect,
         ProtectRun, DeleteInspect, DeleteRun, DeleteWait, WaitForStatus, WaitForAbsence,
         Polls, Service, At, StartSteps
<1>5. Local(pc'[p], call[p], before[p], vm'[Name(p)], err'[p], TRUE, editing'[p], expired'[p])
  BY <1>3, <1>4, CommandKeeps DEF LocalNext
<1>6. Listed(vm'[Name(p)])
  BY <1>2, <1>5, RegisteredListed
<1>7. maker[Name(p)] = p /\ p # NoProc
  BY <1>1, <1>3, NoProcAssumption DEF MakerInv
<1>8. pc'[p] \notin BeforeCreate \cup {"create_recheck"}
  <2>1. pc'[p] # "unlock" => CreateLocal(pc'[p], call[p], before[p], vm'[Name(p)], err'[p],
                                         TRUE, expired'[p])
    BY <1>5 DEF Local, Op
  <2> QED
    BY <2>1 DEF CreateLocal, BeforeCreate, StartSteps
<1> QED
  BY <1>3, <1>4, <1>6, <1>7, <1>8, CommandMaker DEF OwnMakerNext

\* Every command of a create keeps what MakerInv says of it.
LEMMA CommandOwnMaker ==
  ASSUME Undisturbed, SafeInv, CallInv, MakerInv, NEW p \in Procs, Command(p),
         Op(p) = "create"
  PROVE  OwnMakerNext(p)
<1>1. pc[p] \in LockedSteps
  BY CommandFramed DEF SafeInv, CommandFrame
<1>2. pc[p] \in {"create_exists", "create_validate", "create_run", "create_keygen",
                 "create_recheck", "create_wait", "create_protect", "create_inspect"}
        \cup StartSteps \cup {"unlock"}
  BY <1>1 DEF SafeInv, TypeInv, CallSteps, CommandSteps
<1>3. \/ CreateExists(p) \/ CreateValidate(p) \/ CreateRun(p) \/ CreateKeygen(p)
      \/ CreateRecheck(p)
      \/ pc[p] \in {"create_wait", "create_protect", "create_inspect"} \cup StartSteps
  BY <1>2 DEF Command, CreateExists, CreateValidate, CreateRun, CreateKeygen, CreateRecheck,
         CreateWait, CreateProtect, CreateInspect, StartInspect, StartRun, StartDegraded,
         StartWait, StopInspect, StopRun, StopWait, ResizeInspect, EditRun, ProtectInspect,
         ProtectRun, DeleteInspect, DeleteRun, DeleteWait, At, StartSteps
<1> QED
  BY <1>3, CreateSearchMaker, CreateRunMaker, CreateRecheckMaker, CreateOnMaker

\* The two parts of MakerInv, goroutine by goroutine.
Makers ==
  \A n \in Names : maker[n] # NoProc =>
    Listed(vm[n]) /\ maker[n] \in Procs /\ Holds(maker[n], n)

\* Makers and every create's OwnMaker are MakerInv.
LEMMA MakerInvParts ==
  ASSUME SafeInv
  PROVE  MakerInv <=>
           Makers /\ \A p \in Procs : pc[p] \in LockedSteps /\ Op(p) = "create" => OwnMaker(p)
<1>1. \A p \in Procs : At(p, "unlock") => pc[p] \in LockedSteps
  BY DEF At, LockedSteps, Steps, SetupSteps
<1> QED
  BY <1>1 DEF MakerInv, Makers, OwnMaker, LeftoverReported, Creating

\* A command keeps both parts.
LEMMA CommandMakerInv ==
  ASSUME Undisturbed, SafeInv, CallInv, MakerInv, NEW p \in Procs, Command(p)
  PROVE  /\ Makers'
         /\ \A q \in Procs : pc'[q] \in LockedSteps /\ Op(q)' = "create" => OwnMaker(q)'
<1>1. CommandFrame(p) /\ pc[p] \in LockedSteps
  BY CommandFramed DEF SafeInv, CommandFrame
<1>2. Name(p) \in Names /\ Holds(p, Name(p)) /\ p # NoProc
  BY <1>1, LockedCall, NoProcAssumption DEF SafeInv, InstanceLockInv
<1>3. /\ \A q \in Procs : Name(q)' = Name(q) /\ Op(q)' = Op(q)
      /\ holder' = holder
  BY <1>1 DEF CommandFrame, Name, Op
<1>4. Makers'
  <2> SUFFICES ASSUME NEW n \in Names, maker'[n] # NoProc
               PROVE  Listed(vm'[n]) /\ maker'[n] \in Procs /\ holder'[n] = maker'[n]
    BY DEF Makers, Holds
  <2>1. CASE n = Name(p)
    BY <1>2, <1>3, <2>1, CommandMaker DEF MakerInv, Holds
  <2>2. CASE n # Name(p)
    BY <1>1, <1>3, <2>2 DEF CommandFrame, WorldFrame, MakerInv, Holds
  <2> QED
    BY <2>1, <2>2
<1>5. ASSUME NEW q \in Procs, pc'[q] \in LockedSteps, Op(q)' = "create"
      PROVE  OwnMaker(q)'
  <2>1. CASE q = p
    <3>1. OwnMakerNext(p)
      BY <1>3, <1>5, <2>1, CommandOwnMaker
    <3> QED
      BY <1>3, <2>1, <3>1 DEF OwnMakerNext, OwnMaker, At, Instance
  <2>2. CASE q # p
    <3>1. /\ pc'[q] = pc[q] /\ err'[q] = err[q] /\ registered'[q] = registered[q]
          /\ expired'[q] = expired[q]
      BY <1>1, <2>2 DEF CommandFrame, PcFrame, ResultFrame, WorldFrame
    <3>2. Name(q) \in Names \ {Name(p)}
      BY <1>1, <1>5, <2>2, <3>1, LocksApart
    <3>3. vm'[Name(q)] = vm[Name(q)] /\ maker'[Name(q)] = maker[Name(q)]
      BY <1>1, <3>2 DEF CommandFrame, WorldFrame
    <3>4. OwnMaker(q)
      BY <1>3, <1>5, <3>1, MakerInvParts
    <3> QED
      BY <1>3, <3>1, <3>3, <3>4 DEF OwnMaker, At, Instance
  <2> QED
    BY <2>1, <2>2
<1> QED
  BY <1>4, <1>5

\* The steps of p that neither run a command nor touch an instance's lock.
LEMMA AsideMakerInv ==
  ASSUME SafeInv, MakerInv, NEW p \in Procs, OthersStay(p), pc'[p] \notin LockedSteps,
         maker' = maker, \A n \in Names : holder'[n] = holder[n]
  PROVE  /\ Makers'
         /\ \A q \in Procs : pc'[q] \in LockedSteps /\ Op(q)' = "create" => OwnMaker(q)'
<1>1. Makers'
  BY DEF Makers, MakerInv, Holds, OthersStay
<1>2. ASSUME NEW q \in Procs, pc'[q] \in LockedSteps, Op(q)' = "create"
      PROVE  OwnMaker(q)'
  <2>1. q # p
    BY <1>2
  <2>2. /\ pc'[q] = pc[q] /\ call'[q] = call[q] /\ err'[q] = err[q]
        /\ registered'[q] = registered[q] /\ expired'[q] = expired[q] /\ vm' = vm
    BY <2>1 DEF OthersStay
  <2>3. OwnMaker(q)
    BY <1>2, <2>2, MakerInvParts DEF Op
  <2> QED
    BY <2>2, <2>3 DEF OwnMaker, At, Instance, Name
<1> QED
  BY <1>1, <1>2

\* The same for the steps it is about.
LEMMA ServiceMakerInv ==
  ASSUME SafeInv, MakerInv, NEW p \in Procs,
         \/ \E c \in Calls : Begin(p, c)
         \/ SetupReady(p) \/ SetupLock(p) \/ SetupRefused(p) \/ SetupRecheck(p)
         \/ SetupMark(p) \/ SetupUnlock(p) \/ LockRefused(p)
  PROVE  /\ Makers'
         /\ \A q \in Procs : pc'[q] \in LockedSteps /\ Op(q)' = "create" => OwnMaker(q)'
<1>1. OthersStay(p) /\ pc'[p] \notin LockedSteps
  BY OwnSteps
<1>2. maker' = maker
  BY DEF Begin, SetupReady, SetupLock, SetupRefused, SetupRecheck, SetupMark, SetupUnlock,
         LockRefused, world
<1>3. \A n \in Names : holder'[n] = holder[n]
  BY KeysAssumption DEF Begin, SetupReady, SetupLock, SetupRefused, SetupRecheck, SetupMark,
         SetupUnlock, LockRefused, Acquire, Release, SafeInv, TypeInv, TypeOK, LockTypeOK
<1> QED
  BY <1>1, <1>2, <1>3, AsideMakerInv

\* Giving up the lock, the create forgets what it made.
LEMMA UnlockMakerInv ==
  ASSUME SafeInv, MakerInv, NEW p \in Procs, Unlock(p)
  PROVE  /\ Makers'
         /\ \A q \in Procs : pc'[q] \in LockedSteps /\ Op(q)' = "create" => OwnMaker(q)'
<1>1. OthersStay(p) /\ pc'[p] \notin LockedSteps
  BY OwnSteps
<1>2. pc[p] \in LockedSteps /\ Name(p) \in Names
  <2>1. pc[p] \in LockedSteps
    BY DEF Unlock, At, LockedSteps, Steps, SetupSteps
  <2> QED
    BY <2>1, LockedCall DEF SafeInv
<1>3. /\ maker'[Name(p)] = NoProc
      /\ \A n \in Names \ {Name(p)} : maker'[n] = maker[n] /\ holder'[n] = holder[n]
  BY <1>2, KeysAssumption
     DEF Unlock, Release, SafeInv, TypeInv, TypeOK, LockTypeOK
<1>4. Makers'
  BY <1>1, <1>3 DEF Makers, MakerInv, Holds, OthersStay
<1>5. ASSUME NEW q \in Procs, pc'[q] \in LockedSteps, Op(q)' = "create"
      PROVE  OwnMaker(q)'
  <2>1. q # p
    BY <1>1, <1>5
  <2>2. /\ pc'[q] = pc[q] /\ call'[q] = call[q] /\ err'[q] = err[q]
        /\ registered'[q] = registered[q] /\ expired'[q] = expired[q] /\ vm' = vm
    BY <1>1, <2>1 DEF OthersStay
  <2>3. Name(q) \in Names \ {Name(p)}
    BY <1>2, <1>5, <2>1, <2>2, LocksApart
  <2>4. maker'[Name(q)] = maker[Name(q)]
    BY <1>3, <2>3
  <2>5. OwnMaker(q)
    BY <1>5, <2>2, MakerInvParts DEF Op
  <2> QED
    BY <2>2, <2>4, <2>5 DEF OwnMaker, At, Instance, Name
<1> QED
  BY <1>4, <1>5

\* A lock that is free has no maker under it.
LEMMA LockMakerInv ==
  ASSUME SafeInv, MakerInv, NEW p \in Procs, LockInstance(p)
  PROVE  /\ Makers'
         /\ \A q \in Procs : pc'[q] \in LockedSteps /\ Op(q)' = "create" => OwnMaker(q)'
<1>1. /\ At(p, "lock") /\ Goto(p, FirstStep(call[p])) /\ Acquire(p, Name(p))
      /\ UNCHANGED <<call, expired, result, sharedReady, world>>
  BY DEF LockInstance
<1>2. Name(p) \in Names /\ Op(p) \in CallOps
  BY <1>1, LockedCall DEF SafeInv, At
<1>3. holder[Name(p)] = NoProc /\ \A n \in Names \ {Name(p)} : holder'[n] = holder[n]
  BY <1>1, <1>2, KeysAssumption DEF Acquire, SafeInv, TypeInv, TypeOK, LockTypeOK
<1>4. maker[Name(p)] = NoProc /\ p # NoProc
  BY <1>2, <1>3, NoProcAssumption DEF MakerInv, Holds
<1>5. /\ \A q \in Procs \ {p} : pc'[q] = pc[q]
      /\ pc'[p] = FirstStep(call[p])
      /\ UNCHANGED <<call, expired, err, registered, vm, maker>>
  BY <1>1 DEF Goto, result, world, SafeInv, TypeInv, TypeOK
<1>6. Makers'
  BY <1>3, <1>4, <1>5 DEF Makers, MakerInv, Holds
<1>7. ASSUME NEW q \in Procs, pc'[q] \in LockedSteps, Op(q)' = "create"
      PROVE  OwnMaker(q)'
  <2>1. Op(q) = "create"
    BY <1>5, <1>7 DEF Op
  <2>2. CASE q = p
    <3>1. pc'[p] = "create_exists"
      BY <1>5, <2>1, <2>2 DEF FirstStep, Op
    <3>2. ~registered[p]
      BY <1>1 DEF SafeInv, QuietInv, QuietSteps, At
    <3> QED
      BY <1>4, <1>5, <2>2, <3>1, <3>2 DEF OwnMaker, At, Name, Instance
  <2>3. CASE q # p
    <3>1. OwnMaker(q)
      BY <1>5, <1>7, <2>1, <2>3, MakerInvParts
    <3> QED
      BY <1>5, <2>3, <3>1 DEF OwnMaker, At, Instance, Name
  <2> QED
    BY <2>2, <2>3
<1> QED
  BY <1>6, <1>7

\* Contexts that end and instances that settle change no maker, unless the
\* instance goes, which a reported one does not.
LEMMA BesideMakerInv ==
  ASSUME Undisturbed, SafeInv, CallInv, MakerInv,
         \/ \E p \in Procs : Expire(p)
         \/ \E n \in Names : Settle(n) \/ User(n)
         \/ UNCHANGED vars
  PROVE  /\ Makers'
         /\ \A q \in Procs : pc'[q] \in LockedSteps /\ Op(q)' = "create" => OwnMaker(q)'
<1>0. Makers /\ \A q \in Procs : pc[q] \in LockedSteps /\ Op(q) = "create" => OwnMaker(q)
  BY MakerInvParts
<1>1. ASSUME NEW p \in Procs, Expire(p)
      PROVE  /\ Makers'
             /\ \A q \in Procs : pc'[q] \in LockedSteps /\ Op(q)' = "create" => OwnMaker(q)'
  <2>1. /\ \A q \in Procs : expired[q] => expired'[q]
        /\ UNCHANGED <<pc, call, err, registered, vm, maker, holder>>
    BY <1>1 DEF Expire, args, result, world, SafeInv, TypeInv, TypeOK
  <2> QED
    BY <1>0, <2>1 DEF Makers, Holds, OwnMaker, At, Op, Name, Instance
<1>2. ASSUME NEW n \in Names, Settle(n)
      PROVE  /\ Makers'
             /\ \A q \in Procs : pc'[q] \in LockedSteps /\ Op(q)' = "create" => OwnMaker(q)'
  <2>1. /\ vm' = [vm EXCEPT ![n] = Settled(vm[n])]
        /\ maker' = [maker EXCEPT ![n] = IF Listed(vm'[n]) THEN maker[n] ELSE NoProc]
        /\ UNCHANGED <<pc, call, err, registered, expired, holder>>
    BY <1>2 DEF Settle, args, result
  <2>2. /\ \A m \in Names \ {n} : vm'[m] = vm[m] /\ maker'[m] = maker[m]
        /\ maker'[n] = IF Listed(vm'[n]) THEN maker[n] ELSE NoProc
        /\ vm'[n] = Settled(vm[n])
    BY <2>1 DEF SafeInv, TypeInv, TypeOK
  <2>3. Makers'
    BY <1>0, <2>1, <2>2 DEF Makers, Holds
  <2>4. Listed(vm'[n]) => Listed(vm[n])
    BY <2>2 DEF Settled, Listed, Absent
  <2>5. ASSUME NEW q \in Procs, pc'[q] \in LockedSteps, Op(q)' = "create"
        PROVE  OwnMaker(q)'
    <3>1. OwnMaker(q) /\ Name(q) \in Names /\ q # NoProc
      BY <1>0, <2>1, <2>5, LockedCall, NoProcAssumption DEF Op, SafeInv
    <3>2. registered[q] => Listed(vm'[Name(q)])
      <4>1. CallInv'
        BY <1>2, BesideCallInv
      <4>2. Local(pc'[q], call'[q], before'[q], Instance(q)', err'[q], registered'[q],
                  editing'[q], expired'[q])
        BY <2>5, <4>1 DEF CallInv
      <4>3. call'[q] \in CallRecords /\ registered[q] \in BOOLEAN
        BY <2>1, <2>5, Now
      <4> QED
        BY <2>1, <4>2, <4>3, RegisteredListed DEF Instance, Name
    <3>3. UNCHANGED <<pc, call, err, registered, expired>> /\ Name(q)' = Name(q)
      BY <2>1 DEF Name
    <3>4. CASE Name(q) = n
      BY <2>2, <2>4, <3>1, <3>2, <3>3, <3>4 DEF OwnMaker, At, Instance
    <3>5. CASE Name(q) # n
      BY <2>2, <3>1, <3>3, <3>5 DEF OwnMaker, At, Instance
    <3> QED
      BY <3>4, <3>5
  <2> QED
    BY <2>3, <2>5
<1>3. ASSUME NEW n \in Names PROVE ~User(n)
  BY DEF User, UserOutcomes, Undisturbed
<1>4. CASE UNCHANGED vars
  BY <1>0, <1>4 DEF vars, Makers, Holds, OwnMaker, At, Op, Name, Instance
<1> QED
  BY <1>1, <1>2, <1>3, <1>4

\* MakerInv is inductive, relative to SafeInv and CallInv.
LEMMA NextMakerInv ==
  Undisturbed /\ SafeInv /\ CallInv /\ MakerInv /\ [Next]_vars => MakerInv'
<1> SUFFICES ASSUME Undisturbed, SafeInv, CallInv, MakerInv, [Next]_vars
             PROVE  MakerInv'
  OBVIOUS
<1>1. SafeInv'
  BY NextSafeInv
<1>2. /\ Makers'
      /\ \A q \in Procs : pc'[q] \in LockedSteps /\ Op(q)' = "create" => OwnMaker(q)'
  BY CommandMakerInv, ServiceMakerInv, UnlockMakerInv, LockMakerInv, BesideMakerInv
     DEF Next, Locking, Step
<1>3. \A q \in Procs : (At(q, "unlock") => pc[q] \in LockedSteps)'
  BY DEF At, LockedSteps, Steps, SetupSteps
<1> QED
  BY <1>2, <1>3 DEF MakerInv, Makers, OwnMaker, LeftoverReported, Creating

\* MakerInv is invariant in an undisturbed home.
LEMMA MakerInvHolds == Undisturbed => (Spec => []MakerInv)
<1> SUFFICES ASSUME Undisturbed PROVE Spec => []MakerInv
  OBVIOUS
<1>1. SafeInv /\ CallInv /\ MakerInv /\ [Next]_vars => MakerInv'
  BY NextMakerInv
<1> QED
  BY <1>1, InitMakerInv, SafeInvHolds, CallInvHolds, PTL DEF Spec

\* A create reports an instance as registered only when it registered it itself,
\* and reports what it leaves behind when it fails with its context still live.
THEOREM LeftoversAreReported == Undisturbed => (Spec => []LeftoverReported)
<1> SUFFICES ASSUME Undisturbed PROVE Spec => []LeftoverReported
  OBVIOUS
<1>1. MakerInv => LeftoverReported
  BY DEF MakerInv
<1> QED
  BY <1>1, MakerInvHolds, PTL

-----------------------------------------------------------------------------
(* The home's first initialisation.                                        *)

\* What KeypairInv says of the call of p.
OwnKeypair(p) ==
  /\ At(p, "create_keygen") => ~keypair
  /\ pc[p] \in LockedSteps \cup {"lock"} /\ Op(p) = "create" => Holds(p, Home) \/ keypair
  /\ registered[p] => keypair
  /\ At(p, "create_recheck") /\ Listed(Instance(p)) => keypair

\* KeypairInv, call by call.
LEMMA KeypairInvParts == KeypairInv <=> (sharedReady => keypair) /\ \A p \in Procs : OwnKeypair(p)
BY DEF KeypairInv, OwnKeypair

\* At first no create is under way.
LEMMA InitKeypairInv == Init => KeypairInv
BY DEF Init, KeypairInv, LockedSteps, At

\* Only ssh-keygen makes the keypair.
LEMMA KeypairSteady ==
  ASSUME NEW p \in Procs, Command(p), ~CreateKeygen(p)
  PROVE  keypair' = keypair
BY DEF Command, CreateExists, CreateValidate, CreateRun, CreateRecheck,
       CreateWait, CreateProtect, CreateInspect, StartInspect, StartRun, StartDegraded,
       StartWait, StopInspect, StopRun, StopWait, ResizeInspect, EditRun, ProtectInspect,
       ProtectRun, DeleteInspect, DeleteRun, DeleteWait, WaitForStatus, WaitForAbsence, Polls,
       Service

\* Where limactl create leads, and what it needs to have made an instance.
LEMMA CreatedKeypair ==
  ASSUME SafeInv, NEW p \in Procs, pc[p] \in LockedSteps, NEW outs, Created(p, outs),
         Op(p) = "create", Sound(outs)
  PROVE  /\ pc'[p] \in {"create_wait", "create_recheck"}
         /\ expired[p] => ~registered'[p] /\ vm'[Name(p)] = Instance(p)
<1>1. PICK o \in Ends(p, outs) :
        /\ Runs(p, o)
        /\ registered' = [registered EXCEPT ![p] = (o.exit = "ok")]
        /\ IF o.exit = "ok" THEN Goto(p, "create_wait") /\ UNCHANGED err
           ELSE Goto(p, "create_recheck") /\ Fail(p, o.exit)
  BY DEF Created
<1>2. o.vm \in Instances
  BY LockedCall, EndsSound DEF Sound, SafeInv
<1>3. vm'[Name(p)] = o.vm
  BY <1>1, <1>2, Gives
<1>4. registered'[p] <=> o.exit = "ok"
  BY <1>1 DEF SafeInv, TypeInv, TypeOK
<1>5. expired[p] => o.exit = "timeout" /\ o.vm = Instance(p)
  BY <1>1, EndsForms
<1>6. pc'[p] \in {"create_wait", "create_recheck"}
  BY <1>1 DEF Goto, SafeInv, TypeInv, TypeOK
<1> QED
  BY <1>3, <1>4, <1>5, <1>6

\* A create turns to ssh-keygen only without a keypair.
LEMMA CreateRunKeypair ==
  ASSUME SafeInv, CallInv, KeypairInv, NEW p \in Procs, CreateRun(p)
  PROVE  OwnKeypair(p)'
<1>1. At(p, "create_run") /\ pc[p] \in LockedSteps
  BY DEF CreateRun, At, LockedSteps, Steps, SetupSteps
<1>2. Op(p) = "create" /\ Instance(p) \in Instances /\ call[p].config \in Configs
  BY <1>1, StepOp, LockedCall DEF SafeInv, At
<1>3. ~Listed(Instance(p)) /\ ~registered[p]
  BY <1>1, <1>2, Now DEF LocalNow, Local, CreateLocal, Op, StartSteps, At
<1>4. /\ Op(p)' = "create" /\ Instance(p)' = vm'[Name(p)]
      /\ UNCHANGED <<keypair, holder>>
  BY <1>2 DEF CreateRun, args, Op, Instance, Name
<1>5. Holds(p, Home) \/ keypair
  BY <1>1, <1>2 DEF KeypairInv
<1>6. CASE keypair \/ expired[p]
  <2>1. /\ pc'[p] \in {"create_wait", "create_recheck"}
        /\ expired[p] => ~registered'[p] /\ vm'[Name(p)] = Instance(p)
    BY <1>1, <1>2, <1>6, CreatedKeypair, OutcomesSound DEF CreateRun
  <2> QED
    BY <1>3, <1>4, <1>5, <1>6, <2>1 DEF OwnKeypair, At, Holds
<1>7. CASE ~(keypair \/ expired[p])
  <2>1. pc'[p] = "create_keygen" /\ registered' = registered
    BY <1>7 DEF CreateRun, Goto, SafeInv, TypeInv, TypeOK
  <2> QED
    BY <1>3, <1>4, <1>5, <1>7, <2>1 DEF OwnKeypair, At, Holds
<1> QED
  BY <1>6, <1>7

\* After ssh-keygen there is one, unless the context had ended.
LEMMA CreateKeygenKeypair ==
  ASSUME SafeInv, CallInv, KeypairInv, NEW p \in Procs, CreateKeygen(p)
  PROVE  OwnKeypair(p)'
<1>1. At(p, "create_keygen") /\ pc[p] \in LockedSteps
  BY DEF CreateKeygen, At, LockedSteps, Steps, SetupSteps
<1>2. Op(p) = "create" /\ Instance(p) \in Instances /\ call[p].config \in Configs
  BY <1>1, StepOp, LockedCall DEF SafeInv, At
<1>3. ~Listed(Instance(p)) /\ ~keypair
  BY <1>1, <1>2, Now DEF LocalNow, Local, CreateLocal, Op, At, KeypairInv
<1>4. /\ Instance(p)' = vm'[Name(p)] /\ holder' = holder
      /\ keypair' = (keypair \/ ~expired[p])
  BY DEF CreateKeygen, args, Instance, Name
<1>5. Holds(p, Home)
  BY <1>1, <1>2, <1>3 DEF KeypairInv
<1>6. /\ pc'[p] \in {"create_wait", "create_recheck"}
      /\ expired[p] => ~registered'[p] /\ vm'[Name(p)] = Instance(p)
  BY <1>1, <1>2, <1>3, CreatedKeypair, OutcomesSound DEF CreateKeygen
<1> QED
  BY <1>3, <1>4, <1>5, <1>6 DEF OwnKeypair, At, Holds

\* An instance that is there has needed one.
LEMMA CreateRecheckKeypair ==
  ASSUME Undisturbed, SafeInv, KeypairInv, NEW p \in Procs, CreateRecheck(p)
  PROVE  OwnKeypair(p)'
<1>1. At(p, "create_recheck") /\ pc[p] \in LockedSteps
  BY DEF CreateRecheck, At, LockedSteps, Steps, SetupSteps
<1>2. Op(p) = "create"
  BY <1>1, StepOp DEF SafeInv, At
<1>3. PICK o \in Inspections(p) :
        registered' = [registered EXCEPT ![p] = (o.exit = "ok")]
  BY DEF CreateRecheck
<1>4. o.exit = "ok" => Listed(Instance(p))
  BY InspectionTells
<1>5. registered'[p] => keypair
  BY <1>1, <1>3, <1>4 DEF SafeInv, TypeInv, TypeOK, KeypairInv
<1>6. pc'[p] = "unlock" /\ UNCHANGED <<keypair, holder>>
  BY DEF CreateRecheck, Goto, SafeInv, TypeInv, TypeOK
<1> QED
  BY <1>1, <1>2, <1>5, <1>6 DEF OwnKeypair, At, Holds, KeypairInv

\* No other command leads to ssh-keygen or reports an instance.
LEMMA OtherKeypair ==
  ASSUME SafeInv, KeypairInv, NEW p \in Procs, Command(p),
         ~CreateRun(p), ~CreateKeygen(p), ~CreateRecheck(p)
  PROVE  OwnKeypair(p)'
<1>1. CommandFrame(p) /\ pc[p] \in LockedSteps
  BY CommandFramed DEF SafeInv, CommandFrame
<1>2. keypair' = keypair /\ holder' = holder /\ Op(p)' = Op(p)
  BY <1>1, KeypairSteady DEF CommandFrame, Op
<1>3. registered' = registered
  BY DEF Command, CreateExists, CreateValidate,
         CreateWait, CreateProtect, CreateInspect, StartInspect, StartRun, StartDegraded,
         StartWait, StopInspect, StopRun, StopWait, ResizeInspect, EditRun, ProtectInspect,
         ProtectRun, DeleteInspect, DeleteRun, DeleteWait, WaitForStatus, WaitForAbsence,
         Polls, Service
<1>4. pc'[p] \notin {"create_keygen", "create_recheck"}
  <2>1. pc'[p] \in {"create_validate", "create_run", "create_protect", "create_inspect",
                    "start_inspect", "start_run", "start_degraded", "start_wait",
                    "stop_inspect", "stop_run", "stop_wait", "edit_run", "protect_run",
                    "delete_run", "delete_wait", "unlock", pc[p]}
    <3> USE DEF Goto, OnSuccess, SafeInv, TypeInv, TypeOK
    <3>1. CASE CreateExists(p) \/ CreateValidate(p) \/ CreateProtect(p) \/ CreateInspect(p)
      BY <3>1 DEF CreateExists, CreateValidate, CreateProtect, CreateInspect
    <3>2. CASE CreateWait(p) \/ StartWait(p) \/ StopWait(p) \/ DeleteWait(p)
      BY <3>2 DEF CreateWait, StartWait, StopWait, DeleteWait, WaitForStatus, WaitForAbsence,
                  Polls, AfterStart, AfterCreate, AfterStop
    <3>3. CASE StartInspect(p) \/ StartRun(p) \/ StartDegraded(p) \/ StopInspect(p) \/ StopRun(p)
      BY <3>3 DEF StartInspect, StartRun, StartDegraded, StopInspect, StopRun, AfterStart,
                  AfterStop
    <3>4. CASE ResizeInspect(p) \/ EditRun(p)
      BY <3>4 DEF ResizeInspect, EditRun, RunState, AfterEdit
    <3>5. CASE ProtectInspect(p) \/ ProtectRun(p) \/ DeleteInspect(p) \/ DeleteRun(p)
      BY <3>5 DEF ProtectInspect, ProtectRun, DeleteInspect, DeleteRun
    <3> QED
      BY <3>1, <3>2, <3>3, <3>4, <3>5 DEF Command
  <2>2. pc[p] \notin {"create_keygen", "create_recheck"}
    BY DEF Command, CreateExists, CreateValidate, CreateRun, CreateKeygen, CreateRecheck,
           CreateWait, CreateProtect, CreateInspect, StartInspect, StartRun, StartDegraded,
           StartWait, StopInspect, StopRun, StopWait, ResizeInspect, EditRun, ProtectInspect,
           ProtectRun, DeleteInspect, DeleteRun, DeleteWait, At
  <2> QED
    BY <2>1, <2>2
<1> QED
  BY <1>1, <1>2, <1>3, <1>4 DEF OwnKeypair, At, Holds, KeypairInv

\* A command keeps KeypairInv: no second create is at ssh-keygen, as the home's
\* lock has one holder.
LEMMA CommandKeypairInv ==
  ASSUME Undisturbed, SafeInv, CallInv, KeypairInv, NEW p \in Procs, Command(p)
  PROVE  KeypairInv'
<1>1. CommandFrame(p) /\ pc[p] \in LockedSteps
  BY CommandFramed DEF SafeInv, CommandFrame
<1>2. keypair => keypair'
  BY KeypairSteady DEF CreateKeygen
<1>3. OwnKeypair(p)'
  BY CreateRunKeypair, CreateKeygenKeypair, CreateRecheckKeypair, OtherKeypair
<1>4. ASSUME NEW q \in Procs, q # p PROVE OwnKeypair(q)'
  <2>1. /\ pc'[q] = pc[q] /\ call' = call /\ registered'[q] = registered[q] /\ holder' = holder
    BY <1>1, <1>4 DEF CommandFrame, PcFrame, ResultFrame
  <2>2. pc[q] \in LockedSteps => Instance(q)' = Instance(q)
    BY <1>1, <1>4, <2>1, LocksApart DEF CommandFrame, WorldFrame, Instance, Name
  <2>3. At(q, "create_keygen") => ~keypair'
    <3>1. CASE CreateKeygen(p)
      <4>1. At(p, "create_keygen") /\ At(q, "create_keygen")
              => Op(p) = "create" /\ Op(q) = "create" /\ pc[q] \in LockedSteps
        BY <1>1, StepOp DEF SafeInv, At, LockedSteps, Steps, SetupSteps
      <4> QED
        BY <1>1, <1>4, <3>1, <4>1 DEF CreateKeygen, KeypairInv, Holds
    <3>2. CASE ~CreateKeygen(p)
      BY <3>2, KeypairSteady DEF KeypairInv
    <3> QED
      BY <3>1, <3>2
  <2>4. OwnKeypair(q)
    BY KeypairInvParts
  <2>5. pc[q] = "create_recheck" => pc[q] \in LockedSteps
    BY DEF LockedSteps, Steps, SetupSteps
  <2> QED
    BY <1>2, <2>1, <2>2, <2>3, <2>4, <2>5 DEF OwnKeypair, At, Op, Holds
<1>5. sharedReady' = sharedReady
  BY <1>1 DEF CommandFrame
<1> QED
  BY <1>2, <1>3, <1>4, <1>5 DEF KeypairInv, OwnKeypair

\* The steps of p beside its commands, and what they do to the home's lock.
LEMMA ServiceKeypairInv ==
  ASSUME SafeInv, KeypairInv, NEW p \in Procs,
         \/ \E c \in Calls : Begin(p, c)
         \/ SetupReady(p) \/ SetupLock(p) \/ SetupRefused(p) \/ SetupRecheck(p)
         \/ SetupMark(p) \/ SetupUnlock(p) \/ LockRefused(p) \/ Unlock(p)
  PROVE  KeypairInv'
<1>1. OthersStay(p) /\ pc'[p] \notin LockedSteps
  BY OwnSteps
<1>2. keypair' = keypair
  BY DEF Begin, SetupReady, SetupLock, SetupRefused, SetupRecheck, SetupMark, SetupUnlock,
         LockRefused, Unlock, world
<1>3. holder[Home] \notin {p, NoProc} => holder'[Home] = holder[Home]
  <2>1. Unlock(p) => Name(p) \in Names
    <3>1. Unlock(p) => pc[p] \in LockedSteps
      BY DEF Unlock, At, LockedSteps, Steps, SetupSteps
    <3> QED
      BY <3>1, LockedCall DEF SafeInv
  <2>2. CASE Unlock(p)
    BY <2>1, <2>2, KeysAssumption DEF Unlock, Release, SafeInv, TypeInv, TypeOK, LockTypeOK
  <2>3. CASE ~Unlock(p)
    BY <2>3 DEF Begin, SetupReady, SetupLock, SetupRefused, SetupRecheck, SetupMark,
                SetupUnlock, LockRefused, Acquire, Release, Holds
  <2> QED
    BY <2>2, <2>3
<1>4. /\ registered'[p] => keypair
      /\ sharedReady' => keypair
  <2> USE DEF KeypairInv, SafeInv, TypeInv, TypeOK
  <2>1. ASSUME NEW c \in Calls, Begin(p, c)
        PROVE  (registered'[p] => keypair) /\ (sharedReady' => keypair)
    BY <2>1 DEF Begin, result
  <2>2. CASE SetupReady(p) \/ SetupLock(p) \/ SetupRecheck(p) \/ SetupMark(p)
    BY <2>2 DEF SetupReady, SetupLock, SetupRecheck, SetupMark, result
  <2>3. CASE SetupRefused(p) \/ SetupUnlock(p) \/ LockRefused(p) \/ Unlock(p)
    BY <2>3 DEF SetupRefused, SetupUnlock, LockRefused, Unlock, Return, result
  <2> QED
    BY <2>1, <2>2, <2>3
<1>5. pc'[p] = "lock" /\ Op(p)' = "create" => holder'[Home] = p \/ keypair
  <2> USE DEF SafeInv, TypeInv, TypeOK, Goto
  <2>1. ASSUME NEW c \in Calls, Begin(p, c), pc'[p] = "lock" PROVE Op(p)' # "create"
    BY <2>1 DEF Begin, Op
  <2>2. CASE SetupReady(p)
    BY <2>2 DEF SetupReady, KeypairInv
  <2>3. CASE SetupLock(p) \/ SetupMark(p)
    BY <2>3 DEF SetupLock, SetupMark
  <2>4. CASE SetupRecheck(p)
    BY <2>4 DEF SetupRecheck, HomeLockInv, Holds, At, KeypairInv
  <2>5. CASE SetupRefused(p) \/ SetupUnlock(p) \/ LockRefused(p) \/ Unlock(p)
    BY <2>5 DEF SetupRefused, SetupUnlock, LockRefused, Unlock, Return
  <2> QED
    BY <2>1, <2>2, <2>3, <2>4, <2>5
<1>6. OwnKeypair(p)'
  <2>1. "create_keygen" \in LockedSteps /\ "create_recheck" \in LockedSteps
    BY DEF LockedSteps, Steps, SetupSteps
  <2> QED
    BY <1>1, <1>2, <1>4, <1>5, <2>1 DEF OwnKeypair, At, Holds
<1>7. ASSUME NEW q \in Procs, q # p PROVE OwnKeypair(q)'
  <2>1. /\ pc'[q] = pc[q] /\ call'[q] = call[q] /\ registered'[q] = registered[q] /\ vm' = vm
    BY <1>1, <1>7 DEF OthersStay
  <2>2. OwnKeypair(q) /\ q # NoProc
    BY KeypairInvParts, NoProcAssumption
  <2> QED
    BY <1>2, <1>3, <1>7, <2>1, <2>2 DEF OwnKeypair, At, Op, Holds, Instance, Name
<1> QED
  BY <1>2, <1>4, <1>6, <1>7, KeypairInvParts DEF KeypairInv, OwnKeypair

\* Taking the instance's lock changes nothing of the home's.
LEMMA LockKeypairInv ==
  ASSUME SafeInv, KeypairInv, NEW p \in Procs, LockInstance(p)
  PROVE  KeypairInv'
<1>1. /\ At(p, "lock") /\ Goto(p, FirstStep(call[p])) /\ Acquire(p, Name(p))
      /\ UNCHANGED <<call, expired, result, sharedReady, world>>
  BY DEF LockInstance
<1>2. Name(p) \in Names /\ Op(p) \in CallOps /\ call[p] \in CallRecords
  BY <1>1, LockedCall DEF SafeInv, At
<1>3. holder'[Home] = holder[Home]
  BY <1>1, <1>2, KeysAssumption DEF Acquire, SafeInv, TypeInv, TypeOK, LockTypeOK
<1>4. /\ \A q \in Procs \ {p} : pc'[q] = pc[q]
      /\ pc'[p] = FirstStep(call[p])
      /\ UNCHANGED <<call, sharedReady, registered, vm, keypair>>
  BY <1>1 DEF Goto, result, world, SafeInv, TypeInv, TypeOK
<1>5. FirstStep(call[p]) \in {"create_exists", "resize_inspect", "start_inspect",
                              "stop_inspect", "protect_inspect", "delete_inspect"}
  BY <1>2 DEF FirstStep, RunState, Op, CallOps
<1>6. \A q \in Procs : OwnKeypair(q)
  BY KeypairInvParts
<1>7. OwnKeypair(p)'
  BY <1>1, <1>3, <1>4, <1>5, <1>6 DEF OwnKeypair, At, Op, Holds
<1>8. ASSUME NEW q \in Procs, q # p PROVE OwnKeypair(q)'
  BY <1>3, <1>4, <1>6, <1>8 DEF OwnKeypair, At, Op, Holds, Instance, Name
<1> QED
  BY <1>4, <1>7, <1>8 DEF KeypairInv, OwnKeypair

\* Contexts that end and instances that settle keep KeypairInv.
LEMMA BesideKeypairInv ==
  ASSUME Undisturbed, SafeInv, KeypairInv,
         \/ \E p \in Procs : Expire(p)
         \/ \E n \in Names : Settle(n) \/ User(n)
         \/ UNCHANGED vars
  PROVE  KeypairInv'
<1>1. ASSUME NEW n \in Names, Settle(n) PROVE KeypairInv'
  <2>1. /\ vm' = [vm EXCEPT ![n] = Settled(vm[n])]
        /\ UNCHANGED <<pc, call, registered, sharedReady, keypair, holder>>
    BY <1>1 DEF Settle, args, result
  <2>2. Listed(Settled(vm[n])) => Listed(vm[n])
    BY DEF Settled, Listed, Absent
  <2>3. \A q \in Procs : pc[q] = "create_recheck" /\ Listed(Instance(q)') => Listed(Instance(q))
    <3> SUFFICES ASSUME NEW q \in Procs, pc[q] = "create_recheck", Listed(Instance(q)')
                 PROVE  Listed(Instance(q))
      OBVIOUS
    <3>1. Name(q) \in Names
      BY LockedCall DEF SafeInv, LockedSteps, Steps, SetupSteps
    <3>2. CASE Name(q) = n
      BY <2>1, <2>2, <3>1, <3>2 DEF Instance, Name, SafeInv, TypeInv
    <3>3. CASE Name(q) # n
      BY <2>1, <3>1, <3>3 DEF Instance, Name, SafeInv, TypeInv
    <3> QED
      BY <3>2, <3>3
  <2> QED
    BY <2>1, <2>3 DEF KeypairInv, At, Op, Holds
<1>2. ASSUME NEW p \in Procs, Expire(p) PROVE KeypairInv'
  BY <1>2 DEF Expire, args, result, world, KeypairInv, At, Op, Holds, Instance, Name
<1>3. ASSUME NEW n \in Names PROVE ~User(n)
  BY DEF User, UserOutcomes, Undisturbed
<1>4. CASE UNCHANGED vars
  BY <1>4 DEF vars, KeypairInv, At, Op, Holds, Instance, Name
<1> QED
  BY <1>1, <1>2, <1>3, <1>4

\* KeypairInv is inductive, relative to SafeInv and CallInv.
LEMMA NextKeypairInv ==
  Undisturbed /\ SafeInv /\ CallInv /\ KeypairInv /\ [Next]_vars => KeypairInv'
BY CommandKeypairInv, ServiceKeypairInv, LockKeypairInv, BesideKeypairInv
   DEF Next, Locking, Step

\* No two creates are inside Lima's first-use initialisation at once: a home that
\* has no keypair yet lets one create at a time reach ssh-keygen, and only while
\* there is none to overwrite.
THEOREM InitialisedOnce == Undisturbed => (Spec => []OneInitialisation)
<1> SUFFICES ASSUME Undisturbed PROVE Spec => []OneInitialisation
  OBVIOUS
<1>1. SafeInv /\ CallInv /\ KeypairInv /\ [Next]_vars => KeypairInv'
  BY NextKeypairInv
<1>2. KeypairInv => OneInitialisation
  BY DEF KeypairInv, OneInitialisation
<1> QED
  BY <1>1, <1>2, InitKeypairInv, SafeInvHolds, CallInvHolds, PTL DEF Spec

-----------------------------------------------------------------------------
(* What a step may never do to an instance.                                *)

\* An instance changes by a command of the call that has its lock, or by itself.
LEMMA WhoChanges ==
  ASSUME Undisturbed, SafeInv, [Next]_vars, NEW n \in Names, vm'[n] # vm[n]
  PROVE  \/ vm'[n] = Settled(vm[n])
         \/ \E p \in Procs : Command(p) /\ Name(p) = n
<1>1. CASE UNCHANGED vars
  BY <1>1 DEF vars
<1>2. ASSUME NEW m \in Names, Settle(m) PROVE vm'[n] = Settled(vm[n])
  BY <1>2 DEF Settle, SafeInv, TypeInv
<1>3. ASSUME NEW m \in Names PROVE ~User(m)
  BY DEF User, UserOutcomes, Undisturbed
<1>4. ASSUME NEW p \in Procs, Command(p) PROVE Name(p) = n
  <2>1. CommandFrame(p)
    BY <1>4, CommandFramed DEF SafeInv
  <2> QED
    BY <2>1 DEF CommandFrame, WorldFrame
<1>5. ASSUME NEW p \in Procs, LockInstance(p) \/ Expire(p) PROVE FALSE
  BY <1>5 DEF LockInstance, Expire, world
<1>6. ASSUME NEW p \in Procs,
             \/ \E c \in Calls : Begin(p, c)
             \/ SetupReady(p) \/ SetupLock(p) \/ SetupRefused(p) \/ SetupRecheck(p)
             \/ SetupMark(p) \/ SetupUnlock(p) \/ LockRefused(p) \/ Unlock(p)
      PROVE  FALSE
  BY <1>6, OwnSteps DEF OthersStay
<1> QED
  BY <1>1, <1>2, <1>3, <1>4, <1>5, <1>6 DEF Next, Locking, Step

\* The goroutine that has an instance's lock is the one whose command changes it.
LEMMA HeldCommands ==
  ASSUME SafeInv, NEW p \in Procs, Held(p), Name(p) \in Names
  PROVE  /\ pc[p] \in LockedSteps
         /\ \A q \in Procs : Command(q) /\ Name(q) = Name(p) => q = p
<1>1. pc[p] \in LockedSteps
  BY DEF Held, SafeInv, InstanceLockInv
<1>2. ASSUME NEW q \in Procs, Command(q), Name(q) = Name(p) PROVE q = p
  <2>1. pc[q] \in LockedSteps
    BY <1>2, CommandFramed DEF SafeInv, CommandFrame
  <2> QED
    BY <1>1, <1>2, <2>1, LocksApart
<1> QED
  BY <1>1, <1>2

\* A resize that holds a lock has a call.
LEMMA HeldName ==
  ASSUME SafeInv, NEW p \in Procs, Held(p), Op(p) = "resize"
  PROVE  Name(p) \in Names /\ call[p] \in CallRecords
<1>1. call[p] \in CallRecords
  BY CallsAssumption DEF Held, SafeInv, TypeInv, TypeOK, At
<1> QED
  BY <1>1 DEF CallRecords, Name

\* The commands of a resize that change the run state.
LEMMA ResizeRunState ==
  ASSUME Undisturbed, SafeInv, CallInv, NEW p \in Procs, Command(p), Op(p) = "resize"
  PROVE  LET v == Instance(p)
             w == vm'[Name(p)]
         IN /\ ~Running(v) /\ Running(w)
                 => At(p, "start_run") /\ Usable(v) /\ w.config = v.config
            /\ Running(v) /\ ~Running(w) => At(p, "stop_run")
<1> DEFINE v == Instance(p)
           w == vm'[Name(p)]
<1>1. pc[p] \in LockedSteps
  BY CommandFramed DEF SafeInv, CommandFrame
<1>2. pc[p] \in {"resize_inspect", "edit_run", "unlock"} \cup StartSteps \cup StopSteps
  BY <1>1 DEF SafeInv, TypeInv, CallSteps, CommandSteps
<1>3. /\ Name(p) \in Names /\ v \in Instances /\ call[p] \in CallRecords
      /\ call[p].config \in Configs
  <2>1. Name(p) \in Names /\ v \in Instances /\ call[p] \in CallRecords
    BY <1>1, LockedCall DEF SafeInv
  <2> QED
    BY <2>1 DEF CallRecords, Op
<1>4. \/ ResizeInspect(p) \/ StartInspect(p) \/ StartDegraded(p) \/ StartWait(p)
      \/ StopInspect(p) \/ StopWait(p)
      \/ EditRun(p) \/ StartRun(p) \/ StopRun(p)
  BY <1>2 DEF Command, CreateExists, CreateValidate, CreateRun, CreateKeygen, CreateRecheck,
         CreateWait, CreateProtect, CreateInspect, ProtectInspect,
         ProtectRun, DeleteInspect, DeleteRun, DeleteWait, At, StartSteps, StopSteps
<1>5. CASE ResizeInspect(p) \/ StartInspect(p) \/ StartDegraded(p) \/ StartWait(p)
             \/ StopInspect(p) \/ StopWait(p)
  <2>1. \E o \in Inspections(p) : Runs(p, o)
    BY <1>5 DEF ResizeInspect, StartInspect, StartDegraded, StartWait, StopInspect, StopWait,
                WaitForStatus, Polls
  <2>2. w = v
    BY <1>1, <1>3, <2>1, InspectionTells, Gives
  <2> QED
    BY <2>2
<1>6. CASE EditRun(p)
  <2>1. PICK o \in Ends(p, EditOutcomes(v, call[p].config)) : Runs(p, o)
    BY <1>6 DEF EditRun
  <2>2. o.vm = v \/ (Usable(v) /\ ~Running(v) /\ o.vm = [v EXCEPT !.config = call[p].config])
    BY <2>1, EndsForms, EditForms
  <2>3. o.vm \in Instances
    BY <1>3, <2>2, InstanceForms
  <2>4. w = o.vm
    BY <1>1, <2>1, <2>3, Gives
  <2>5. [v EXCEPT !.config = call[p].config].status = v.status
    BY <1>3, Fields
  <2> QED
    BY <2>2, <2>4, <2>5 DEF Running
<1>7. CASE StartRun(p)
  <2>1. \/ w = v
        \/ Usable(v) /\ w \in {[v EXCEPT !.status = "running"], [v EXCEPT !.status = "broken"]}
    BY <1>7, StartRunStep
  <2>2. /\ [v EXCEPT !.status = "running"].config = v.config
        /\ [v EXCEPT !.status = "broken"].config = v.config
    BY <1>3, Fields
  <2>3. ~Running(v)
    BY <1>7, CallInvInspection DEF InspectionStillTrue, StartRun
  <2> QED
    BY <1>7, <2>1, <2>2, <2>3 DEF StartRun
<1>8. CASE StopRun(p)
  <2>1. PICK o \in Ends(p, StopOutcomes(v)) : Runs(p, o)
    BY <1>8 DEF StopRun
  <2>2. o.vm = v \/ (Running(v) /\ o.vm = [v EXCEPT !.status = "stopped"])
    BY <2>1, EndsForms, StopForms
  <2>3. o.vm \in Instances
    BY <1>3, <2>2, InstanceForms DEF Running, Listed
  <2>4. w = o.vm
    BY <1>1, <2>1, <2>3, Gives
  <2> QED
    BY <1>8, <2>2, <2>4 DEF StopRun
<1> QED
  BY <1>4, <1>5, <1>6, <1>7, <1>8

\* What a resize knows when it is about to start or stop.
LEMMA ResizeKnows ==
  ASSUME SafeInv, CallInv, NEW p \in Procs, Op(p) = "resize"
  PROVE  /\ At(p, "start_run") /\ Usable(Instance(p)) => Instance(p).config = call[p].config
         /\ At(p, "stop_run") => Instance(p).config # call[p].config \/ ~call[p].want
<1> SUFFICES ASSUME pc[p] \in {"start_run", "stop_run"}
             PROVE  /\ At(p, "start_run") /\ Usable(Instance(p))
                         => Instance(p).config = call[p].config
                    /\ At(p, "stop_run")
                         => Instance(p).config # call[p].config \/ ~call[p].want
  BY DEF At
<1>1. pc[p] \in LockedSteps
  BY DEF LockedSteps, Steps, SetupSteps
<1>2. /\ ResizeLocal(pc[p], call[p], before[p], Instance(p), err[p], editing[p], expired[p])
      /\ before[p] \in Instances /\ Instance(p) \in Instances
  BY <1>1, Now DEF LocalNow, Local, Op
<1>3. CASE editing[p]
  BY <1>2, <1>3 DEF ResizeLocal, EditLocal, Edited, At, StartSteps, StopSteps
<1>4. CASE ~editing[p]
  <2>1. /\ before[p].config = call[p].config
        /\ pc[p] = "start_run" => Untouched(before[p], Instance(p))
        /\ pc[p] = "stop_run" => ~call[p].want
    BY <1>2, <1>4 DEF ResizeLocal, RunLocal, StopSteps
  <2>2. Usable(Instance(p)) => Listed(Instance(p))
    BY DEF Usable, Listed
  <2> QED
    BY <1>2, <2>1, <2>2, UntouchedFacts DEF At
<1> QED
  BY <1>3, <1>4

\* Settling starts and stops nothing.
LEMMA SettledRunning == \A v : Running(Settled(v)) <=> Running(v)
BY DEF Settled, Running, Absent

\* A resize starts an instance only in the configuration it was asked for: after a
\* failed edit nothing brings the old one back up.
THEOREM RestartsAfterEdit == Undisturbed => (Spec => RestartOnlyAfterEdit)
<1> SUFFICES ASSUME Undisturbed PROVE Spec => RestartOnlyAfterEdit
  OBVIOUS
<1>1. ASSUME SafeInv, CallInv, [Next]_vars
      PROVE  \A p \in Procs : Held(p) /\ Op(p) = "resize" =>
               (~Running(Instance(p)) /\ Running(vm'[Name(p)])
                  => vm'[Name(p)].config = call[p].config)
  <2> SUFFICES ASSUME NEW p \in Procs, Held(p), Op(p) = "resize", ~Running(Instance(p)),
                      Running(vm'[Name(p)])
               PROVE  vm'[Name(p)].config = call[p].config
    OBVIOUS
  <2>1. Name(p) \in Names
    BY <1>1, HeldName
  <2>2. Command(p)
    <3>1. vm'[Name(p)] # vm[Name(p)] /\ vm'[Name(p)] # Settled(vm[Name(p)])
      BY SettledRunning DEF Instance
    <3> QED
      BY <1>1, <2>1, <3>1, WhoChanges, HeldCommands
  <2> QED
    BY <1>1, <2>2, ResizeRunState, ResizeKnows
<1> QED
  BY <1>1, CallInvHolds, SafeInvHolds, PTL DEF Spec, RestartOnlyAfterEdit

\* A resize takes down a running instance only for a change it needs or because it
\* is asked to have it stopped.
THEOREM NoStopInVain == Undisturbed => (Spec => NoNeedlessStop)
<1> SUFFICES ASSUME Undisturbed PROVE Spec => NoNeedlessStop
  OBVIOUS
<1>1. ASSUME SafeInv, CallInv, [Next]_vars
      PROVE  \A p \in Procs : Held(p) /\ Op(p) = "resize" =>
               (Running(Instance(p)) /\ ~Running(vm'[Name(p)])
                  => Instance(p).config # call[p].config \/ ~call[p].want)
  <2> SUFFICES ASSUME NEW p \in Procs, Held(p), Op(p) = "resize", Running(Instance(p)),
                      ~Running(vm'[Name(p)])
               PROVE  Instance(p).config # call[p].config \/ ~call[p].want
    OBVIOUS
  <2>1. Name(p) \in Names
    BY <1>1, HeldName
  <2>2. Command(p)
    <3>1. vm'[Name(p)] # vm[Name(p)] /\ vm'[Name(p)] # Settled(vm[Name(p)])
      BY SettledRunning DEF Instance
    <3> QED
      BY <1>1, <2>1, <3>1, WhoChanges, HeldCommands
  <2> QED
    BY <1>1, <2>2, ResizeRunState, ResizeKnows
<1> QED
  BY <1>1, CallInvHolds, SafeInvHolds, PTL DEF Spec, NoNeedlessStop

\* Only a delete's command takes an instance away.
LEMMA OthersSpare ==
  ASSUME NEW v \in Instances, Usable(v)
  PROVE  /\ \A o \in InspectOutcomes(v) : Usable(o.vm)
         /\ \A o \in ValidateOutcomes(v) : Usable(o.vm)
         /\ \A c \in Configs : \A o \in CreateOutcomes(v, c) : Usable(o.vm)
         /\ \A o \in StartOutcomes(v) : Usable(o.vm)
         /\ \A o \in StopOutcomes(v) : Usable(o.vm)
         /\ \A c \in Configs : \A o \in EditOutcomes(v, c) : Usable(o.vm)
         /\ \A b \in BOOLEAN : \A o \in ProtectOutcomes(v, b) : Usable(o.vm)
<1>1. Listed(v)
  BY DEF Usable, Listed
<1>2. \A y : /\ y \in {"running", "broken", "stopped"} => Usable([v EXCEPT !.status = y])
             /\ Usable([v EXCEPT !.protected = y]) /\ Usable([v EXCEPT !.config = y])
  BY Fields DEF Usable
<1>3. \A o \in InspectOutcomes(v) \cup ValidateOutcomes(v) : o.vm = v
  BY DEF InspectOutcomes, ValidateOutcomes, Outcome, Fault
<1>4. \A c \in Configs : \A o \in CreateOutcomes(v, c) : o.vm = v
  BY <1>1 DEF CreateOutcomes, Outcome
<1>5. \A o \in StartOutcomes(v) : Usable(o.vm)
  <2> SUFFICES ASSUME NEW o \in StartOutcomes(v) PROVE Usable(o.vm)
    OBVIOUS
  <2>1. /\ Usable([v EXCEPT !.status = "running"])
        /\ Usable([v EXCEPT !.status = "broken"])
    BY <1>2
  <2> QED
    BY <2>1, StartForms
<1>6. \A o \in StopOutcomes(v) : Usable(o.vm)
  <2> SUFFICES ASSUME NEW o \in StopOutcomes(v) PROVE Usable(o.vm)
    OBVIOUS
  <2>1. Usable([v EXCEPT !.status = "stopped"])
    BY <1>2
  <2> QED
    BY <2>1, StopForms
<1>7. \A c \in Configs : \A o \in EditOutcomes(v, c) : Usable(o.vm)
  <2> SUFFICES ASSUME NEW c \in Configs, NEW o \in EditOutcomes(v, c) PROVE Usable(o.vm)
    OBVIOUS
  <2>1. Usable([v EXCEPT !.config = c])
    BY <1>2
  <2> QED
    BY <2>1, EditForms
<1>8. \A b \in BOOLEAN : \A o \in ProtectOutcomes(v, b) : Usable(o.vm)
  <2> SUFFICES ASSUME NEW b \in BOOLEAN, NEW o \in ProtectOutcomes(v, b)
               PROVE  Usable(o.vm)
    OBVIOUS
  <2>1. Usable([v EXCEPT !.protected = b])
    BY <1>2
  <2> QED
    BY <2>1, ProtectForms
<1> QED
  BY <1>3, <1>4, <1>5, <1>6, <1>7, <1>8

\* A command whose outcomes spare the instance spares it.
LEMMA SparingStep ==
  ASSUME SafeInv, NEW p \in Procs, pc[p] \in LockedSteps, Usable(Instance(p)),
         NEW outs, Sound(outs), \A q \in outs : Usable(q.vm),
         NEW o \in Ends(p, outs), Runs(p, o)
  PROVE  Usable(vm'[Name(p)])
<1>1. o.vm \in Instances
  BY LockedCall, EndsSound DEF Sound, SafeInv
<1>2. Usable(o.vm)
  BY EndsForms
<1> QED
  BY <1>1, <1>2, Gives

\* Every command but limactl delete does.
LEMMA OnlyDeleteTakes ==
  ASSUME SafeInv, NEW p \in Procs, Command(p), ~DeleteRun(p), Usable(Instance(p))
  PROVE  Usable(vm'[Name(p)])
<1> DEFINE v == Instance(p)
<1>1. pc[p] \in LockedSteps
  BY CommandFramed DEF SafeInv, CommandFrame
<1>2. v \in Instances
  BY <1>1, LockedCall DEF SafeInv
<1>3. /\ Sound(InspectOutcomes(v)) /\ \A o \in InspectOutcomes(v) : Usable(o.vm)
      /\ Sound(ValidateOutcomes(v)) /\ \A o \in ValidateOutcomes(v) : Usable(o.vm)
      /\ Sound(StartOutcomes(v)) /\ \A o \in StartOutcomes(v) : Usable(o.vm)
      /\ Sound(StopOutcomes(v)) /\ \A o \in StopOutcomes(v) : Usable(o.vm)
  BY <1>2, OutcomesSound, OthersSpare
<1>4. CASE \E o \in Inspections(p) : Runs(p, o)
  BY <1>1, <1>3, <1>4, SparingStep DEF Inspections
<1>5. CASE CreateValidate(p)
  BY <1>1, <1>3, <1>5, SparingStep DEF CreateValidate
<1>6. CASE CreateRun(p) \/ CreateKeygen(p)
  <2>1. /\ pc[p] \in {"create_run", "create_keygen"}
        /\ \/ vm' = vm
           \/ \E outs : /\ Created(p, outs)
                        /\ outs \in {CreateOutcomes(v, call[p].config), {Outcome(v, "failed")}}
    BY <1>6 DEF CreateRun, CreateKeygen, At
  <2>2. call[p].config \in Configs
    BY <1>1, <2>1, StepOp DEF SafeInv
  <2>3. /\ Sound(CreateOutcomes(v, call[p].config))
        /\ \A o \in CreateOutcomes(v, call[p].config) : Usable(o.vm)
    BY <1>2, <2>2, OutcomesSound, OthersSpare
  <2>4. /\ Sound({Outcome(v, "failed")})
        /\ \A o \in {Outcome(v, "failed")} : Usable(o.vm)
    BY <1>2 DEF Sound, Outcome, Errors
  <2>5. ASSUME NEW outs, Created(p, outs),
               outs \in {CreateOutcomes(v, call[p].config), {Outcome(v, "failed")}}
        PROVE  Usable(vm'[Name(p)])
    BY <1>1, <2>3, <2>4, <2>5, SparingStep DEF Created
  <2> QED
    BY <2>1, <2>5 DEF Instance
<1>7. CASE StartRun(p)
  BY <1>1, <1>3, <1>7, SparingStep DEF StartRun
<1>8. CASE StopRun(p)
  BY <1>1, <1>3, <1>8, SparingStep DEF StopRun
<1>9. CASE EditRun(p)
  <2>1. call[p].config \in Configs
    BY <1>1, <1>9, StepOp DEF SafeInv, EditRun, At
  <2> QED
    BY <1>1, <1>2, <1>9, <2>1, OutcomesSound, OthersSpare, SparingStep DEF EditRun
<1>10. CASE CreateProtect(p)
  BY <1>1, <1>2, <1>10, OutcomesSound, OthersSpare, SparingStep DEF CreateProtect
<1>11. CASE ProtectRun(p)
  <2>1. call[p].want \in BOOLEAN
    BY <1>1, <1>11, StepOp DEF SafeInv, ProtectRun, At
  <2> QED
    BY <1>1, <1>2, <1>11, <2>1, OutcomesSound, OthersSpare, SparingStep DEF ProtectRun
<1> QED
  BY <1>4, <1>5, <1>6, <1>7, <1>8, <1>9, <1>10, <1>11
     DEF Command, CreateExists, CreateRecheck, CreateWait, CreateInspect, StartInspect,
         StartDegraded, StartWait, StopInspect, StopWait, ResizeInspect, ProtectInspect,
         DeleteInspect, DeleteWait, WaitForStatus, WaitForAbsence, Polls

\* Only a delete takes an instance away, and only one that was not protected when the
\* delete took its lock: no failed create cleans up after itself, and no protection is
\* cleared on the way.
THEOREM OnlyUnprotectedIsDeleted == Undisturbed => (Spec => OnlyUnprotectedDeleted)
<1> SUFFICES ASSUME Undisturbed PROVE Spec => OnlyUnprotectedDeleted
  OBVIOUS
<1>1. ASSUME SafeInv, CallInv, [Next]_vars
      PROVE  \A n \in Names : Usable(vm[n]) /\ ~Usable(vm'[n]) =>
               \E p \in Procs : /\ Held(p) /\ Name(p) = n /\ Op(p) = "delete"
                                /\ ~before[p].protected
  <2> SUFFICES ASSUME NEW n \in Names, Usable(vm[n]), ~Usable(vm'[n])
               PROVE  \E p \in Procs : /\ Held(p) /\ Name(p) = n /\ Op(p) = "delete"
                                       /\ ~before[p].protected
    OBVIOUS
  <2>1. vm'[n] # Settled(vm[n])
    <3>1. vm[n] \in Instances
      BY <1>1 DEF SafeInv, TypeInv
    <3>2. Usable(Settled(vm[n]))
      BY <3>1 DEF Settled, Usable, Instances, VM, Absent
    <3> QED
      BY <3>2
  <2>2. PICK p \in Procs : Command(p) /\ Name(p) = n
    BY <1>1, <2>1, WhoChanges
  <2>3. DeleteRun(p)
    BY <1>1, <2>2, OnlyDeleteTakes DEF Instance
  <2>4. pc[p] = "delete_run" /\ pc[p] \in LockedSteps
    BY <2>3 DEF DeleteRun, At, LockedSteps, Steps, SetupSteps
  <2>5. Op(p) = "delete" /\ Holds(p, Name(p))
    BY <1>1, <2>4, StepOp DEF SafeInv, InstanceLockInv
  <2>6. ~before[p].protected
    BY <1>1, <2>4, <2>5, Now DEF LocalNow, Local, DeleteLocal, Op
  <2> QED
    BY <2>2, <2>4, <2>5, <2>6 DEF Held, At
<1> QED
  BY <1>1, CallInvHolds, SafeInvHolds, PTL DEF Spec, OnlyUnprotectedDeleted

-----------------------------------------------------------------------------
(* The calls are atomic.                                                   *)

\* A call is at work on its instance while it has its lock, but for its last step.
WorkSteps == LockedSteps \ {"unlock"}

\* The instance of such a call is as the call found it, the others as they are.
FoundFacts ==
  /\ DOMAIN Found = Names
  /\ \A p \in Procs : pc[p] \in WorkSteps => Found[Name(p)] = before[p]
  /\ \A n \in Names : Found[n] # vm[n] =>
       \E p \in Procs : pc[p] \in WorkSteps /\ Name(p) = n

\* The step of a call says what its instance is found as, as its lock says whose it is.
LEMMA FoundHolds == SafeInv => FoundFacts
<1> SUFFICES ASSUME SafeInv PROVE FoundFacts
  OBVIOUS
<1>1. ASSUME NEW p \in Procs, pc[p] \in WorkSteps
      PROVE  Found[Name(p)] = before[p]
  <2>1. Name(p) \in Names /\ holder[Name(p)] = p
    BY <1>1, LockedCall DEF SafeInv, InstanceLockInv, Holds, WorkSteps
  <2>2. p # NoProc /\ ~At(p, "unlock")
    BY <1>1, NoProcAssumption DEF At, WorkSteps
  <2> QED
    BY <2>1, <2>2 DEF Found
<1>2. ASSUME NEW n \in Names, Found[n] # vm[n]
      PROVE  \E p \in Procs : pc[p] \in WorkSteps /\ Name(p) = n
  <2>1. holder[n] # NoProc /\ ~At(holder[n], "unlock")
    BY <1>2 DEF Found
  <2>2. holder[n] \in Procs
    BY <2>1, KeysAssumption DEF SafeInv, TypeInv, TypeOK, LockTypeOK
  <2> QED
    BY <2>1, <2>2 DEF SafeInv, InstanceLockInv, Holds, WorkSteps, At
<1> QED
  BY <1>1, <1>2 DEF FoundFacts, Found

\* What an instance is found as stays while the calls at work on it do.
LEMMA FoundSame ==
  ASSUME SafeInv, SafeInv', FoundFacts, FoundFacts', NEW n \in Names,
         \A q \in Procs :
           /\ pc[q] \in WorkSteps /\ Name(q) = n
                => pc'[q] \in WorkSteps /\ Name(q)' = n /\ before'[q] = before[q]
           /\ pc'[q] \in WorkSteps /\ Name(q)' = n => pc[q] \in WorkSteps /\ Name(q) = n,
         vm'[n] = vm[n] \/ \E q \in Procs : pc[q] \in WorkSteps /\ Name(q) = n
  PROVE  Found'[n] = Found[n]
<1>1. CASE \E q \in Procs : pc[q] \in WorkSteps /\ Name(q) = n
  BY <1>1 DEF FoundFacts
<1>2. CASE ~\E q \in Procs : pc[q] \in WorkSteps /\ Name(q) = n
  BY <1>2 DEF FoundFacts
<1> QED
  BY <1>1, <1>2

\* Steps that leave alone whoever is at work leave what is found alone.
LEMMA FoundStays ==
  ASSUME SafeInv, SafeInv', FoundFacts, FoundFacts',
         \A q \in Procs : /\ pc'[q] \in WorkSteps <=> pc[q] \in WorkSteps
                          /\ pc[q] \in WorkSteps => Name(q)' = Name(q) /\ before'[q] = before[q],
         \A n \in Names :
           vm'[n] = vm[n] \/ \E q \in Procs : pc[q] \in WorkSteps /\ Name(q) = n
  PROVE  Found' = Found
<1>1. \A n \in Names : Found'[n] = Found[n]
  BY FoundSame
<1>2. Found = [n \in Names |-> Found[n]] /\ Found' = [n \in Names |-> Found'[n]]
  BY DEF Found
<1> QED
  BY <1>1, <1>2

\* What a goroutine answers depends on its own step, error and Registered.
LEMMA AnsweredSame ==
  ASSUME NEW p \in Procs, pc'[p] = pc[p], err'[p] = err[p], registered'[p] = registered[p]
  PROVE  Answered'[p] = Answered[p]
BY DEF Answered

\* When nobody answers anything else, nothing is answered.
LEMMA AnsweredStays ==
  ASSUME \A p \in Procs : Answered'[p] = Answered[p]
  PROVE  Answered' = Answered
<1>1. Answered = [p \in Procs |-> Answered[p]] /\ Answered' = [p \in Procs |-> Answered'[p]]
  BY DEF Answered
<1> QED
  BY <1>1

\* Contract is the same seen from here and from AtomicService.
LEMMA SameContract ==
  /\ Atomic!VM = VM /\ Atomic!Errors = Errors
  /\ \A v : Atomic!Settled(v) = Settled(v)
  /\ \A c, v, w, e, r, x :
       c.op \in CallOps /\ Promised(c, v, w, e, r, x) => Atomic!Promised(c, v, w, e, r, x)
<1>1. /\ Atomic!VM = VM /\ Atomic!Errors = Errors
      /\ \A v : Atomic!Settled(v) = Settled(v)
  BY DEF Atomic!VM, VM, Atomic!Absent, Absent, Atomic!Statuses, Statuses, Atomic!Errors, Errors,
         Atomic!Settled, Settled
<1>2. /\ \A v, w : Untouched(v, w) <=> Atomic!Untouched(v, w)
      /\ \A v : /\ Usable(v) <=> Atomic!Usable(v)
                /\ Running(v) <=> Atomic!Running(v)
                /\ Listed(v) <=> Atomic!Listed(v)
                /\ Stoppable(v) <=> Atomic!Stoppable(v)
      /\ \A b : RunStatus(b) = Atomic!RunStatus(b)
  BY <1>1 DEF Untouched, Atomic!Untouched, Usable, Atomic!Usable, Running, Atomic!Running,
              Listed, Atomic!Listed, Stoppable, Atomic!Stoppable, RunStatus, Atomic!RunStatus
<1>3. \A v, w : SameButStatus(v, w) <=> Atomic!SameButStatus(v, w)
  BY <1>2 DEF SameButStatus, Atomic!SameButStatus
<1>4. \A v, b : RunStates(v, b) = Atomic!RunStates(v, b)
  BY <1>1, <1>2 DEF RunStates, Atomic!RunStates
<1>5. \A c, v, w, e, r, x :
        CreatePromise(c, v, w, e, r, x) <=> Atomic!CreatePromise(c, v, w, e, r, x)
  BY <1>2 DEF CreatePromise, Atomic!CreatePromise, Leftover, Atomic!Leftover
<1>6. \A c, v, w, e, x : RunPromise(c, v, w, e, x) <=> Atomic!RunPromise(c, v, w, e, x)
  BY <1>2, <1>3, <1>4 DEF RunPromise, Atomic!RunPromise
<1>7. \A c, v, w, e, x : ResizePromise(c, v, w, e, x) <=> Atomic!ResizePromise(c, v, w, e, x)
  <2> SUFFICES ASSUME NEW c, NEW v, NEW w, NEW e, NEW x
               PROVE  ResizePromise(c, v, w, e, x) <=> Atomic!ResizePromise(c, v, w, e, x)
    OBVIOUS
  <2>1. CASE v.config = c.config
    BY <1>6, <2>1 DEF ResizePromise, Atomic!ResizePromise
  <2>2. CASE v.config # c.config
    <3> DEFINE edited == Usable(v) /\ Usable(w) /\ w.protected = v.protected
                           /\ w.config = c.config
    <3>1. edited = (/\ Atomic!Usable(v) /\ Atomic!Usable(w) /\ w.protected = v.protected
                    /\ w.config = c.config)
      BY <1>2
    <3> HIDE DEF edited
    <3>2. ResizePromise(c, v, w, e, x) <=>
            \/ e = "ok" /\ edited /\ (Running(w) <=> c.want)
            \/ e = "notfound" /\ ~Usable(v) /\ Untouched(v, w)
            \/ e = "restart" /\ c.want /\ edited /\ (Running(w) => x)
            \/ /\ e \in {"failed", "timeout"}
               /\ (SameButStatus(v, w) /\ w.status \in RunStates(v, FALSE)) \/ Untouched(v, w)
            \/ e = "timeout" /\ x /\ edited /\ ~Running(w)
      BY <2>2 DEF ResizePromise, edited
    <3>3. Atomic!ResizePromise(c, v, w, e, x) <=>
            \/ e = "ok" /\ edited /\ (Atomic!Running(w) <=> c.want)
            \/ e = "notfound" /\ ~Atomic!Usable(v) /\ Atomic!Untouched(v, w)
            \/ e = "restart" /\ c.want /\ edited /\ (Atomic!Running(w) => x)
            \/ /\ e \in {"failed", "timeout"}
               /\ \/ Atomic!SameButStatus(v, w) /\ w.status \in Atomic!RunStates(v, FALSE)
                  \/ Atomic!Untouched(v, w)
            \/ e = "timeout" /\ x /\ edited /\ ~Atomic!Running(w)
      BY <2>2, <3>1 DEF Atomic!ResizePromise
    <3> QED
      BY <1>2, <1>3, <1>4, <3>2, <3>3
  <2> QED
    BY <2>1, <2>2
<1>8. \A c, v, w, e, x : ProtectPromise(c, v, w, e, x) <=> Atomic!ProtectPromise(c, v, w, e, x)
  BY <1>1, <1>2 DEF ProtectPromise, Atomic!ProtectPromise
<1>9. \A c, v, w, e, x : DeletePromise(c, v, w, e, x) <=> Atomic!DeletePromise(c, v, w, e, x)
  BY <1>2 DEF DeletePromise, Atomic!DeletePromise
<1>10. ASSUME NEW c, NEW v, NEW w, NEW e, NEW r, NEW x,
              c.op \in CallOps, Promised(c, v, w, e, r, x)
       PROVE  Atomic!Promised(c, v, w, e, r, x)
  BY <1>5, <1>6, <1>7, <1>8, <1>9, <1>10 DEF Promised, Atomic!Promised, CallOps
<1> QED
  BY <1>1, <1>10

\* The values of the mapping have their types.
MapTypes ==
  /\ Answered \in [Procs -> Atomic!Answers \cup {Atomic!NoAnswer}]
  /\ Found \in [Names -> Atomic!VM]

\* What is found and what is answered have their types because what they are made of does.
LEMMA MapTypesHold == SafeInv => MapTypes
<1> SUFFICES ASSUME SafeInv PROVE MapTypes
  OBVIOUS
<1>1. Answered \in [Procs -> Atomic!Answers \cup {Atomic!NoAnswer}]
  BY SameContract DEF SafeInv, TypeInv, TypeOK, Answered, Atomic!Answers, Atomic!NoAnswer
<1>2. \A n \in Names : vm[n] \in VM /\ holder[n] \in Procs \cup {NoProc}
  BY KeysAssumption DEF SafeInv, TypeInv, TypeOK, LockTypeOK
<1>3. \A p \in Procs : before[p] \in VM
  BY DEF SafeInv, TypeInv, TypeOK
<1> QED
  BY <1>1, <1>2, <1>3, SameContract DEF Found, MapTypes

\* The call of a goroutine that is anywhere but idle.
LEMMA IsPending ==
  ASSUME SafeInv, NEW p \in Procs,
         pc[p] \notin {"idle", "unlock", "setup_mark", "setup_unlock"}
  PROVE  Atomic!Pending(p)
<1>1. call[p] # NoCall
  BY DEF SafeInv, TypeInv, TypeOK, At
<1> QED
  BY <1>1 DEF Atomic!Pending, Answered, Atomic!NoAnswer

\* No command is run at the last step.
LEMMA CommandWorks ==
  ASSUME SafeInv, NEW p \in Procs, Command(p)
  PROVE  pc[p] \in WorkSteps
<1>1. pc[p] \in LockedSteps
  BY CommandFramed DEF SafeInv, CommandFrame
<1>2. pc[p] # "unlock"
  BY DEF Command, At, CreateExists, CreateValidate, CreateRun, CreateKeygen, CreateRecheck,
         CreateWait, CreateProtect, CreateInspect, StartInspect, StartRun, StartDegraded,
         StartWait, StopInspect, StopRun, StopWait, ResizeInspect, EditRun, ProtectInspect,
         ProtectRun, DeleteInspect, DeleteRun, DeleteWait
<1> QED
  BY <1>1, <1>2 DEF WorkSteps

\* A command goes unnoticed unless it is the last of its call, which then takes
\* effect.
LEMMA CommandAtomic ==
  ASSUME SafeInv, SafeInv', CallInv', FoundFacts, FoundFacts', MapTypes', NEW p \in Procs, Command(p)
  PROVE  Atomic!Perform(p) \/ UNCHANGED <<Found, call, Answered>>
<1>1. /\ pc[p] \in WorkSteps /\ Name(p) \in Names
      /\ call' = call /\ before' = before /\ pc'[p] \in LockedSteps
      /\ \A n \in Names \ {Name(p)} : vm'[n] = vm[n]
      /\ \A q \in Procs \ {p} :
           pc'[q] = pc[q] /\ err'[q] = err[q] /\ registered'[q] = registered[q]
  <2>1. CommandFrame(p) /\ pc[p] \in WorkSteps
    BY CommandFramed, CommandWorks DEF SafeInv
  <2>2. Name(p) \in Names /\ CallSteps(p) \subseteq LockedSteps
    BY <2>1, LockedCall DEF SafeInv, WorkSteps
  <2> QED
    BY <2>1, <2>2 DEF CommandFrame, WorldFrame, PcFrame, ResultFrame
<1>2. \A q \in Procs : Name(q)' = Name(q)
  BY <1>1 DEF Name
<1>3. \A q \in Procs \ {p} : Answered'[q] = Answered[q]
  BY <1>1, AnsweredSame
<1>4. CASE pc'[p] # "unlock"
  <2>1. pc'[p] \in WorkSteps
    BY <1>1, <1>4 DEF WorkSteps
  <2>2. Found' = Found
    BY <1>1, <1>2, <2>1, FoundStays
  <2>3. Answered'[p] = Answered[p]
    BY <1>1, <2>1 DEF Answered, WorkSteps, LockedSteps
  <2> QED
    BY <1>1, <1>3, <2>2, <2>3, AnsweredStays
<1>5. CASE pc'[p] = "unlock"
  <2> DEFINE n == Name(p)
             a == Answered'[p]
  <2>1. Atomic!Pending(p)
    BY <1>1, IsPending DEF WorkSteps, LockedSteps
  <2>2. /\ Answered' \in [Procs -> Atomic!Answers \cup {Atomic!NoAnswer}]
        /\ Found' \in [Names -> Atomic!VM]
    BY DEF MapTypes
  <2>3. a = [err |-> err'[p], registered |-> registered'[p]]
    BY <1>5 DEF Answered
  <2>4. err'[p] \in Errors /\ expired'[p] \in BOOLEAN
    BY DEF SafeInv, TypeInv, TypeOK
  <2>5. a # Atomic!NoAnswer
    BY <2>3, <2>4 DEF Atomic!NoAnswer, Errors
  <2>6. Found[n] = before[p]
    BY <1>1 DEF FoundFacts
  <2>7. Found'[n] = vm'[n]
    <3>1. \A q \in Procs : pc'[q] \in WorkSteps => q # p /\ pc[q] \in LockedSteps
      BY <1>1, <1>5 DEF WorkSteps
    <3>2. \A q \in Procs : pc'[q] \in WorkSteps => Name(q)' # n
      BY <1>1, <1>2, <3>1, LocksApart DEF WorkSteps
    <3> QED
      BY <1>1, <3>2 DEF FoundFacts
  <2>8. Atomic!Promised(call[p], Found[n], Found'[n], a.err, a.registered, expired'[p])
    <3>1. Promised(call[p], before[p], vm'[n], err'[p], registered'[p], expired'[p])
      BY <1>1, <1>2, <1>5 DEF CallInv, Local, Instance
    <3>2. call[p].op \in CallOps
      BY <1>1, LockedCall DEF SafeInv, WorkSteps, Op
    <3> QED
      BY <2>3, <2>6, <2>7, <3>1, <3>2, SameContract
  <2>9. ASSUME NEW m \in Names \ {n} PROVE Found'[m] = Found[m]
    <3>1. \A q \in Procs :
            /\ pc[q] \in WorkSteps /\ Name(q) = m
                 => pc'[q] \in WorkSteps /\ Name(q)' = m /\ before'[q] = before[q]
            /\ pc'[q] \in WorkSteps /\ Name(q)' = m => pc[q] \in WorkSteps /\ Name(q) = m
      BY <1>1, <1>2
    <3> QED
      BY <1>1, <3>1, FoundSame
  <2> HIDE DEF a
  <2>10. Atomic!Perform(p)
    BY <1>1, <1>3, <2>1, <2>2, <2>4, <2>5, <2>8, <2>9 DEF Atomic!Perform, a, Name
  <2> QED
    BY <2>10
<1> QED
  BY <1>4, <1>5

\* A call that takes its lock finds the instance as it is.
LEMMA LockAtomic ==
  ASSUME SafeInv, SafeInv', FoundFacts, FoundFacts', NEW p \in Procs, LockInstance(p)
  PROVE  UNCHANGED <<Found, call, Answered>>
<1>1. /\ pc[p] = "lock" /\ Name(p) \in Names /\ holder[Name(p)] = NoProc
      /\ pc'[p] = FirstStep(call[p]) /\ FirstStep(call[p]) \in CallSteps(p)
      /\ before'[p] = Instance(p)
      /\ \A q \in Procs \ {p} : pc'[q] = pc[q] /\ before'[q] = before[q]
      /\ call' = call /\ err' = err /\ registered' = registered /\ vm' = vm
  BY LockedCall, FirstStepSound
     DEF LockInstance, At, Acquire, Goto, SafeInv, TypeInv, TypeOK, result, world
<1>2. FirstStep(call[p]) \in WorkSteps
  <2>1. call[p] \in CallRecords /\ CallSteps(p) \subseteq LockedSteps
    BY <1>1, LockedCall DEF SafeInv
  <2>2. FirstStep(call[p]) # "unlock"
    BY <2>1 DEF FirstStep, CallRecords, RunState
  <2> QED
    BY <1>1, <2>1, <2>2 DEF WorkSteps
<1>3. \A q \in Procs : Name(q)' = Name(q)
  BY <1>1 DEF Name
<1>4. \A n \in Names : Found'[n] = Found[n]
  <2>1. ASSUME NEW n \in Names PROVE Found'[n] = Found[n]
    <3>1. CASE n = Name(p)
      <4>1. Found'[n] = before'[p]
        BY <1>1, <1>2, <1>3, <3>1 DEF FoundFacts
      <4>2. \A q \in Procs : pc[q] \in WorkSteps => Name(q) # n
        BY <1>1, <3>1, NoProcAssumption
           DEF SafeInv, InstanceLockInv, Holds, WorkSteps
      <4>3. Found[n] = vm[n]
        BY <4>2 DEF FoundFacts
      <4> QED
        BY <1>1, <3>1, <4>1, <4>3 DEF Instance
    <3>2. CASE n # Name(p)
      <4>1. \A q \in Procs :
              /\ pc[q] \in WorkSteps /\ Name(q) = n
                   => pc'[q] \in WorkSteps /\ Name(q)' = n /\ before'[q] = before[q]
              /\ pc'[q] \in WorkSteps /\ Name(q)' = n => pc[q] \in WorkSteps /\ Name(q) = n
        BY <1>1, <1>3, <3>2
      <4> QED
        BY <1>1, <4>1, FoundSame
    <3> QED
      BY <3>1, <3>2
  <2> QED
    BY <2>1
<1>5. Found' = Found
  BY <1>4 DEF Found
<1>6. \A q \in Procs : Answered'[q] = Answered[q]
  <2>1. \A q \in Procs \ {p} : Answered'[q] = Answered[q]
    BY <1>1, AnsweredSame
  <2>2. Answered'[p] = Answered[p]
    BY <1>1, <1>2 DEF Answered, WorkSteps, LockedSteps
  <2> QED
    BY <2>1, <2>2
<1> QED
  BY <1>1, <1>5, <1>6, AnsweredStays

\* A step of p that runs no command, but for taking the instance's lock, leaves alone
\* what is found and what the others answer.
LEMMA OwnFound ==
  ASSUME SafeInv, SafeInv', FoundFacts, FoundFacts', NEW p \in Procs,
         \/ \E c \in Calls : Begin(p, c)
         \/ SetupReady(p) \/ SetupLock(p) \/ SetupRefused(p) \/ SetupRecheck(p)
         \/ SetupMark(p) \/ SetupUnlock(p) \/ LockRefused(p) \/ Unlock(p)
  PROVE  Found' = Found /\ \A q \in Procs \ {p} : Answered'[q] = Answered[q]
<1>1. OthersStay(p) /\ pc'[p] \notin WorkSteps
  BY OwnSteps DEF WorkSteps
<1>2. pc[p] \notin WorkSteps
  BY DEF Begin, SetupReady, SetupLock, SetupRefused, SetupRecheck, SetupMark, SetupUnlock,
         LockRefused, Unlock, At, WorkSteps, LockedSteps, SetupSteps
<1>3. Found' = Found
  BY <1>1, <1>2, FoundStays DEF OthersStay, Name
<1>4. \A q \in Procs \ {p} : Answered'[q] = Answered[q]
  BY <1>1, AnsweredSame DEF OthersStay
<1> QED
  BY <1>3, <1>4

\* A call that has waited for nothing yet begins, and one that is over returns.
LEMMA OwnAtomic ==
  ASSUME SafeInv, SafeInv', FoundFacts, FoundFacts', MapTypes, MapTypes', NEW p \in Procs,
         \/ \E c \in Calls : Begin(p, c)
         \/ SetupReady(p) \/ SetupLock(p) \/ SetupRefused(p) \/ SetupRecheck(p)
         \/ SetupMark(p) \/ SetupUnlock(p) \/ LockRefused(p) \/ Unlock(p)
  PROVE  Atomic!Next \/ UNCHANGED <<Found, call, Answered>>
<1>1. Found' = Found /\ \A q \in Procs \ {p} : Answered'[q] = Answered[q]
  BY OwnFound
<1>2. /\ pc \in [Procs -> Steps] /\ call \in [Procs -> Calls \cup {NoCall}]
      /\ err \in [Procs -> Errors] /\ registered \in [Procs -> BOOLEAN]
      /\ \A q \in Procs : call[q] = NoCall <=> pc[q] = "idle"
  BY DEF SafeInv, TypeInv, TypeOK, At
<1>3. /\ pc[p] \notin {"unlock", "setup_mark", "setup_unlock"} =>
           Answered[p] = Atomic!NoAnswer
      /\ pc[p] \in {"unlock", "setup_mark", "setup_unlock"} =>
           Answered[p] = [err |-> err[p], registered |-> registered[p]]
                /\ Answered[p] # Atomic!NoAnswer
      /\ pc'[p] \notin {"unlock", "setup_mark", "setup_unlock"} =>
           Answered'[p] = Atomic!NoAnswer
      /\ pc'[p] \in {"unlock", "setup_mark", "setup_unlock"} =>
           Answered'[p] = [err |-> err'[p], registered |-> registered'[p]]
  BY <1>2 DEF Answered, Atomic!NoAnswer, Errors
<1>4. ASSUME Answered'[p] = Answered[p] PROVE Answered' = Answered
  BY <1>1, <1>4, AnsweredStays
<1>5. ASSUME NEW c \in Calls, Begin(p, c) PROVE Atomic!Begin(p, c)
  <2>1. /\ pc[p] = "idle" /\ call' = [call EXCEPT ![p] = c]
        /\ pc'[p] \in {"setup_ready", "lock"}
    BY <1>2, <1>5 DEF Begin, At, Goto
  <2> QED
    BY <1>1, <1>2, <1>3, <1>4, <2>1 DEF Atomic!Begin
<1>6. CASE SetupReady(p) \/ SetupLock(p) \/ SetupRecheck(p)
  <2>1. /\ pc[p] \in SetupSteps /\ pc'[p] \in SetupSteps \cup {"lock"} /\ call' = call
    BY <1>2, <1>6 DEF SetupReady, SetupLock, SetupRecheck, At, Goto, args, SetupSteps
  <2> QED
    BY <1>1, <1>3, <1>4, <2>1 DEF SetupSteps
<1>7. ASSUME Return(p) PROVE /\ call' = [call EXCEPT ![p] = NoCall] /\ pc'[p] = "idle"
                             /\ Answered' = [Answered EXCEPT ![p] = Atomic!NoAnswer]
  <2>1. call' = [call EXCEPT ![p] = NoCall] /\ pc'[p] = "idle"
    BY <1>2, <1>7 DEF Return, Goto
  <2> QED
    BY <1>1, <1>3, <2>1 DEF MapTypes
<1>8. ASSUME Return(p), pc[p] \in {"setup_lock", "lock"} PROVE Atomic!Refuse(p)
  <2>1. Atomic!Pending(p)
    BY <1>8, IsPending
  <2>2. Answered' = Answered
    BY <1>3, <1>4, <1>7, <1>8
  <2> QED
    BY <1>1, <1>7, <1>8, <2>1, <2>2 DEF Atomic!Refuse
<1>9. ASSUME Return(p), pc[p] \in {"unlock", "setup_unlock"} PROVE Atomic!Return(p)
  BY <1>1, <1>3, <1>7, <1>9 DEF Atomic!Return
<1>10. CASE SetupRefused(p)
  BY <1>8, <1>10 DEF SetupRefused, At, Atomic!Next
<1>11. CASE SetupUnlock(p)
  BY <1>9, <1>11 DEF SetupUnlock, At, Atomic!Next
<1>12. CASE SetupMark(p)
  BY <1>1, <1>2, <1>3, <1>4, <1>12 DEF SetupMark, At, Goto, args, result
<1>13. CASE Unlock(p)
  <2>1. CASE Return(p)
    BY <1>9, <1>13, <2>1 DEF Unlock, At, Atomic!Next
  <2>2. CASE ~Return(p)
    BY <1>1, <1>2, <1>3, <1>4, <1>13, <2>2 DEF Unlock, At, Goto, args, result
  <2> QED
    BY <2>1, <2>2
<1>14. CASE LockRefused(p)
  <2>1. pc[p] = "lock" /\ UNCHANGED <<sharedReady, world, holder>>
    BY <1>14 DEF LockRefused, At
  <2>2. CASE Return(p)
    BY <1>8, <2>1, <2>2 DEF Atomic!Next
  <2>3. CASE ~Return(p)
    <3>1. /\ Holds(p, Home) /\ pc'[p] = "setup_mark" /\ Fail(p, "timeout")
          /\ call' = call /\ registered' = registered
      BY <1>2, <1>14, <2>3 DEF LockRefused, Goto, args
    <3>2. err'[p] = "timeout" /\ registered'[p] = FALSE
      BY <2>1, <3>1, FailErr DEF SafeInv, QuietInv, QuietSteps, StartSteps, Errors
    <3>3. Answered'[p] = [err |-> "timeout", registered |-> FALSE]
      BY <1>3, <3>1, <3>2
    <3>4. call[p] \in CallRecords /\ call[p].op = "create" /\ Name(p) \in Names
      BY <2>1, <3>1, LockedCall DEF SafeInv, HomeLockInv, Op
    <3>5. \A v, c : c.op = "create" => Promised(c, v, v, "timeout", FALSE, TRUE)
      BY DEF Promised, CreatePromise, Untouched
    <3>6. Atomic!Promised(call[p], Found[Name(p)], Found'[Name(p)], "timeout", FALSE, TRUE)
      BY <1>1, <3>4, <3>5, SameContract DEF CallOps
    <3>7. Atomic!Pending(p)
      BY <2>1, IsPending
    <3>8. Answered'[p] # Atomic!NoAnswer
      BY <3>3 DEF Atomic!NoAnswer
    <3> DEFINE n == Name(p)
               a == Answered'[p]
    <3>9. /\ Answered' \in [Procs -> Atomic!Answers \cup {Atomic!NoAnswer}]
          /\ Found' \in [Names -> Atomic!VM]
      BY DEF MapTypes
    <3>10. a # Atomic!NoAnswer /\ a.err = "timeout" /\ a.registered = FALSE
      BY <3>3, <3>8
    <3>11. \E late \in BOOLEAN :
             Atomic!Promised(call[p], Found[n], Found'[n], a.err, a.registered, late)
      BY <3>6, <3>10
    <3>12. \A m \in Names \ {n} : Found'[m] = Found[m]
      BY <1>1
    <3> HIDE DEF a
    <3>13. Atomic!Perform(p)
      BY <1>1, <3>1, <3>7, <3>9, <3>10, <3>11, <3>12 DEF Atomic!Perform, a, Name
    <3> QED
      BY <3>13 DEF Atomic!Next
  <2> QED
    BY <2>2, <2>3
<1> QED
  BY <1>5, <1>6, <1>10, <1>11, <1>12, <1>13, <1>14 DEF Atomic!Next

\* Contexts that end go unnoticed; an instance settles unless a call is at work on it.
LEMMA BesideAtomic ==
  ASSUME Undisturbed, SafeInv, SafeInv', FoundFacts, FoundFacts', MapTypes,
         \/ \E p \in Procs : Expire(p)
         \/ \E n \in Names : Settle(n) \/ User(n)
         \/ UNCHANGED vars
  PROVE  Atomic!Next \/ UNCHANGED <<Found, call, Answered>>
<1>1. UNCHANGED <<pc, call, before, err, registered>>
  BY DEF Undisturbed, Expire, Settle, User, UserOutcomes, args, result, vars
<1>2. Answered' = Answered
  BY <1>1 DEF Answered
<1>3. CASE vm' = vm
  <2>1. Found' = Found
    BY <1>1, <1>3, FoundStays DEF Name
  <2> QED
    BY <1>1, <1>2, <2>1
<1>4. ASSUME NEW n \in Names, Settle(n)
      PROVE  Atomic!Next \/ UNCHANGED <<Found, call, Answered>>
  <2>1. vm' = [vm EXCEPT ![n] = Settled(vm[n])] /\ vm \in [Names -> Instances]
    BY <1>4 DEF Settle, SafeInv, TypeInv
  <2>2. CASE \E q \in Procs : pc[q] \in WorkSteps /\ Name(q) = n
    <3>1. \A m \in Names :
            vm'[m] = vm[m] \/ \E q \in Procs : pc[q] \in WorkSteps /\ Name(q) = m
      BY <2>1, <2>2
    <3>2. Found' = Found
      BY <1>1, <3>1, FoundStays DEF Name
    <3> QED
      BY <1>1, <1>2, <3>2
  <2>3. CASE ~\E q \in Procs : pc[q] \in WorkSteps /\ Name(q) = n
    <3>1. \A q \in Procs : Name(q)' = Name(q)
      BY <1>1 DEF Name
    <3>2. Found[n] = vm[n] /\ Found'[n] = Settled(vm[n])
      BY <1>1, <2>1, <2>3, <3>1 DEF FoundFacts
    <3>3. \A m \in Names \ {n} : Found'[m] = Found[m]
      BY <1>1, <2>1, <3>1, FoundSame
    <3>4. Found' = [Found EXCEPT ![n] = Settled(Found[n])]
      <4>1. Found = [m \in Names |-> Found[m]] /\ Found' = [m \in Names |-> Found'[m]]
        BY DEF Found
      <4> QED
        BY <3>2, <3>3, <4>1
    <3>5. Atomic!Settle(n)
      BY <1>1, <1>2, <3>4, SameContract DEF Atomic!Settle
    <3> QED
      BY <3>5 DEF Atomic!Next
  <2> QED
    BY <2>2, <2>3
<1>5. ASSUME NEW n \in Names PROVE ~User(n)
  BY DEF User, UserOutcomes, Undisturbed
<1> QED
  BY <1>3, <1>4, <1>5 DEF Expire, world, vars

\* Every step is one of AtomicService or goes unnoticed there.
LEMMA StepAtomic ==
  ASSUME Undisturbed, SafeInv, SafeInv', CallInv', FoundFacts, FoundFacts',
         MapTypes, MapTypes', [Next]_vars
  PROVE  [Atomic!Next]_<<Found, call, Answered>>
<1>1. ASSUME NEW p \in Procs, Step(p) \/ Locking(p) \/ \E c \in Calls : Begin(p, c)
      PROVE  Atomic!Next \/ UNCHANGED <<Found, call, Answered>>
  <2>1. CASE Command(p)
    BY <2>1, CommandAtomic DEF Atomic!Next
  <2>2. CASE LockInstance(p)
    BY <2>2, LockAtomic
  <2>3. CASE ~Command(p) /\ ~LockInstance(p)
    BY <1>1, <2>3, OwnAtomic DEF Step, Locking
  <2> QED
    BY <2>1, <2>2, <2>3
<1> QED
  BY <1>1, BesideAtomic DEF Next

\* Before the first call.
LEMMA InitAtomic == Init /\ SafeInv => Atomic!Init
<1> SUFFICES ASSUME Init, SafeInv PROVE Atomic!Init
  OBVIOUS
<1>1. Found \in [Names -> Atomic!VM]
  BY MapTypesHold DEF MapTypes
<1>2. Answered = [p \in Procs |-> Atomic!NoAnswer]
  BY DEF Init, Answered, Atomic!NoAnswer
<1> QED
  BY <1>1, <1>2 DEF Init, Atomic!Init

\* In an undisturbed home the calls of lima.Service are atomic: however the commands
\* of concurrent calls, their failures and the ends of their contexts interleave, each
\* call does all that its answer says at one instant, and the others see it before or
\* after that.
THEOREM CallsAreAtomic == Undisturbed => (Spec => ImplementsAtomicService)
<1> SUFFICES ASSUME Undisturbed PROVE Spec => ImplementsAtomicService
  OBVIOUS
<1>1. SafeInv /\ SafeInv' /\ CallInv' /\ FoundFacts /\ FoundFacts' /\ MapTypes /\ MapTypes'
        /\ [Next]_vars => [Atomic!Next]_(Atomic!vars)
  BY StepAtomic DEF Atomic!vars
<1> QED
  BY <1>1, InitAtomic, FoundHolds, MapTypesHold, SafeInvHolds, CallInvHolds, PTL
     DEF Spec, ImplementsAtomicService, Atomic!AtomicSpec
=============================================================================
