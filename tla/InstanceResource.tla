-------------------------- MODULE InstanceResource --------------------------
(***************************************************************************)
(* One lima_instance resource (internal/provider/instance_resource.go):    *)
(* what its handlers write to Terraform state around the calls they make   *)
(* of lima.Service, whose answers are any that Contract promises.  A step  *)
(* is one of these calls with what the handler computes up to the next.    *)
(*                                                                         *)
(* Terraform refreshes, plans and applies; an apply replaces a resource    *)
(* whose create failed with state written (tainted) by a delete and a      *)
(* create, and an Update that fails without writing state keeps the old.   *)
(* An instance's configuration is what Resize can change of it; whatever   *)
(* else differs is a delete and a create as well.                          *)
(*                                                                         *)
(* A wish may have a flaw that only a handler finds.  A blank one renders  *)
(* to nothing, as one without a template whose overrides clear all that it *)
(* declares (config.go:335-342); an unsized one has a size that is none,   *)
(* which sizeValidator lets pass while it is unknown (validators.go:61-64). *)
(***************************************************************************)
EXTENDS Naturals, Contract

CONSTANTS Gone,      (* no resource, in the configuration or in state        *)
          UserActs,  (* what users of the home do beside Terraform           *)
          Flaws,     (* what may be wrong with a configuration               *)
          MaxTrouble (* failures, users' acts and changes of mind at most     *)

ASSUME TroubleAssumption == MaxTrouble \in Nat
ASSUME FlawsAssumption == "none" \in Flaws /\ Flaws \subseteq {"none", "blank", "unsized"}
ASSUME ActsAssumption == UserActs \subseteq {"create", "delete", "run", "protect", "edit"}

VARIABLES
  want,       (* the user's configuration                                  *)
  tf,         (* Terraform state                                           *)
  vm,         (* the instance                                              *)
  pc,         (* the next step of the handler that runs                    *)
  protection, (* Update's local variable                                   *)
  late,       (* the handler's context is done                             *)
  err,        (* the error it returns, "ok" for nil, "refused" for its own  *)
  last,       (* the handler that ran last (for the properties)            *)
  base,       (* state told the truth when it began and nobody interfered  *)
              (* (for the properties)                                      *)
  ours,       (* a create of the resource made the instance, and did not   *)
              (* run out of time before it could be told so (for the       *)
              (* properties)                                               *)
  trouble     (* what may still go wrong                                   *)

ghosts == <<last, base>>
vars == <<want, tf, vm, pc, protection, late, err, last, base, ours, trouble>>

Wishes == [config : Configs, start : BOOLEAN, protect : BOOLEAN, flaw : Flaws]
Recorded(w, protected) ==
  [config |-> w.config, start |-> w.start, protect |-> protected, flaw |-> w.flaw,
   tainted |-> FALSE]
States == [config : Configs, start : BOOLEAN, protect : BOOLEAN, flaw : Flaws,
           tainted : BOOLEAN]

ASSUME GoneAssumption == Gone \notin Wishes \cup States

\* Before the first apply, or after a clean one.
Init ==
  /\ want \in Wishes \cup {Gone}
  /\ \/ /\ tf = Gone
        /\ vm \in {Absent} \cup {New(c, "stopped") : c \in Configs}
     \/ \E w \in {w \in Wishes : w.flaw = "none"} :
          /\ tf = Recorded(w, w.protect)
          /\ vm = [status |-> RunStatus(w.start), protected |-> w.protect, config |-> w.config]
  /\ pc = "idle"
  /\ protection = FALSE /\ late = FALSE /\ err = "ok"
  /\ last = "none" /\ base = FALSE /\ ours = FALSE
  /\ trouble = MaxTrouble

Idle == pc = "idle"
Differs == tf # Recorded(want, want.protect)

-----------------------------------------------------------------------------
(* The service.                                                            *)

\* limactl's validation refuses a document with a size that is none, before
\* anything is created.
Possible(c) ==
  {a \in [vm : VM, err : Errors, registered : {FALSE, c.op = "create"}, late : {late, TRUE}] :
     /\ Promised(c, vm, a.vm, a.err, a.registered, a.late)
     /\ c.op = "create" /\ want.flaw = "unsized" =>
          a.err # "ok" /\ ~a.registered /\ Untouched(vm, a.vm)
     /\ late => a.late /\ a.err = "timeout" /\ a.vm = vm /\ ~a.registered}

\* Those without trouble: of a limactl that works, or the refusal when even that
\* cannot do what it is asked.
Calm(possible) ==
  LET good == {a \in possible :
                 ~a.late /\ a.err \in {"ok", "exists", "notfound", "protected"}}
  IN IF late THEN possible
     ELSE IF good # {} THEN good
     ELSE {a \in possible : ~a.late /\ a.err = "failed" /\ a.vm = vm}

\* The answers to call c that cost n of the trouble left.
Answers(c, n) ==
  LET possible == Possible(c) IN
  IF n > trouble THEN {} ELSE IF n = 0 THEN Calm(possible) ELSE possible \ Calm(possible)

\* Call c ends with answer a.
Asks(c, a, n) ==
  /\ trouble' = trouble - n
  /\ vm' = a.vm
  /\ late' = a.late
  /\ err' = a.err
  /\ ours' = /\ Usable(a.vm)
             /\ \/ ours
                \/ /\ c.op = "create" /\ ~Usable(vm)
                   /\ a.err = "ok" \/ a.registered \/ ~a.late

\* Service.Get ends with e.
Gets(e) ==
  \/ late /\ e = "timeout" /\ UNCHANGED <<late, trouble>>
  \/ /\ ~late /\ e = (IF Listed(vm) THEN "ok" ELSE "notfound")
     /\ UNCHANGED <<late, trouble>>
  \/ /\ ~late /\ e \in {"failed", "timeout"}
     /\ late' = (e = "timeout")
     /\ trouble > 0 /\ trouble' = trouble - 1

-----------------------------------------------------------------------------
(* Reading.                                                                *)

\* Only a definite observation overwrites the run state.
ObservedStart(current) == IF Running(vm) THEN TRUE ELSE IF Stopped(vm) THEN FALSE ELSE current

Observed(s) ==
  [s EXCEPT !.protect = vm.protected, !.config = vm.config, !.start = ObservedStart(@)]

\* Mutant: a read that finds nothing is written to state.
RefreshUnguarded ==
  /\ Idle /\ tf # Gone
  /\ tf' = Observed(tf)
  /\ last' = "refresh"
  /\ UNCHANGED <<want, vm, pc, protection, late, err, base, ours, trouble>>

\* Mutant: a failed read is an error, whatever the failure.
RefreshKeepingLost ==
  /\ Idle /\ tf # Gone
  /\ tf' = IF Listed(vm) THEN Observed(tf) ELSE tf
  /\ last' = "refresh"
  /\ UNCHANGED <<want, vm, pc, protection, late, err, base, ours, trouble>>

\* Read.  A read that fails changes nothing, which is a refresh not taken.
Refresh ==
  /\ Idle /\ tf # Gone
  /\ tf' = IF Listed(vm) THEN Observed(tf) ELSE Gone
  /\ last' = "refresh"
  /\ UNCHANGED <<want, vm, pc, protection, late, err, base, ours, trouble>>

\* terraform import.
ImportState ==
  /\ Idle /\ tf = Gone /\ Listed(vm)
  /\ trouble > 0 /\ trouble' = trouble - 1
  /\ tf' = [config |-> vm.config, start |-> Running(vm), protect |-> vm.protected,
            flaw |-> "none", tainted |-> FALSE]
  /\ last' = "refresh"
  /\ UNCHANGED <<want, vm, pc, protection, late, err, base, ours>>

-----------------------------------------------------------------------------
(* Applying.                                                               *)

FirstStep ==
  IF tf = Gone THEN "create"
  ELSE IF want = Gone \/ tf.tainted THEN "delete"
  ELSE IF tf.protect /\ ~want.protect THEN "unprotect"
  ELSE "resize"

\* Terraform calls a handler for the difference between want and state.
Apply ==
  /\ Idle
  /\ IF tf = Gone \/ want = Gone THEN tf # want ELSE Differs
  /\ pc' = FirstStep
  /\ protection' = (tf # Gone /\ tf.protect)
  /\ late' = FALSE /\ err' = "ok"
  /\ last' = CASE FirstStep \in {"create", "delete"} -> FirstStep [] OTHER -> "update"
  /\ base' = (tf # Gone /\ Usable(vm) /\ tf.protect = vm.protected /\ tf.config = vm.config)
  /\ UNCHANGED <<want, tf, vm, ours, trouble>>

\* A handler returns an error of its own, before it asks anything of the service.
Refuses ==
  /\ pc' = "idle" /\ err' = "refused"
  /\ UNCHANGED <<tf, vm, late, ours, trouble>>

CreateCall ==
  [op |-> "create", config |-> want.config, start |-> want.start, protect |-> want.protect]

\* Mutant: a failed create writes no state.
CreateUnrecorded ==
  /\ pc = "create" /\ want.flaw # "blank"
  /\ \E n \in {0, 1} : \E a \in Answers(CreateCall, n) :
       /\ Asks(CreateCall, a, n)
       /\ tf' = IF a.err = "ok" THEN Recorded(want, a.vm.protected) ELSE tf
  /\ pc' = "idle"
  /\ UNCHANGED <<want, protection, ghosts>>

Create ==
  /\ pc = "create"
  /\ \/ want.flaw = "blank" /\ Refuses
     \/ /\ want.flaw # "blank"
        /\ \E n \in {0, 1} : \E a \in Answers(CreateCall, n) :
             /\ Asks(CreateCall, a, n)
             /\ tf' = IF a.err = "ok" THEN Recorded(want, a.vm.protected) ELSE tf
             /\ pc' = IF a.err # "ok" /\ a.registered THEN "create_record" ELSE "idle"
  /\ UNCHANGED <<want, protection, ghosts>>

\* The instance a failed create left is recorded, as a placeholder when it
\* cannot be read.
CreateRecord ==
  /\ pc = "create_record"
  /\ \E e \in Errors :
       /\ Gets(e)
       /\ tf' = [Recorded(want, e = "ok" /\ vm.protected) EXCEPT !.tainted = TRUE]
  /\ pc' = "idle"
  /\ UNCHANGED <<want, vm, protection, err, ours, ghosts>>

Delete ==
  /\ pc = "delete"
  /\ \E n \in {0, 1} : \E a \in Answers([op |-> "delete"], n) :
       /\ Asks([op |-> "delete"], a, n)
       /\ tf' = IF a.err = "ok" THEN Gone ELSE tf
  /\ pc' = "idle"
  /\ UNCHANGED <<want, protection, ghosts>>

\* Update returns an error of a call, and state the protection it reached.
Fails ==
  /\ pc' = "idle"
  /\ tf' = [tf EXCEPT !.protect = protection]

Unprotect ==
  /\ pc = "unprotect"
  /\ LET c == [op |-> "protect", want |-> FALSE] IN
     \E n \in {0, 1} : \E a \in Answers(c, n) :
       /\ Asks(c, a, n)
       /\ pc' = IF a.err = "ok" THEN "resize" ELSE "idle"
       /\ protection' = (a.err # "ok")
  /\ UNCHANGED <<want, tf, ghosts>>

\* Without a difference between plan and state Resize only sets the run state.
ResizeCall ==
  IF want.config = tf.config THEN [op |-> "run", want |-> want.start]
  ELSE [op |-> "resize", config |-> want.config, want |-> want.start]

\* resizeRequest refuses after protection was cleared, and nothing is recorded.
ResizeRefused == want.flaw = "unsized" /\ Refuses

\* Mutant: a failed restart is a failed resize.
ResizeNotRestart ==
  /\ pc = "resize"
  /\ \/ ResizeRefused
     \/ /\ want.flaw # "unsized"
        /\ \E n \in {0, 1} : \E a \in Answers(ResizeCall, n) :
             /\ Asks(ResizeCall, a, n)
             /\ IF a.err = "ok" THEN pc' = "protect" /\ UNCHANGED tf ELSE Fails
  /\ UNCHANGED <<want, protection, ghosts>>

\* Mutant: any failed resize is recorded as applied.
ResizeAlwaysRecorded ==
  /\ pc = "resize"
  /\ \/ ResizeRefused
     \/ /\ want.flaw # "unsized"
        /\ \E n \in {0, 1} : \E a \in Answers(ResizeCall, n) :
             /\ Asks(ResizeCall, a, n)
             /\ pc' = IF a.err = "ok" THEN "protect" ELSE "resize_record"
        /\ UNCHANGED tf
  /\ UNCHANGED <<want, protection, ghosts>>

Resize ==
  /\ pc = "resize"
  /\ \/ ResizeRefused
     \/ /\ want.flaw # "unsized"
        /\ \E n \in {0, 1} : \E a \in Answers(ResizeCall, n) :
             /\ Asks(ResizeCall, a, n)
             /\ CASE a.err = "ok"      -> pc' = "protect" /\ UNCHANGED tf
                  [] a.err = "restart" -> pc' = "resize_record" /\ UNCHANGED tf
                  [] OTHER             -> Fails
  /\ UNCHANGED <<want, protection, ghosts>>

\* recordAppliedResize: the change is in effect, the instance is down.
ResizeRecord ==
  /\ pc = "resize_record"
  /\ \E e \in Errors :
       /\ Gets(e)
       /\ tf' = [config |-> want.config, protect |-> protection, flaw |-> want.flaw,
                 start |-> e = "ok" /\ ObservedStart(FALSE), tainted |-> FALSE]
  /\ pc' = "idle"
  /\ UNCHANGED <<want, vm, protection, err, ours, ghosts>>

\* Mutant: what an update cleared it does not set again.
ProtectForgotten ==
  /\ pc = "protect"
  /\ pc' = "get"
  /\ UNCHANGED <<want, tf, vm, protection, late, err, ours, trouble, ghosts>>

Protect ==
  /\ pc = "protect"
  /\ LET c == [op |-> "protect", want |-> TRUE] IN
     IF want.protect /\ ~protection
     THEN \E n \in {0, 1} : \E a \in Answers(c, n) :
            /\ Asks(c, a, n)
            /\ IF a.err = "ok" THEN pc' = "get" /\ protection' = TRUE /\ UNCHANGED tf
               ELSE Fails /\ UNCHANGED protection
     ELSE pc' = "get" /\ UNCHANGED <<tf, vm, protection, late, err, ours, trouble>>
  /\ UNCHANGED <<want, ghosts>>

\* The read that ends an update, and the rendering after it, whose error is
\* returned with nothing recorded.
Get ==
  /\ pc = "get"
  /\ \E e \in Errors :
       /\ Gets(e)
       /\ CASE e # "ok" -> Fails /\ err' = e
            [] e = "ok" /\ want.flaw = "blank" ->
                 pc' = "idle" /\ err' = "refused" /\ UNCHANGED tf
            [] OTHER -> pc' = "idle" /\ err' = "ok" /\ tf' = Recorded(want, vm.protected)
  /\ UNCHANGED <<want, vm, protection, ours, ghosts>>

-----------------------------------------------------------------------------
(* Users.                                                                  *)

Settle ==
  /\ Settled(vm) # vm
  /\ vm' = Settled(vm)
  /\ ours' = (ours /\ Usable(vm'))
  /\ UNCHANGED <<want, tf, pc, protection, late, err, ghosts, trouble>>

UserResults(v) ==
  UNION {CASE a = "create"  -> {New(c, "stopped") : c \in {d \in Configs : ~Listed(v)}}
           [] a = "delete"  -> {Absent}
           [] a = "run"     -> {[v EXCEPT !.status = s] : s \in {"stopped", "running"}}
           [] a = "protect" -> {[v EXCEPT !.protected = b] : b \in BOOLEAN}
           [] a = "edit"    -> {[v EXCEPT !.config = c] : c \in {d \in Configs : Stopped(v)}}
         : a \in IF Usable(v) THEN IF v.protected THEN UserActs \ {"delete"} ELSE UserActs
                 ELSE UserActs \cap {"create"}}

User ==
  /\ trouble > 0 /\ trouble' = trouble - 1
  /\ vm' \in UserResults(vm) \ {vm}
  /\ base' = FALSE
  /\ ours' = (ours /\ Usable(vm'))
  /\ UNCHANGED <<want, tf, pc, protection, late, err, last>>

ChangeWant ==
  /\ Idle
  /\ trouble > 0 /\ trouble' = trouble - 1
  /\ want' \in (Wishes \cup {Gone}) \ {want}
  /\ last' = "none"
  /\ UNCHANGED <<tf, vm, pc, protection, late, err, base, ours>>

-----------------------------------------------------------------------------

Handler ==
  Create \/ CreateRecord \/ Delete \/ Unprotect \/ Resize \/ ResizeRecord \/ Protect \/ Get

Next == Refresh \/ ImportState \/ Apply \/ Handler \/ Settle \/ User \/ ChangeWant

Spec == Init /\ [][Next]_vars

(***************************************************************************)
(* The user goes on: handlers run to their end (every call returns, see    *)
(* Lifecycle), the user applies while there is something to apply, and a   *)
(* refresh, which an apply begins with, is not put off for ever.           *)
(***************************************************************************)
FairSpec == Spec /\ WF_vars(Handler) /\ WF_vars(Settle) /\ WF_vars(Apply) /\ SF_vars(Refresh)

-----------------------------------------------------------------------------
(* Properties.                                                             *)

Steps == {"idle", "create", "create_record", "delete", "unprotect", "resize",
          "resize_record", "protect", "get"}

TypeOK ==
  /\ want \in Wishes \cup {Gone}
  /\ tf \in States \cup {Gone}
  /\ vm \in VM
  /\ pc \in Steps
  /\ pc \in {"create", "create_record"} => want # Gone /\ tf = Gone
  /\ pc \in {"unprotect", "resize", "resize_record", "protect", "get"}
       => want # Gone /\ tf # Gone
  /\ {protection, late, base, ours} \subseteq BOOLEAN
  /\ err \in Errors \cup {"refused"}
  /\ last \in {"none", "refresh", "create", "delete", "update"}
  /\ trouble \in 0..MaxTrouble

Updated == Idle /\ last = "update" /\ base

\* An update that ends in time, whichever of its calls fails, leaves in state the
\* protection the instance has, though it may have cleared it and not come to set
\* it again (instance_resource.go:724-729); ProtectionRecorded is about the updates
\* that fail without a call failing.  After a failed restart, in time or not, state
\* also has the configuration that is in effect and an instance that is down, so
\* that the next plan is to start it and nothing else (773-776).
EffectRecorded ==
  Updated =>
    /\ ~late /\ err # "refused" => tf.protect = vm.protected
    /\ err = "restart" =>
         /\ tf.config = vm.config /\ tf.protect = vm.protected
         /\ tf.start <=> Running(vm) /\ ~late

\* No failed apply that was in time leaves state claiming a protection that the
\* instance no longer has (instance_resource.go:716-721).
ProtectionRecorded == Updated /\ ~late => (tf.protect => vm.protected)

\* Where an update, even one out of time, leaves the instance other than the user
\* wants it, state differs from the user's configuration too: the next plan shows
\* it without a refresh.
NoHiddenDifference ==
  Updated => /\ tf.config = want.config => vm.config = want.config
             /\ tf.protect = want.protect => vm.protected = want.protect

\* An apply that succeeds did what it was for: the next plan is clean, and for
\* the right reason.
CleanAfterApply ==
  /\ Updated /\ err = "ok" =>
       /\ ~Differs
       /\ vm.config = want.config /\ vm.protected = want.protect
       /\ Running(vm) <=> want.start
  /\ Idle /\ last = "delete" /\ err = "ok" => tf = Gone

\* An instance that a create of the resource made, whether it failed after that or
\* not, is in state until somebody removes it, through refreshes and failed updates
\* and deletes (instance_resource.go:593-595).  The one exception is a create that
\* runs out of time before the service can tell whether limactl registered the
\* instance: its instance is forgotten (EveryLeftoverReported, of Lifecycle).
NotForgotten == Idle /\ ours /\ Usable(vm) => tf # Gone

Clean ==
  /\ Idle
  /\ IF want = Gone THEN tf = Gone
     ELSE /\ tf = Recorded(want, want.protect)
          /\ Usable(vm) /\ vm.config = want.config /\ vm.protected = want.protect
          /\ want.start => ~Stopped(vm)
          /\ ~want.start => ~Running(vm)

\* What only the user can resolve: an instance that is not the resource's, a
\* protected one to delete, a broken one to stop, a configuration that handlers
\* refuse.
NeedsUser ==
  \/ tf = Gone /\ want # Gone /\ Listed(vm)
  \/ tf # Gone /\ vm.protected /\ (want = Gone \/ tf.tainted)
  \/ tf # Gone /\ want # Gone /\ vm.status = "broken" /\ ~want.start
  \/ want # Gone /\ want.flaw # "none" /\ (tf = Gone \/ tf.flaw # want.flaw)

\* However often applies fail and users interfere before, going on refreshing and
\* applying ends with a clean plan and the instance that was asked for, or with
\* one of the refusals only the user can resolve.
Converges == <>[]Clean \/ <>[]NeedsUser

=============================================================================
