----------------------- MODULE InstanceResourceProofs -----------------------
(***************************************************************************)
(* Proofs about InstanceResource, for any configurations, users and amount *)
(* of trouble: what state says when a handler has ended, whatever the      *)
(* service answered within its contract.                                   *)
(*                                                                         *)
(* The properties speak of the end of an update; Follows says where the    *)
(* update is before that, step by step: what state still says of the       *)
(* instance, what the instance has by now and what the local variable      *)
(* protection stands for.  OursInv does the same for an instance that a    *)
(* create left behind, until the handler has recorded it.                  *)
(***************************************************************************)
EXTENDS InstanceResource, TLAPS

UpdateSteps == {"unprotect", "resize", "resize_record", "protect", "get"}

\* Which handler a step belongs to.
LastInv ==
  /\ pc \in {"create", "create_record"} => last = "create"
  /\ pc = "delete" => last = "delete" /\ tf # Gone
  /\ pc \in UpdateSteps => last = "update"
  /\ last = "delete" /\ pc = "idle" /\ err = "ok" => tf = Gone

\* An instance of ours is in state, or about to be.
OursInv ==
  /\ ours => Usable(vm)
  /\ ours /\ tf = Gone => pc = "create_record"

\* Where an update that nobody disturbs has got to.
Follows ==
  /\ Usable(vm)
  /\ tf # Gone /\ want # Gone
  /\ pc \in {"unprotect", "resize"} => tf.config = vm.config
  /\ pc = "unprotect" => vm.protected /\ tf.protect /\ ~want.protect
  /\ pc \in UpdateSteps \ {"unprotect"} =>
       vm.protected = protection /\ (protection => want.protect)
  /\ pc = "resize" => (protection <=> tf.protect /\ want.protect)
  /\ pc = "resize_record" => err = "restart" /\ vm.config = want.config
  /\ pc = "resize_record" /\ Running(vm) => late
  /\ pc \in {"protect", "get"} => vm.config = want.config /\ (Running(vm) <=> want.start)
  /\ pc = "get" => protection = want.protect
  /\ EffectRecorded /\ NoHiddenDifference /\ CleanAfterApply

UpdateInv == base /\ last = "update" => Follows

IInv == TypeOK /\ LastInv /\ OursInv /\ UpdateInv

-----------------------------------------------------------------------------
(* What the service's promises say of an instance v and what is left of it. *)

\* An instance's fields, and that it can be told from the absent one.
LEMMA InstanceFields ==
  ASSUME NEW v \in VM
  PROVE  /\ v.protected \in BOOLEAN
         /\ Usable(v) => Listed(v) /\ v.config \in Configs
         /\ Listed(v) => /\ v \in [status : Statuses \ {"absent"}, protected : BOOLEAN,
                                   config : Configs]
                         /\ v.config \in Configs
         /\ ~Listed(v) => v = Absent
<1>1. CASE v = Absent
  BY <1>1 DEF Absent, Usable, Listed
<1>2. CASE v \in [status : Statuses \ {"absent"}, protected : BOOLEAN, config : Configs]
  BY <1>2 DEF Usable, Listed
<1> QED
  BY <1>1, <1>2 DEF VM

\* The file system catching up changes of a usable instance only the status.
LEMMA SettledFacts ==
  ASSUME NEW v \in VM
  PROVE  /\ Settled(v) \in VM
         /\ Usable(Settled(v)) <=> Usable(v)
         /\ Running(Settled(v)) <=> Running(v)
         /\ Usable(v) => SameButStatus(v, Settled(v))
<1>1. CASE v.status = "creating"
  <2>1. v \in [status : Statuses \ {"absent"}, protected : BOOLEAN, config : Configs]
    BY <1>1, InstanceFields DEF Listed
  <2>2. Settled(v) = [v EXCEPT !.status = "stopped"]
    BY <1>1 DEF Settled
  <2>3. /\ Settled(v) \in [status : Statuses \ {"absent"}, protected : BOOLEAN,
                           config : Configs]
        /\ Settled(v).status = "stopped"
        /\ Settled(v).protected = v.protected /\ Settled(v).config = v.config
    BY <2>1, <2>2 DEF Statuses
  <2> QED
    BY <1>1, <2>3 DEF VM, Usable, Running, SameButStatus
<1>2. CASE v.status = "deleting"
  BY <1>2 DEF Settled, Absent, VM, Usable, Running
<1>3. CASE v.status \notin {"creating", "deleting"}
  <2>1. Settled(v) = v
    BY <1>3 DEF Settled
  <2> QED
    BY <2>1 DEF SameButStatus
<1> QED
  BY <1>1, <1>2, <1>3

\* What a call does not touch keeps what is compared with state.
LEMMA UntouchedKeeps ==
  ASSUME NEW v \in VM, NEW w, Untouched(v, w)
  PROVE  /\ Usable(w) <=> Usable(v)
         /\ Running(w) <=> Running(v)
         /\ Usable(v) => SameButStatus(v, w)
<1>1. CASE w = v
  BY <1>1 DEF SameButStatus
<1>2. CASE w = Settled(v)
  BY <1>2, SettledFacts
<1> QED
  BY <1>1, <1>2 DEF Untouched

\* Setting the run state of an instance leaves the rest of it.
LEMMA RunKeeps ==
  ASSUME NEW v \in VM, NEW w, NEW c, NEW e, NEW x, c.want \in BOOLEAN,
         Usable(v), RunPromise(c, v, w, e, x)
  PROVE  /\ SameButStatus(v, w)
         /\ e \in {"ok", "failed", "broken", "timeout"}
         /\ e = "ok" => (Running(w) <=> c.want)
<1>1. CASE e = "ok" /\ SameButStatus(v, w) /\ w.status = RunStatus(c.want)
  BY <1>1 DEF RunStatus, Running
<1>2. CASE e \in {"failed", "broken", "timeout"} /\ (SameButStatus(v, w) \/ Untouched(v, w))
  BY <1>2, UntouchedKeeps
<1> QED
  BY <1>1, <1>2 DEF RunPromise

\* A resize of an instance that differs changes its configuration or, where it
\* fails, leaves it; a failed restart is after the change, and down in time.
LEMMA EditKeeps ==
  ASSUME NEW v \in VM, NEW w, NEW c, NEW e, NEW x, c.want \in BOOLEAN,
         Usable(v), v.config # c.config, ResizePromise(c, v, w, e, x)
  PROVE  /\ Usable(w) /\ w.protected = v.protected
         /\ e \in {"ok", "restart", "failed", "timeout"}
         /\ w.config \in {v.config, c.config}
         /\ e \in {"ok", "restart"} => w.config = c.config
         /\ e = "ok" => (Running(w) <=> c.want)
         /\ e = "restart" => c.want /\ (Running(w) => x)
<1>1. CASE Untouched(v, w) /\ e \in {"failed", "timeout"}
  BY <1>1, UntouchedKeeps DEF SameButStatus
<1>2. CASE ~(Untouched(v, w) /\ e \in {"failed", "timeout"})
  BY <1>2 DEF ResizePromise, SameButStatus
<1> QED
  BY <1>1, <1>2

\* Protecting changes nothing else, and nothing where it fails in time.
LEMMA ProtectKeeps ==
  ASSUME NEW v \in VM, NEW w, NEW c, NEW e, NEW x, c.want \in BOOLEAN,
         Usable(v), ProtectPromise(c, v, w, e, x)
  PROVE  /\ Usable(w) /\ w.config = v.config
         /\ Running(w) <=> Running(v)
         /\ e \in {"ok", "failed", "timeout"}
         /\ e = "ok" => w.protected = c.want
         /\ e # "ok" => w.protected = v.protected \/ (x /\ w.protected = c.want)
<1>1. CASE w \in {[y EXCEPT !.protected = c.want] : y \in {v, Settled(v)}}
  <2>1. PICK y \in {v, Settled(v)} : w = [y EXCEPT !.protected = c.want]
    BY <1>1
  <2>2. Untouched(v, y)
    BY <2>1 DEF Untouched
  <2>3. y \in VM /\ Listed(y)
    BY <2>1, <2>2, SettledFacts, UntouchedKeeps, InstanceFields
  <2>4. y \in [status : Statuses \ {"absent"}, protected : BOOLEAN, config : Configs]
    BY <2>3, InstanceFields
  <2>5. w.status = y.status /\ w.config = y.config /\ w.protected = c.want
    BY <2>1, <2>4
  <2>6. Usable(y) /\ (Running(y) <=> Running(v)) /\ y.config = v.config
    BY <2>2, UntouchedKeeps DEF SameButStatus
  <2>7. Usable(w) /\ (Running(w) <=> Running(v)) /\ w.config = v.config
    BY <2>5, <2>6 DEF Usable, Running
  <2>8. e \in {"ok", "failed", "timeout"} /\ (e # "ok" => w.protected = v.protected \/ x)
    <3>1. CASE Untouched(v, w)
      BY <3>1, UntouchedKeeps DEF SameButStatus, ProtectPromise
    <3>2. CASE ~Untouched(v, w)
      BY <3>2 DEF ProtectPromise
    <3> QED
      BY <3>1, <3>2
  <2> QED
    BY <2>5, <2>7, <2>8
<1>2. CASE w \notin {[y EXCEPT !.protected = c.want] : y \in {v, Settled(v)}}
  <2>1. Untouched(v, w)
    BY <1>2 DEF ProtectPromise
  <2>2. SameButStatus(v, w) /\ (Running(w) <=> Running(v))
    BY <2>1, UntouchedKeeps
  <2>3. \/ e = "ok" /\ v.protected = c.want
        \/ e \in {"failed", "timeout"}
    BY <1>2 DEF ProtectPromise
  <2> QED
    BY <2>2, <2>3 DEF SameButStatus
<1> QED
  BY <1>1, <1>2

\* A create that is in time and reports no registration leaves nothing that was
\* not there.
LEMMA CreateLeaves ==
  ASSUME NEW v \in VM, NEW w, NEW c, NEW e, NEW r, NEW x,
         CreatePromise(c, v, w, e, r, x)
  PROVE  Usable(w) => Usable(v) \/ r \/ x
<1>1. CASE Untouched(v, w)
  BY <1>1, UntouchedKeeps
<1>2. CASE ~Untouched(v, w)
  BY <1>2 DEF CreatePromise
<1> QED
  BY <1>1, <1>2

-----------------------------------------------------------------------------
(* Terraform state and what a step may write to it.                        *)

\* A configuration's fields, and that it is not Gone.
LEMMA WishFields ==
  ASSUME NEW w \in Wishes
  PROVE  /\ w # Gone
         /\ w.config \in Configs /\ w.start \in BOOLEAN /\ w.protect \in BOOLEAN
         /\ w.flaw \in Flaws
  BY GoneAssumption DEF Wishes

\* Recorded state has the configuration's fields, and the protection it is given.
LEMMA RecordedFields ==
  ASSUME NEW w \in Wishes, NEW p \in BOOLEAN
  PROVE  /\ Recorded(w, p) \in States /\ Recorded(w, p) # Gone
         /\ Recorded(w, p).config = w.config /\ Recorded(w, p).start = w.start
         /\ Recorded(w, p).protect = p
<1>1. Recorded(w, p) \in States
  BY WishFields DEF Recorded, States
<1> QED
  BY <1>1, GoneAssumption DEF Recorded

\* A tainted record is state.
LEMMA TaintedState ==
  ASSUME NEW s \in States
  PROVE  [s EXCEPT !.tainted = TRUE] \in States /\ [s EXCEPT !.tainted = TRUE] # Gone
  BY GoneAssumption DEF States

\* State with another protection keeps the rest.
LEMMA ProtectState ==
  ASSUME NEW s \in States, NEW p \in BOOLEAN
  PROVE  LET t == [s EXCEPT !.protect = p] IN
         t \in States /\ t # Gone /\ t.config = s.config /\ t.protect = p
  BY GoneAssumption DEF States

\* What a read finds is written over state.
LEMMA ObservedState ==
  ASSUME NEW s \in States, vm \in VM, Listed(vm)
  PROVE  Observed(s) \in States /\ Observed(s) # Gone
<1> DEFINE b == ObservedStart(s.start)
           p == vm.protected
           c == vm.config
<1>1. b \in BOOLEAN /\ p \in BOOLEAN /\ c \in Configs
  BY InstanceFields DEF ObservedStart, States
<1>2. Observed(s) = [s EXCEPT !.protect = p, !.config = c, !.start = b]
  BY DEF Observed, States
<1> HIDE DEF b, p, c
<1>3. Observed(s) \in States
  BY <1>1, <1>2 DEF States
<1> QED
  BY <1>3, GoneAssumption

-----------------------------------------------------------------------------
(* Steps of the service, and of users.                                     *)

\* A call that is answered leaves an instance, an error and a context that the
\* contract allows.
LEMMA Asked ==
  ASSUME TypeOK, NEW c, NEW n \in {0, 1}, NEW a \in Answers(c, n), Asks(c, a, n)
  PROVE  /\ vm' \in VM /\ err' \in Errors /\ a.err # "refused" /\ a.registered \in BOOLEAN
         /\ {late', ours'} \subseteq BOOLEAN
         /\ trouble' \in 0..MaxTrouble
         /\ a.vm = vm' /\ a.err = err' /\ a.late = late'
         /\ Promised(c, vm, vm', err', a.registered, late')
<1>1. a \in Possible(c) /\ n <= trouble
  BY DEF Answers, Calm, TypeOK
<1>2. /\ a.vm \in VM /\ a.err \in Errors /\ a.registered \in BOOLEAN /\ a.late \in BOOLEAN
      /\ Promised(c, vm, a.vm, a.err, a.registered, a.late)
  <2> DEFINE R == {FALSE, c.op = "create"}
             L == {late, TRUE}
  <2>1. R \subseteq BOOLEAN /\ L \subseteq BOOLEAN
    BY DEF TypeOK
  <2>2. /\ a \in [vm : VM, err : Errors, registered : R, late : L]
        /\ Promised(c, vm, a.vm, a.err, a.registered, a.late)
    BY <1>1 DEF Possible
  <2> HIDE DEF R, L
  <2> QED
    BY <2>1, <2>2
<1>3. a.vm = vm' /\ a.err = err' /\ a.late = late'
  BY DEF Asks
<1>4. trouble' \in 0..MaxTrouble
  BY <1>1, TroubleAssumption DEF Asks, TypeOK
<1>5. ours' \in BOOLEAN
  <2> DEFINE b == /\ Usable(a.vm)
                  /\ \/ ours
                     \/ /\ c.op = "create" /\ ~Usable(vm)
                        /\ a.err = "ok" \/ a.registered \/ ~a.late
  <2>1. b \in BOOLEAN
    OBVIOUS
  <2>2. ours' = b
    BY DEF Asks
  <2> QED
    BY <2>1, <2>2
<1> QED
  BY <1>2, <1>3, <1>4, <1>5 DEF Errors

\* A read that is answered says whether the instance is there, in time.
LEMMA Gotten ==
  ASSUME TypeOK, NEW e, Gets(e)
  PROVE  /\ e \in {"ok", "notfound", "failed", "timeout"}
         /\ late' \in BOOLEAN /\ trouble' \in 0..MaxTrouble
         /\ e = "ok" => ~late /\ ~late' /\ Listed(vm)
         /\ late => late'
<1>1. late \in BOOLEAN /\ trouble \in 0..MaxTrouble /\ MaxTrouble \in Nat
  BY TroubleAssumption DEF TypeOK
<1>2. CASE late /\ e = "timeout" /\ UNCHANGED <<late, trouble>>
  BY <1>1, <1>2
<1>3. CASE /\ ~late /\ e = (IF Listed(vm) THEN "ok" ELSE "notfound")
           /\ UNCHANGED <<late, trouble>>
  BY <1>1, <1>3
<1>4. CASE /\ ~late /\ e \in {"failed", "timeout"} /\ late' = (e = "timeout")
           /\ trouble > 0 /\ trouble' = trouble - 1
  BY <1>1, <1>4
<1> QED
  BY <1>2, <1>3, <1>4 DEF Gets

\* Whatever users do leaves an instance.
LEMMA UserLeaves ==
  ASSUME NEW v \in VM, NEW w \in UserResults(v)
  PROVE  w \in VM
<1> DEFINE acts == IF Usable(v) THEN IF v.protected THEN UserActs \ {"delete"} ELSE UserActs
                   ELSE UserActs \cap {"create"}
           After(a) ==
             CASE a = "create"  -> {New(c, "stopped") : c \in {d \in Configs : ~Listed(v)}}
               [] a = "delete"  -> {Absent}
               [] a = "run"     -> {[v EXCEPT !.status = s] : s \in {"stopped", "running"}}
               [] a = "protect" -> {[v EXCEPT !.protected = b] : b \in BOOLEAN}
               [] a = "edit"    -> {[v EXCEPT !.config = c] : c \in {d \in Configs : Stopped(v)}}
<1>1. w \in UNION {After(a) : a \in acts}
  BY DEF UserResults
<1>2. PICK a \in acts : w \in After(a)
  <2> HIDE DEF acts, After
  <2> QED
    BY <1>1
<1>3. /\ a \in {"create", "delete", "run", "protect", "edit"}
      /\ Usable(v) \/ a = "create"
  BY <1>2, ActsAssumption
<1> DEFINE R == [status : Statuses \ {"absent"}, protected : BOOLEAN, config : Configs]
<1>4. a # "create" => v \in R
  BY <1>3, InstanceFields
<1>5. CASE a = "create"
  <2>1. PICK c \in Configs : w = New(c, "stopped")
    BY <1>2, <1>5
  <2> QED
    BY <2>1 DEF New, VM, Statuses
<1>6. CASE a = "delete"
  BY <1>2, <1>6 DEF VM
<1>7. CASE a = "run"
  <2>1. PICK s \in {"stopped", "running"} : w = [v EXCEPT !.status = s]
    BY <1>2, <1>7
  <2> QED
    BY <2>1, <1>4, <1>7 DEF VM, Statuses
<1>8. CASE a = "protect"
  <2>1. PICK b \in BOOLEAN : w = [v EXCEPT !.protected = b]
    BY <1>2, <1>8
  <2> QED
    BY <2>1, <1>4, <1>8 DEF VM
<1>9. CASE a = "edit"
  <2>1. PICK c \in Configs : w = [v EXCEPT !.config = c]
    BY <1>2, <1>9
  <2> QED
    BY <2>1, <1>4, <1>9 DEF VM
<1> QED
  BY <1>3, <1>5, <1>6, <1>7, <1>8, <1>9

-----------------------------------------------------------------------------
(* Types.                                                                  *)

\* The program starts with the types it keeps.
LEMMA InitTypeOK == Init => TypeOK
<1> SUFFICES ASSUME Init PROVE TypeOK
  OBVIOUS
<1>1. /\ want \in Wishes \cup {Gone} /\ pc = "idle"
      /\ protection = FALSE /\ late = FALSE /\ base = FALSE /\ ours = FALSE
      /\ err = "ok" /\ last = "none" /\ trouble \in 0..MaxTrouble
  BY TroubleAssumption DEF Init
<1>2. tf \in States \cup {Gone} /\ vm \in VM
  <2>1. CASE tf = Gone /\ vm \in {Absent} \cup {New(c, "stopped") : c \in Configs}
    <3>1. CASE vm = Absent
      BY <2>1, <3>1 DEF VM
    <3>2. ASSUME NEW c \in Configs, vm = New(c, "stopped") PROVE vm \in VM
      BY <3>2 DEF New, VM, Statuses
    <3> QED
      BY <2>1, <3>1, <3>2
  <2>2. ASSUME NEW w \in Wishes, tf = Recorded(w, w.protect),
               vm = [status |-> RunStatus(w.start), protected |-> w.protect,
                     config |-> w.config]
        PROVE  tf \in States /\ vm \in VM
    BY <2>2, WishFields, RecordedFields DEF RunStatus, VM, Statuses
  <2> QED
    BY <2>1, <2>2 DEF Init
<1> QED
  BY <1>1, <1>2 DEF TypeOK, Steps, Errors

\* The fields of a record of state.
LEMMA StateFields ==
  ASSUME NEW w \in Wishes, NEW q \in BOOLEAN, NEW d \in BOOLEAN, NEW p \in BOOLEAN
  PROVE  LET t == [config |-> w.config, protect |-> q, flaw |-> w.flaw, start |-> p,
                   tainted |-> d] IN
         /\ t \in States
         /\ t.config = w.config /\ t.protect = q /\ t.start = p
  BY WishFields DEF States

\* What an import writes is state.
LEMMA ImportedState ==
  ASSUME TypeOK, ImportState
  PROVE  tf' \in States /\ tf' # Gone
<1> DEFINE r == Running(vm)
           d == FALSE
           none == "none"
<1>1. r \in BOOLEAN /\ d \in BOOLEAN
  BY DEF Running
<1>2. tf' = [config |-> vm.config, start |-> r, protect |-> vm.protected, flaw |-> none,
             tainted |-> d]
  BY DEF ImportState
<1>5. none \in Flaws
  BY FlawsAssumption
<1>3. vm.config \in Configs /\ vm.protected \in BOOLEAN
  BY InstanceFields DEF ImportState, TypeOK
<1> HIDE DEF r, d, none
<1>4. tf' \in States
  BY <1>1, <1>2, <1>3, <1>5 DEF States
<1> QED
  BY <1>4, GoneAssumption

\* So is the record of a failed create.
LEMMA CreateRecorded ==
  ASSUME TypeOK, CreateRecord
  PROVE  tf' \in States /\ tf' # Gone
<1>1. PICK e : tf' = [Recorded(want, e = "ok" /\ vm.protected) EXCEPT !.tainted = TRUE]
  BY DEF CreateRecord
<1> DEFINE p == e = "ok" /\ vm.protected
<1>2. p \in BOOLEAN /\ want \in Wishes
  BY DEF CreateRecord, TypeOK
<1>3. tf' = [Recorded(want, p) EXCEPT !.tainted = TRUE]
  BY <1>1
<1> HIDE DEF p
<1> QED
  BY <1>2, <1>3, RecordedFields, TaintedState

\* So is the record of an applied resize, and it says what is in effect.
LEMMA ResizeRecorded ==
  ASSUME TypeOK, ResizeRecord
  PROVE  /\ tf' \in States /\ tf' # Gone
         /\ tf'.config = want.config /\ tf'.protect = protection
         /\ \E e \in Errors : Gets(e) /\ (tf'.start <=> e = "ok" /\ Running(vm))
<1>1. PICK e \in Errors :
        /\ Gets(e)
        /\ tf' = [config |-> want.config, protect |-> protection, flaw |-> want.flaw,
                  start |-> e = "ok" /\ ObservedStart(FALSE), tainted |-> FALSE]
  BY DEF ResizeRecord
<1>2. want \in Wishes /\ protection \in BOOLEAN
  BY DEF ResizeRecord, TypeOK
<1> DEFINE p == e = "ok" /\ ObservedStart(FALSE)
           d == FALSE
<1>3. p \in BOOLEAN /\ d \in BOOLEAN
  BY DEF ObservedStart
<1>4. p <=> e = "ok" /\ Running(vm)
  BY DEF ObservedStart
<1>5. tf' = [config |-> want.config, protect |-> protection, flaw |-> want.flaw,
             start |-> p, tainted |-> d]
  BY <1>1
<1>6. Gets(e)
  BY <1>1
<1> HIDE DEF p, d
<1>7. /\ tf' \in States
      /\ tf'.config = want.config /\ tf'.protect = protection /\ tf'.start = p
  BY <1>2, <1>3, <1>5, StateFields
<1>8. tf'.start <=> e = "ok" /\ Running(vm)
  BY <1>4, <1>7
<1> QED
  BY <1>6, <1>7, <1>8, GoneAssumption

\* A refresh or an import writes state.
LEMMA ReadTypeOK == TypeOK /\ (Refresh \/ ImportState) => TypeOK'
<1>1. ASSUME TypeOK, Refresh PROVE TypeOK'
  <2>1. tf \in States
    BY <1>1 DEF Refresh, TypeOK
  <2>2. tf' \in States \cup {Gone}
    BY <1>1, <2>1, ObservedState DEF Refresh, TypeOK
  <2> QED
    BY <1>1, <2>2 DEF Refresh, Idle, TypeOK
<1>2. ASSUME TypeOK, ImportState PROVE TypeOK'
  <2>2. tf' \in States
    BY <1>2, ImportedState
  <2>3. trouble' \in 0..MaxTrouble
    BY <1>2, TroubleAssumption DEF ImportState, TypeOK
  <2> QED
    BY <1>2, <2>2, <2>3 DEF ImportState, Idle, TypeOK
<1> QED
  BY <1>1, <1>2

\* What Terraform calls when there is a difference.
LEMMA ApplyStarts ==
  ASSUME TypeOK, Apply
  PROVE  /\ pc' \in {"create", "delete", "unprotect", "resize"}
         /\ pc' = "create" => tf = Gone /\ want # Gone /\ last' = "create"
         /\ pc' = "delete" => tf # Gone /\ last' = "delete"
         /\ pc' \in {"unprotect", "resize"} =>
              tf # Gone /\ want # Gone /\ last' = "update"
         /\ pc' = "unprotect" => tf.protect /\ ~want.protect
         /\ pc' = "resize" => ~(tf.protect /\ ~want.protect)
<1>1. pc' = FirstStep
  BY DEF Apply
<1>2. last' = CASE FirstStep \in {"create", "delete"} -> FirstStep [] OTHER -> "update"
  BY DEF Apply
<1>3. tf = Gone => want # Gone
  BY DEF Apply
<1>4. CASE tf = Gone
  BY <1>1, <1>2, <1>3, <1>4 DEF FirstStep
<1>5. CASE tf # Gone /\ (want = Gone \/ tf.tainted)
  BY <1>1, <1>2, <1>5 DEF FirstStep
<1>6. CASE tf # Gone /\ want # Gone /\ ~tf.tainted /\ tf.protect /\ ~want.protect
  <2>1. FirstStep = "unprotect"
    BY <1>6 DEF FirstStep
  <2> QED
    BY <1>1, <1>2, <1>6, <2>1
<1>7. CASE tf # Gone /\ want # Gone /\ ~tf.tainted /\ ~(tf.protect /\ ~want.protect)
  <2>1. FirstStep = "resize"
    BY <1>7 DEF FirstStep
  <2> QED
    BY <1>1, <1>2, <1>7, <2>1
<1> QED
  BY <1>4, <1>5, <1>6, <1>7

\* The handlers are called with their arguments.
LEMMA ApplyTypeOK == TypeOK /\ Apply => TypeOK'
<1> SUFFICES ASSUME TypeOK, Apply PROVE TypeOK'
  OBVIOUS
<1>1. /\ pc' \in Steps
      /\ pc' \in {"create", "create_record"} => want # Gone /\ tf = Gone
      /\ pc' \in {"unprotect", "resize", "resize_record", "protect", "get"}
           => want # Gone /\ tf # Gone
      /\ last' \in {"create", "delete", "update"}
  BY ApplyStarts DEF Steps
<1>2. protection' \in BOOLEAN
  <2>1. tf # Gone => tf.protect \in BOOLEAN
    BY DEF TypeOK, States
  <2> QED
    BY <2>1 DEF Apply
<1>3. base' \in BOOLEAN
  <2> DEFINE b == tf # Gone /\ Usable(vm) /\ tf.protect = vm.protected /\ tf.config = vm.config
  <2>1. b \in BOOLEAN
    OBVIOUS
  <2> QED
    BY <2>1 DEF Apply
<1> QED
  BY <1>1, <1>2, <1>3 DEF Apply, TypeOK, Errors

\* The steps that call the service and write no more than state.
LEMMA CallTypeOK == TypeOK /\ (Create \/ Delete \/ Unprotect \/ Resize) => TypeOK'
<1> SUFFICES ASSUME TypeOK PROVE (Create \/ Delete \/ Unprotect \/ Resize) => TypeOK'
  OBVIOUS
<1>0. ASSUME Refuses, UNCHANGED <<want, protection, ghosts>> PROVE TypeOK'
  BY <1>0 DEF Refuses, TypeOK, ghosts, Steps
<1>1. ASSUME Create, want.flaw # "blank" PROVE TypeOK'
  <2> DEFINE c == CreateCall
  <2>1. PICK n, a :
          /\ n \in {0, 1} /\ a \in Answers(c, n)
          /\ Asks(c, a, n)
          /\ tf' = IF a.err = "ok" THEN Recorded(want, a.vm.protected) ELSE tf
          /\ pc' = IF a.err # "ok" /\ a.registered THEN "create_record" ELSE "idle"
    BY <1>1 DEF Create
  <2>2. /\ pc = "create" /\ want \in Wishes /\ tf = Gone
        /\ UNCHANGED <<want, protection, ghosts>>
    BY <1>1 DEF Create, TypeOK
  <2> HIDE DEF c
  <2>3. /\ vm' \in VM /\ err' \in Errors /\ {late', ours'} \subseteq BOOLEAN
        /\ trouble' \in 0..MaxTrouble /\ a.vm = vm' /\ a.err = err'
    BY <2>1, Asked
  <2>4. tf' = Gone \/ (tf' \in States /\ err' = "ok")
    BY <2>1, <2>2, <2>3, RecordedFields, InstanceFields
  <2>5. pc' = "idle" \/ (pc' = "create_record" /\ err' # "ok")
    BY <2>1, <2>3
  <2> QED
    BY <2>2, <2>3, <2>4, <2>5 DEF TypeOK, ghosts, Steps
<1>2. ASSUME Delete PROVE TypeOK'
  <2> DEFINE c == [op |-> "delete"]
  <2>1. PICK n, a :
          /\ n \in {0, 1} /\ a \in Answers(c, n)
          /\ Asks(c, a, n)
          /\ tf' = IF a.err = "ok" THEN Gone ELSE tf
    BY <1>2 DEF Delete
  <2>2. pc' = "idle" /\ UNCHANGED <<want, protection, ghosts>>
    BY <1>2 DEF Delete
  <2> HIDE DEF c
  <2>3. /\ vm' \in VM /\ err' \in Errors /\ {late', ours'} \subseteq BOOLEAN
        /\ trouble' \in 0..MaxTrouble
    BY <2>1, Asked
  <2>4. tf' \in States \cup {Gone}
    BY <2>1 DEF TypeOK
  <2> QED
    BY <2>2, <2>3, <2>4 DEF TypeOK, ghosts, Steps
<1>3. ASSUME Unprotect PROVE TypeOK'
  <2> DEFINE c == [op |-> "protect", want |-> FALSE]
  <2>1. PICK n, a :
          /\ n \in {0, 1} /\ a \in Answers(c, n)
          /\ Asks(c, a, n)
          /\ pc' = IF a.err = "ok" THEN "resize" ELSE "idle"
          /\ protection' = (a.err # "ok")
    BY <1>3 DEF Unprotect
  <2>2. want # Gone /\ tf # Gone /\ UNCHANGED <<want, tf, ghosts>>
    BY <1>3 DEF Unprotect, TypeOK
  <2> HIDE DEF c
  <2>3. /\ vm' \in VM /\ err' \in Errors /\ {late', ours'} \subseteq BOOLEAN
        /\ trouble' \in 0..MaxTrouble
    BY <2>1, Asked
  <2>4. protection' \in BOOLEAN /\ pc' \in {"resize", "idle"}
    BY <2>1
  <2> QED
    BY <2>2, <2>3, <2>4 DEF TypeOK, ghosts, Steps
<1>4. ASSUME Resize, want.flaw # "unsized" PROVE TypeOK'
  <2>1. PICK n, a :
          /\ n \in {0, 1} /\ a \in Answers(ResizeCall, n)
          /\ Asks(ResizeCall, a, n)
          /\ CASE a.err = "ok"      -> pc' = "protect" /\ UNCHANGED tf
               [] a.err = "restart" -> pc' = "resize_record" /\ UNCHANGED tf
               [] OTHER             -> Fails
    BY <1>4 DEF Resize, ResizeRefused
  <2>2. want # Gone /\ tf \in States /\ tf # Gone /\ protection \in BOOLEAN
        /\ UNCHANGED <<want, protection, ghosts>>
    BY <1>4 DEF Resize, TypeOK
  <2>3. /\ vm' \in VM /\ err' \in Errors /\ {late', ours'} \subseteq BOOLEAN
        /\ trouble' \in 0..MaxTrouble
    BY <2>1, Asked
  <2>4. \/ pc' \in {"protect", "resize_record"} /\ tf' = tf
        \/ Fails
    BY <2>1
  <2>5. pc' \in {"protect", "resize_record", "idle"} /\ tf' \in States /\ tf' # Gone
    BY <2>2, <2>4, ProtectState DEF Fails
  <2> QED
    BY <2>2, <2>3, <2>5 DEF TypeOK, ghosts, Steps
<1> QED
  BY <1>0, <1>1, <1>2, <1>3, <1>4 DEF Create, Resize, ResizeRefused

\* The steps that read the instance, and the last call.
LEMMA RestTypeOK == TypeOK /\ (CreateRecord \/ ResizeRecord \/ Protect \/ Get) => TypeOK'
<1> SUFFICES ASSUME TypeOK PROVE (CreateRecord \/ ResizeRecord \/ Protect \/ Get) => TypeOK'
  OBVIOUS
<1>1. ASSUME CreateRecord PROVE TypeOK'
  <2>1. /\ pc' = "idle" /\ \E e \in Errors : Gets(e)
        /\ UNCHANGED <<want, vm, protection, err, ours, ghosts>>
    BY <1>1 DEF CreateRecord
  <2>2. late' \in BOOLEAN /\ trouble' \in 0..MaxTrouble
    BY <2>1, Gotten
  <2> QED
    BY <1>1, <2>1, <2>2, CreateRecorded DEF TypeOK, ghosts, Steps
<1>2. ASSUME ResizeRecord PROVE TypeOK'
  <2>1. /\ pc' = "idle" /\ \E e \in Errors : Gets(e)
        /\ UNCHANGED <<want, vm, protection, err, ours, ghosts>>
    BY <1>2 DEF ResizeRecord
  <2>2. late' \in BOOLEAN /\ trouble' \in 0..MaxTrouble
    BY <2>1, Gotten
  <2> QED
    BY <1>2, <2>1, <2>2, ResizeRecorded DEF TypeOK, ghosts, Steps
<1>3. ASSUME Protect PROVE TypeOK'
  <2>1. want # Gone /\ tf \in States /\ tf # Gone /\ protection \in BOOLEAN
        /\ UNCHANGED <<want, ghosts>>
    BY <1>3 DEF Protect, TypeOK
  <2>2. CASE want.protect /\ ~protection
    <3> DEFINE c == [op |-> "protect", want |-> TRUE]
    <3>1. PICK n, a :
            /\ n \in {0, 1} /\ a \in Answers(c, n)
            /\ Asks(c, a, n)
            /\ IF a.err = "ok" THEN pc' = "get" /\ protection' = TRUE /\ UNCHANGED tf
               ELSE Fails /\ UNCHANGED protection
      BY <1>3, <2>2 DEF Protect
    <3> HIDE DEF c
    <3>2. /\ vm' \in VM /\ err' \in Errors /\ {late', ours'} \subseteq BOOLEAN
          /\ trouble' \in 0..MaxTrouble
      BY <3>1, Asked
    <3>3. pc' \in {"get", "idle"} /\ tf' \in States /\ tf' # Gone /\ protection' \in BOOLEAN
      BY <2>1, <3>1, ProtectState DEF Fails
    <3> QED
      BY <2>1, <3>2, <3>3 DEF TypeOK, ghosts, Steps
  <2>3. CASE ~(want.protect /\ ~protection)
    <3>1. pc' = "get" /\ UNCHANGED <<tf, vm, protection, late, err, ours, trouble>>
      BY <1>3, <2>3 DEF Protect
    <3> QED
      BY <2>1, <3>1 DEF TypeOK, ghosts, Steps
  <2> QED
    BY <2>2, <2>3
<1>4. ASSUME Get PROVE TypeOK'
  <2>1. PICK e \in Errors :
          /\ Gets(e)
          /\ \/ Fails /\ err' = e
             \/ pc' = "idle" /\ err' = "refused" /\ UNCHANGED tf
             \/ pc' = "idle" /\ err' = "ok" /\ tf' = Recorded(want, vm.protected)
    BY <1>4 DEF Get
  <2>2. /\ want \in Wishes /\ tf \in States /\ protection \in BOOLEAN
        /\ UNCHANGED <<want, vm, protection, ours, ghosts>>
    BY <1>4 DEF Get, TypeOK
  <2>3. late' \in BOOLEAN /\ trouble' \in 0..MaxTrouble
    BY <2>1, Gotten
  <2>5. err' \in Errors \cup {"refused"}
    BY <2>1 DEF Errors
  <2>4. tf' \in States /\ pc' = "idle"
    BY <2>1, <2>2, RecordedFields, ProtectState, InstanceFields DEF Fails, TypeOK
  <2> QED
    BY <1>4, <2>2, <2>3, <2>4, <2>5 DEF Get, TypeOK, ghosts, Steps
<1> QED
  BY <1>1, <1>2, <1>3, <1>4

\* What happens beside the handlers.
LEMMA BesideTypeOK == TypeOK /\ (Settle \/ User \/ ChangeWant) => TypeOK'
<1>0. TypeOK => \A b : (ours /\ Usable(b)) \in BOOLEAN
  OBVIOUS
<1>1. ASSUME TypeOK, Settle PROVE TypeOK'
  BY <1>0, <1>1, SettledFacts DEF Settle, ghosts, TypeOK
<1>2. ASSUME TypeOK, User PROVE TypeOK'
  <2>1. vm' \in VM /\ ours' \in BOOLEAN
    BY <1>2, UserLeaves DEF User, TypeOK
  <2>2. trouble' \in 0..MaxTrouble
    BY <1>2, TroubleAssumption DEF User, TypeOK
  <2> QED
    BY <1>2, <2>1, <2>2 DEF User, TypeOK
<1>3. ASSUME TypeOK, ChangeWant PROVE TypeOK'
  <2>1. trouble' \in 0..MaxTrouble
    BY <1>3, TroubleAssumption DEF ChangeWant, TypeOK
  <2> QED
    BY <1>3, <2>1 DEF ChangeWant, Idle, TypeOK
<1> QED
  BY <1>1, <1>2, <1>3

\* Every step keeps the types.
LEMMA NextTypeOK == TypeOK /\ [Next]_vars => TypeOK'
<1>1. TypeOK /\ UNCHANGED vars => TypeOK'
  BY DEF vars, TypeOK
<1> QED
  BY <1>1, ReadTypeOK, ApplyTypeOK, CallTypeOK, RestTypeOK, BesideTypeOK DEF Next, Handler

-----------------------------------------------------------------------------
(* Which handler runs, and what it was told.                               *)

\* Nothing has run at first.
LEMMA InitLastOurs == Init => LastInv /\ OursInv
  BY DEF Init, LastInv, OursInv, UpdateSteps

\* A step belongs to the handler that was called; a delete that succeeds takes
\* the resource out of state.
LEMMA NextLastInv == TypeOK /\ LastInv /\ [Next]_vars => LastInv'
<1> SUFFICES ASSUME TypeOK, LastInv, [Next]_vars PROVE LastInv'
  OBVIOUS
<1>1. CASE Refresh \/ ImportState \/ ChangeWant
  BY <1>1 DEF Refresh, ImportState, ChangeWant, Idle, LastInv, UpdateSteps
<1>2. CASE Apply
  <2>1. tf' = tf /\ err' = "ok"
    BY <1>2 DEF Apply
  <2> QED
    BY <1>2, <2>1, ApplyStarts DEF LastInv, UpdateSteps
<1>3. CASE Create
  <2>1. pc = "create" /\ pc' \in {"create_record", "idle"} /\ last' = last
    BY <1>3 DEF Create, Refuses, ghosts
  <2> QED
    BY <2>1 DEF LastInv, UpdateSteps
<1>4. CASE Delete
  <2>1. PICK n, a :
          /\ n \in {0, 1} /\ a \in Answers([op |-> "delete"], n)
          /\ Asks([op |-> "delete"], a, n)
          /\ tf' = IF a.err = "ok" THEN Gone ELSE tf
    BY <1>4 DEF Delete
  <2>2. err' = a.err /\ pc' = "idle"
    BY <1>4, <2>1 DEF Delete, Asks
  <2> QED
    BY <2>1, <2>2 DEF LastInv, UpdateSteps
<1>5. CASE CreateRecord \/ ResizeRecord
  <2>1. pc \in {"create_record", "resize_record"} /\ pc' = "idle" /\ last' = last
    BY <1>5 DEF CreateRecord, ResizeRecord, ghosts
  <2> QED
    BY <2>1 DEF LastInv, UpdateSteps
<1>6. CASE Unprotect \/ Resize \/ Protect \/ Get
  <2>1. pc \in UpdateSteps /\ pc' \in UpdateSteps \cup {"idle"} /\ last' = last
    BY <1>6 DEF Unprotect, Resize, ResizeRefused, Refuses, Protect, Get, Fails, ghosts,
                UpdateSteps
  <2> QED
    BY <2>1 DEF LastInv, UpdateSteps
<1>7. CASE Settle \/ User \/ UNCHANGED vars
  BY <1>7 DEF Settle, User, ghosts, vars, LastInv, UpdateSteps
<1> QED
  BY <1>1, <1>2, <1>3, <1>4, <1>5, <1>6, <1>7 DEF Next, Handler

\* An instance a create left behind stays in state, or gets there.
LEMMA NextOursInv == TypeOK /\ OursInv /\ [Next]_vars => OursInv'
<1> SUFFICES ASSUME TypeOK, OursInv, [Next]_vars PROVE OursInv'
  OBVIOUS
<1>1. CASE Refresh
  BY <1>1, ObservedState DEF Refresh, Idle, OursInv, TypeOK, Usable, Listed
<1>2. CASE ImportState
  BY <1>2, ImportedState DEF ImportState, OursInv
<1>3. CASE Apply
  <2>1. pc = "idle" /\ UNCHANGED <<tf, vm, ours>>
    BY <1>3 DEF Apply, Idle
  <2> QED
    BY <2>1 DEF OursInv
<1>12. CASE Refuses /\ pc \in {"create", "resize"}
  BY <1>12 DEF Refuses, OursInv
<1>4. CASE Create /\ want.flaw # "blank"
  <2> DEFINE c == CreateCall
  <2>1. PICK n, a :
          /\ n \in {0, 1} /\ a \in Answers(c, n)
          /\ Asks(c, a, n)
          /\ tf' = IF a.err = "ok" THEN Recorded(want, a.vm.protected) ELSE tf
          /\ pc' = IF a.err # "ok" /\ a.registered THEN "create_record" ELSE "idle"
    BY <1>4 DEF Create
  <2>2. pc = "create" /\ want \in Wishes /\ tf = Gone /\ c.op = "create"
    BY <1>4 DEF Create, TypeOK, CreateCall
  <2> HIDE DEF c
  <2>3. /\ vm' \in VM /\ a.vm = vm' /\ a.err = err'
        /\ Promised(c, vm, vm', err', a.registered, a.late)
    BY <2>1, Asked
  <2>4. CreatePromise(c, vm, vm', err', a.registered, a.late)
    BY <2>2, <2>3 DEF Promised
  <2>5. ours' => /\ Usable(vm') /\ ~Usable(vm)
                 /\ err' = "ok" \/ a.registered \/ ~a.late
    BY <2>1, <2>2, <2>3 DEF Asks, OursInv
  <2>6. vm \in VM /\ (Usable(vm') => Usable(vm) \/ a.registered \/ a.late)
    BY <2>4, CreateLeaves DEF TypeOK
  <2>7. err' = "ok" => tf' # Gone
    BY <2>1, <2>2, <2>3, RecordedFields, InstanceFields
  <2>10. {a.registered, a.late, ours'} \subseteq BOOLEAN
    BY <2>1, Asked
  <2>8. ours' => a.registered \/ err' = "ok"
    BY <2>5, <2>6, <2>10
  <2>9. a.registered /\ err' # "ok" => pc' = "create_record"
    BY <2>1, <2>3
  <2> QED
    BY <2>5, <2>7, <2>8, <2>9, <2>10 DEF OursInv
<1>5. CASE CreateRecord
  BY <1>5, CreateRecorded DEF CreateRecord, OursInv
<1>6. CASE Delete
  <2> DEFINE c == [op |-> "delete"]
  <2>1. PICK n, a :
          /\ n \in {0, 1} /\ a \in Answers(c, n)
          /\ Asks(c, a, n)
          /\ tf' = IF a.err = "ok" THEN Gone ELSE tf
    BY <1>6 DEF Delete
  <2>2. c.op = "delete" /\ pc = "delete"
    BY <1>6 DEF Delete
  <2> HIDE DEF c
  <2>3. a.vm = vm' /\ a.err = err' /\ Promised(c, vm, vm', err', a.registered, a.late)
    BY <2>1, Asked
  <2>4. DeletePromise(c, vm, vm', err', a.late)
    BY <2>2, <2>3 DEF Promised
  <2>5. err' = "ok" => ~Usable(vm')
    BY <2>4 DEF DeletePromise, Listed, Usable
  <2>6. ours' => ours /\ Usable(vm')
    BY <2>1, <2>2, <2>3 DEF Asks
  <2> QED
    BY <2>1, <2>2, <2>3, <2>5, <2>6 DEF OursInv
<1>7. CASE Unprotect \/ (Resize /\ want.flaw # "unsized") \/ Protect
  <2>1. /\ pc \in {"unprotect", "resize", "protect"} /\ tf # Gone
        /\ \/ UNCHANGED <<ours, vm>>
           \/ \E c, n, a : n \in {0, 1} /\ a \in Answers(c, n) /\ Asks(c, a, n)
                            /\ c.op # "create"
    <3>1. CASE Unprotect
      <4> DEFINE c == [op |-> "protect", want |-> FALSE]
      <4>1. PICK n, a : n \in {0, 1} /\ a \in Answers(c, n) /\ Asks(c, a, n)
        BY <3>1 DEF Unprotect
      <4>2. c.op # "create" /\ pc = "unprotect" /\ tf # Gone
        BY <3>1 DEF Unprotect, TypeOK
      <4> HIDE DEF c
      <4> QED
        BY <4>1, <4>2
    <3>2. CASE Resize /\ want.flaw # "unsized"
      <4>1. PICK n, a : n \in {0, 1} /\ a \in Answers(ResizeCall, n) /\ Asks(ResizeCall, a, n)
        BY <3>2 DEF Resize, ResizeRefused
      <4>2. ResizeCall.op # "create" /\ pc = "resize" /\ tf # Gone
        BY <3>2 DEF ResizeCall, Resize, TypeOK
      <4> QED
        BY <4>1, <4>2
    <3>3. CASE Protect
      <4> DEFINE c == [op |-> "protect", want |-> TRUE]
      <4>1. \/ UNCHANGED <<ours, vm>>
            \/ \E n, a : n \in {0, 1} /\ a \in Answers(c, n) /\ Asks(c, a, n)
        BY <3>3 DEF Protect
      <4>2. c.op # "create" /\ pc = "protect" /\ tf # Gone
        BY <3>3 DEF Protect, TypeOK
      <4> HIDE DEF c
      <4> QED
        BY <4>1, <4>2
    <3> QED
      BY <1>7, <3>1, <3>2, <3>3
  <2>2. ours' => ours /\ Usable(vm')
    BY <2>1 DEF Asks, OursInv
  <2>3. tf' # Gone
    BY <1>7, <2>1, ProtectState DEF Unprotect, Resize, ResizeRefused, Protect, Fails, TypeOK
  <2> QED
    BY <2>1, <2>2, <2>3 DEF OursInv
<1>8. CASE ResizeRecord
  BY <1>8, ResizeRecorded DEF ResizeRecord, OursInv
<1>9. CASE Get
  <2>1. ours' = ours /\ vm' = vm /\ want \in Wishes /\ tf \in States /\ protection \in BOOLEAN
    BY <1>9 DEF Get, TypeOK
  <2>2. tf' # Gone
    BY <1>9, <2>1, RecordedFields, InstanceFields, ProtectState DEF Get, Fails, TypeOK
  <2> QED
    BY <2>1, <2>2 DEF OursInv
<1>10. CASE Settle \/ User
  <2>1. /\ UNCHANGED <<tf, pc>>
        /\ ours' => ours /\ Usable(vm')
    BY <1>10 DEF Settle, User
  <2> QED
    BY <2>1 DEF OursInv
<1>11. CASE ChangeWant \/ UNCHANGED vars
  BY <1>11 DEF ChangeWant, vars, OursInv
<1>13. Create => (Create /\ want.flaw # "blank") \/ (Refuses /\ pc = "create")
  BY DEF Create
<1>14. Resize => (Resize /\ want.flaw # "unsized") \/ (Refuses /\ pc = "resize")
  BY DEF Resize, ResizeRefused
<1> QED
  BY <1>1, <1>2, <1>3, <1>4, <1>5, <1>6, <1>7, <1>8, <1>9, <1>10, <1>11, <1>12, <1>13, <1>14
  DEF Next, Handler

-----------------------------------------------------------------------------
(* An update, step by step.                                                *)

\* Where a step of an update ends it, what state then has to say.
LEMMA EndFollows ==
  ASSUME Usable(vm)', (tf # Gone)', (want # Gone)', (pc = "idle")', (last = "update")',
         EffectRecorded', NoHiddenDifference', CleanAfterApply'
  PROVE  Follows'
  BY DEF Follows, UpdateSteps

\* Where it goes on, the properties of its end say nothing yet.
LEMMA GoesOnFollows ==
  ASSUME Usable(vm)', (tf # Gone)', (want # Gone)', (last = "update")',
         (pc \in UpdateSteps)',
         (pc \in {"unprotect", "resize"} => tf.config = vm.config)',
         (pc = "unprotect" => vm.protected /\ tf.protect /\ ~want.protect)',
         (pc # "unprotect" => vm.protected = protection /\ (protection => want.protect))',
         (pc = "resize" => (protection <=> tf.protect /\ want.protect))',
         (pc = "resize_record" => err = "restart" /\ vm.config = want.config)',
         (pc = "resize_record" /\ Running(vm) => late)',
         (pc \in {"protect", "get"} =>
            vm.config = want.config /\ (Running(vm) <=> want.start))',
         (pc = "get" => protection = want.protect)'
  PROVE  Follows'
  BY DEF Follows, UpdateSteps, EffectRecorded, NoHiddenDifference, CleanAfterApply, Updated,
         Idle

\* A failed update that is not a failed restart: state must have the protection,
\* or differ from the configuration in it where the call was out of time or the
\* handler refused.
LEMMA FailFollows ==
  ASSUME Usable(vm)', (tf # Gone)', (want # Gone)', (pc = "idle")', (last = "update")',
         (err \notin {"ok", "restart"})',
         (~late /\ err # "refused" => tf.protect = vm.protected)',
         (tf.config = want.config => vm.config = want.config)',
         (tf.protect = want.protect => vm.protected = want.protect)'
  PROVE  Follows'
<1>1. EffectRecorded' /\ NoHiddenDifference' /\ CleanAfterApply'
  BY DEF EffectRecorded, NoHiddenDifference, CleanAfterApply, Updated, Idle
<1> QED
  BY <1>1, EndFollows

\* Apply calls Update with state that tells the truth.
LEMMA ApplyFollows ==
  ASSUME TypeOK, Apply, (base /\ last = "update")'
  PROVE  Follows'
<1>1. /\ tf # Gone /\ Usable(vm) /\ tf.protect = vm.protected /\ tf.config = vm.config
      /\ UNCHANGED <<want, tf, vm>>
      /\ protection' = (tf # Gone /\ tf.protect)
  BY DEF Apply
<1>2. tf.protect \in BOOLEAN /\ (want # Gone => want.protect \in BOOLEAN)
  BY <1>1, WishFields DEF TypeOK, States
<1>3. protection' = tf.protect
  BY <1>1, <1>2
<1>4. /\ pc' \in {"unprotect", "resize"} /\ want # Gone
      /\ pc' = "unprotect" => tf.protect /\ ~want.protect
      /\ pc' = "resize" => ~(tf.protect /\ ~want.protect)
  BY ApplyStarts
<1> QED
  BY <1>1, <1>2, <1>3, <1>4, GoesOnFollows DEF UpdateSteps

\* Clearing protection.
LEMMA UnprotectFollows ==
  ASSUME TypeOK, Follows, Unprotect, base, last = "update"
  PROVE  Follows'
<1> DEFINE d == FALSE
           c == [op |-> "protect", want |-> d]
<1>1. PICK n, a :
        /\ n \in {0, 1} /\ a \in Answers(c, n)
        /\ Asks(c, a, n)
        /\ pc' = IF a.err = "ok" THEN "resize" ELSE "idle"
        /\ protection' = (a.err # "ok")
  BY DEF Unprotect
<1>2. /\ pc = "unprotect" /\ UNCHANGED <<want, tf, ghosts>>
      /\ want # Gone /\ tf # Gone
  BY DEF Unprotect, TypeOK
<1>3. c.op = "protect" /\ ~c.want
  OBVIOUS
<1>11. c.want \in BOOLEAN
  OBVIOUS
<1> HIDE DEF c, d
<1>4. /\ vm' \in VM /\ a.err = err' /\ late' \in BOOLEAN
      /\ Promised(c, vm, vm', err', a.registered, late')
  BY <1>1, Asked
<1>5. ProtectPromise(c, vm, vm', err', late')
  BY <1>3, <1>4 DEF Promised
<1>6. Usable(vm) /\ vm \in VM /\ tf.config = vm.config /\ vm.protected /\ tf.protect
      /\ ~want.protect
  BY <1>2 DEF Follows, TypeOK
<1>12. Usable(vm) /\ vm \in VM
  BY <1>6
<1>7. /\ Usable(vm') /\ vm'.config = vm.config
      /\ err' \in {"ok", "failed", "timeout"}
      /\ err' = "ok" => vm'.protected = c.want
      /\ err' # "ok" => vm'.protected = vm.protected \/ (late' /\ vm'.protected = c.want)
  BY <1>5, <1>11, <1>12, ProtectKeeps
<1>8. vm'.protected \in BOOLEAN /\ vm.protected \in BOOLEAN /\ tf.protect \in BOOLEAN
      /\ want.protect \in BOOLEAN
  BY <1>2, <1>4, <1>6, InstanceFields, WishFields DEF TypeOK, States
<1>9. CASE err' = "ok"
  <2>1. pc' = "resize" /\ protection' = FALSE /\ vm'.protected = FALSE
    BY <1>1, <1>3, <1>4, <1>7, <1>9, <1>11
  <2> QED
    BY <1>2, <1>6, <1>7, <2>1, GoesOnFollows DEF UpdateSteps, ghosts
<1>10. CASE err' # "ok"
  <2>1. pc' = "idle" /\ err' \notin {"ok", "restart"}
    BY <1>1, <1>4, <1>7, <1>10
  <2>2. ~late' => tf.protect = vm'.protected
    BY <1>3, <1>6, <1>7, <1>8, <1>10, <1>11
  <2> QED
    BY <1>2, <1>6, <1>7, <1>8, <2>1, <2>2, FailFollows DEF ghosts
<1> QED
  BY <1>9, <1>10

\* A size that is none: protection may be cleared, and state then differs in it.
LEMMA ResizeRefusedFollows ==
  ASSUME TypeOK, Follows, Resize, want.flaw = "unsized", base, last = "update"
  PROVE  Follows'
<1>1. /\ Refuses /\ pc = "resize" /\ UNCHANGED <<want, protection, ghosts>>
      /\ want # Gone /\ tf # Gone /\ want \in Wishes /\ tf \in States
  BY DEF Resize, ResizeRefused, TypeOK
<1>2. /\ Usable(vm) /\ tf.config = vm.config
      /\ vm.protected = protection
      /\ protection <=> tf.protect /\ want.protect
  BY <1>1 DEF Follows, UpdateSteps
<1>3. {protection, tf.protect, want.protect} \subseteq BOOLEAN
  BY <1>1, WishFields DEF TypeOK, States
<1>4. tf.protect = want.protect => vm.protected = want.protect
  BY <1>2, <1>3
<1> QED
  BY <1>1, <1>2, <1>4, FailFollows DEF Refuses, ghosts

\* Resizing and setting the run state.
LEMMA ResizeFollows ==
  ASSUME TypeOK, Follows, Resize, want.flaw # "unsized", base, last = "update"
  PROVE  Follows'
<1> DEFINE c == ResizeCall
<1>1. PICK n, a :
        /\ n \in {0, 1} /\ a \in Answers(c, n)
        /\ Asks(c, a, n)
        /\ CASE a.err = "ok"      -> pc' = "protect" /\ UNCHANGED tf
             [] a.err = "restart" -> pc' = "resize_record" /\ UNCHANGED tf
             [] OTHER             -> Fails
  BY DEF Resize, ResizeRefused
<1>2. /\ pc = "resize" /\ UNCHANGED <<want, protection, ghosts>>
      /\ want \in Wishes /\ tf \in States /\ want # Gone /\ tf # Gone
      /\ protection \in BOOLEAN
  BY DEF Resize, TypeOK
<1>3. /\ Usable(vm) /\ vm \in VM /\ tf.config = vm.config
      /\ vm.protected = protection /\ (protection => want.protect)
  BY <1>2 DEF Follows, TypeOK, UpdateSteps
<1>4. want.start \in BOOLEAN
  BY <1>2, WishFields
<1>5. /\ c.want = want.start
      /\ want.config = vm.config => c.op = "run"
      /\ want.config # vm.config => c.op = "resize" /\ c.config = want.config
  BY <1>3 DEF ResizeCall
<1> HIDE DEF c
<1>6. /\ vm' \in VM /\ a.err = err' /\ late' \in BOOLEAN
      /\ Promised(c, vm, vm', err', a.registered, late')
  BY <1>1, Asked
<1>7. /\ Usable(vm') /\ vm'.protected = vm.protected
      /\ vm'.config \in {vm.config, want.config}
      /\ err' \in {"ok", "restart"} => vm'.config = want.config
      /\ err' = "ok" => (Running(vm') <=> want.start)
      /\ err' = "restart" => (Running(vm') => late')
  <2>1. CASE want.config = vm.config
    <3>1. RunPromise(c, vm, vm', err', late')
      BY <1>5, <1>6, <2>1 DEF Promised
    <3> QED
      BY <1>3, <1>4, <1>5, <2>1, <3>1, RunKeeps DEF SameButStatus
  <2>2. CASE want.config # vm.config
    <3>1. ResizePromise(c, vm, vm', err', late')
      BY <1>5, <1>6, <2>2 DEF Promised
    <3> QED
      BY <1>3, <1>4, <1>5, <2>2, <3>1, EditKeeps
  <2> QED
    BY <2>1, <2>2
<1>8. CASE err' = "ok"
  <2>1. pc' = "protect" /\ tf' = tf
    BY <1>1, <1>6, <1>8
  <2> QED
    BY <1>2, <1>3, <1>7, <1>8, <2>1, GoesOnFollows DEF UpdateSteps, ghosts
<1>9. CASE err' = "restart"
  <2>1. pc' = "resize_record" /\ tf' = tf
    BY <1>1, <1>6, <1>9
  <2> QED
    BY <1>2, <1>3, <1>7, <1>9, <2>1, GoesOnFollows DEF UpdateSteps, ghosts
<1>10. CASE err' \notin {"ok", "restart"}
  <2>1. Fails
    BY <1>1, <1>6, <1>10
  <2>2. pc' = "idle" /\ tf' # Gone /\ tf'.config = tf.config /\ tf'.protect = protection
    BY <1>2, <2>1, ProtectState DEF Fails
  <2>3. tf'.config = want.config => vm'.config = want.config
    BY <1>3, <1>7, <2>2
  <2> QED
    BY <1>2, <1>3, <1>7, <1>10, <2>2, <2>3, FailFollows DEF ghosts
<1> QED
  BY <1>8, <1>9, <1>10

\* Recording a change whose restart failed.
LEMMA ResizeRecordFollows ==
  ASSUME TypeOK, Follows, ResizeRecord, base, last = "update"
  PROVE  Follows'
<1>1. PICK e \in Errors : Gets(e) /\ (tf'.start <=> e = "ok" /\ Running(vm))
  BY ResizeRecorded
<1>2. /\ pc = "resize_record" /\ pc' = "idle"
      /\ UNCHANGED <<want, vm, protection, err, ours, ghosts>>
      /\ want \in Wishes /\ want # Gone /\ protection \in BOOLEAN
  BY DEF ResizeRecord, TypeOK
<1>3. /\ Usable(vm) /\ vm.protected = protection /\ err = "restart"
      /\ vm.config = want.config
      /\ Running(vm) => late
  BY <1>2 DEF Follows, UpdateSteps
<1>4. /\ e = "ok" => ~late /\ ~late'
      /\ late => late'
  BY <1>1, Gotten
<1>5. tf' # Gone /\ tf'.config = want.config /\ tf'.protect = protection
  BY ResizeRecorded
<1>6. tf'.start <=> Running(vm) /\ ~late'
  BY <1>1, <1>3, <1>4
<1>7. EffectRecorded'
  BY <1>2, <1>3, <1>5, <1>6 DEF EffectRecorded
<1>8. NoHiddenDifference'
  BY <1>2, <1>3, <1>5 DEF NoHiddenDifference
<1>9. CleanAfterApply'
  BY <1>2, <1>3 DEF CleanAfterApply, ghosts
<1> QED
  BY <1>2, <1>3, <1>5, <1>7, <1>8, <1>9, EndFollows DEF ghosts

\* Setting protection again, or not.
LEMMA ProtectFollows ==
  ASSUME TypeOK, Follows, Protect, base, last = "update"
  PROVE  Follows'
<1>1. /\ pc = "protect" /\ UNCHANGED <<want, ghosts>>
      /\ want \in Wishes /\ tf \in States /\ want # Gone /\ tf # Gone
      /\ protection \in BOOLEAN
  BY DEF Protect, TypeOK
<1>2. /\ Usable(vm) /\ vm \in VM
      /\ vm.protected = protection /\ (protection => want.protect)
      /\ vm.config = want.config /\ (Running(vm) <=> want.start)
  BY <1>1 DEF Follows, TypeOK, UpdateSteps
<1>3. want.protect \in BOOLEAN
  BY <1>1, WishFields
<1>4. CASE ~(want.protect /\ ~protection)
  <2>1. pc' = "get" /\ UNCHANGED <<tf, vm, protection, late, err, ours, trouble>>
    BY <1>4 DEF Protect
  <2>2. protection = want.protect
    BY <1>1, <1>2, <1>3, <1>4
  <2> QED
    BY <1>1, <1>2, <2>1, <2>2, GoesOnFollows DEF UpdateSteps, ghosts
<1>5. CASE want.protect /\ ~protection
  <2> DEFINE d == TRUE
             c == [op |-> "protect", want |-> d]
  <2>1. PICK n, a :
          /\ n \in {0, 1} /\ a \in Answers(c, n)
          /\ Asks(c, a, n)
          /\ IF a.err = "ok" THEN pc' = "get" /\ protection' = TRUE /\ UNCHANGED tf
             ELSE Fails /\ UNCHANGED protection
    BY <1>5 DEF Protect
  <2>2. c.op = "protect" /\ c.want
    OBVIOUS
  <2>8. c.want \in BOOLEAN
    OBVIOUS
  <2> HIDE DEF c, d
  <2>3. /\ vm' \in VM /\ a.err = err' /\ late' \in BOOLEAN
        /\ Promised(c, vm, vm', err', a.registered, late')
    BY <2>1, Asked
  <2>4. ProtectPromise(c, vm, vm', err', late')
    BY <2>2, <2>3 DEF Promised
  <2>5. /\ Usable(vm') /\ vm'.config = vm.config
        /\ Running(vm') <=> Running(vm)
        /\ err' \in {"ok", "failed", "timeout"}
        /\ err' = "ok" => vm'.protected = c.want
        /\ err' # "ok" => vm'.protected = vm.protected \/ (late' /\ vm'.protected = c.want)
    BY <1>2, <2>4, <2>8, ProtectKeeps
  <2>6. CASE err' = "ok"
    <3>1. pc' = "get" /\ protection' = TRUE /\ tf' = tf /\ vm'.protected = TRUE
      BY <2>1, <2>2, <2>3, <2>5, <2>6, <2>8
    <3>2. want.protect = TRUE
      BY <1>3, <1>5
    <3> QED
      BY <1>1, <1>2, <2>5, <3>1, <3>2, GoesOnFollows DEF UpdateSteps, ghosts
  <2>7. CASE err' # "ok"
    <3>1. Fails /\ UNCHANGED protection
      BY <2>1, <2>3, <2>7
    <3>2. pc' = "idle" /\ tf' # Gone /\ tf'.config = tf.config /\ tf'.protect = protection
      BY <1>1, <3>1, ProtectState DEF Fails
    <3>3. tf'.protect # want.protect
      BY <1>3, <1>5, <3>2
    <3>4. ~late' => tf'.protect = vm'.protected
      BY <1>2, <2>5, <2>7, <3>2
    <3>5. err' \notin {"ok", "restart"}
      BY <2>5, <2>7
    <3> QED
      BY <1>1, <1>2, <2>5, <3>2, <3>3, <3>4, <3>5, FailFollows DEF ghosts
  <2> QED
    BY <2>6, <2>7
<1> QED
  BY <1>4, <1>5

\* The read that ends an update.
LEMMA GetFollows ==
  ASSUME TypeOK, Follows, Get, base, last = "update"
  PROVE  Follows'
<1>1. PICK e \in Errors :
        /\ Gets(e)
        /\ CASE e # "ok" -> Fails /\ err' = e
             [] e = "ok" /\ want.flaw = "blank" ->
                  pc' = "idle" /\ err' = "refused" /\ UNCHANGED tf
             [] OTHER -> pc' = "idle" /\ err' = "ok" /\ tf' = Recorded(want, vm.protected)
  BY DEF Get
<1>2. /\ pc = "get" /\ UNCHANGED <<want, vm, protection, ours, ghosts>>
      /\ want \in Wishes /\ tf \in States /\ want # Gone /\ tf # Gone
      /\ protection \in BOOLEAN
  BY DEF Get, TypeOK
<1>3. /\ Usable(vm) /\ vm.protected = protection /\ protection = want.protect
      /\ vm.config = want.config /\ (Running(vm) <=> want.start)
  BY <1>2 DEF Follows, UpdateSteps
<1>4. e \in {"ok", "notfound", "failed", "timeout"}
  BY <1>1, Gotten
<1>7. CASE e = "ok" /\ want.flaw = "blank"
  <2>1. pc' = "idle" /\ err' = "refused" /\ tf' = tf
    BY <1>1, <1>7
  <2> QED
    BY <1>2, <1>3, <2>1, FailFollows DEF ghosts
<1>5. CASE e = "ok" /\ want.flaw # "blank"
  <2>1. tf' = Recorded(want, want.protect) /\ pc' = "idle" /\ err' = "ok"
    BY <1>1, <1>3, <1>5
  <2>2. /\ tf' # Gone /\ tf'.config = want.config /\ tf'.protect = want.protect
    BY <1>2, <1>3, <2>1, RecordedFields
  <2>3. ~Differs'
    BY <1>2, <2>1 DEF Differs
  <2>4. EffectRecorded' /\ NoHiddenDifference'
    BY <1>2, <1>3, <2>1, <2>2 DEF EffectRecorded, NoHiddenDifference
  <2>5. CleanAfterApply'
    BY <1>2, <1>3, <2>3 DEF CleanAfterApply, ghosts
  <2> QED
    BY <1>2, <1>3, <2>1, <2>2, <2>4, <2>5, EndFollows DEF ghosts
<1>6. CASE e # "ok"
  <2>1. Fails /\ err' = e
    BY <1>1, <1>6
  <2>2. pc' = "idle" /\ tf' # Gone /\ tf'.config = tf.config /\ tf'.protect = protection
    BY <1>2, <2>1, ProtectState DEF Fails
  <2> QED
    BY <1>1, <1>2, <1>3, <1>4, <1>6, <2>2, FailFollows DEF ghosts
<1> QED
  BY <1>5, <1>6, <1>7

\* The file system catching up is not noticed.
LEMMA SettleFollows ==
  ASSUME TypeOK, Follows, Settle
  PROVE  Follows'
<1>1. /\ vm' = Settled(vm) /\ vm \in VM
      /\ UNCHANGED <<want, tf, pc, protection, late, err, ghosts>>
  BY DEF Settle, TypeOK
<1>2. Usable(vm)
  BY DEF Follows
<1>3. /\ Usable(vm') /\ vm'.config = vm.config /\ vm'.protected = vm.protected
      /\ Running(vm') <=> Running(vm)
  BY <1>1, <1>2, SettledFacts DEF SameButStatus
<1>4. EffectRecorded'
  BY <1>1, <1>3 DEF Follows, EffectRecorded, Updated, Idle, ghosts
<1>5. NoHiddenDifference'
  BY <1>1, <1>3 DEF Follows, NoHiddenDifference, Updated, Idle, ghosts
<1>6. CleanAfterApply'
  BY <1>1, <1>3 DEF Follows, CleanAfterApply, Differs, Updated, Idle, ghosts
<1> QED
  BY <1>1, <1>3, <1>4, <1>5, <1>6 DEF Follows

\* Every step leads an undisturbed update on.
LEMMA NextUpdateInv == TypeOK /\ LastInv /\ UpdateInv /\ [Next]_vars => UpdateInv'
<1> SUFFICES ASSUME TypeOK, LastInv, UpdateInv, [Next]_vars, (base /\ last = "update")'
             PROVE  Follows'
  BY DEF UpdateInv
<1>1. CASE Apply
  BY <1>1, ApplyFollows
<1>2. CASE Refresh \/ ImportState \/ ChangeWant \/ User
  BY <1>2 DEF Refresh, ImportState, ChangeWant, User
<1>3. CASE Create \/ CreateRecord \/ Delete
  BY <1>3 DEF Create, Refuses, CreateRecord, Delete, ghosts, LastInv
<1>4. CASE Unprotect \/ Resize \/ ResizeRecord \/ Protect \/ Get \/ Settle
  <2>1. base /\ last = "update"
    BY <1>4 DEF Unprotect, Resize, ResizeRecord, Protect, Get, Settle, ghosts
  <2> QED
    BY <1>4, <2>1, UnprotectFollows, ResizeFollows, ResizeRecordFollows, ProtectFollows,
       GetFollows, SettleFollows, ResizeRefusedFollows DEF UpdateInv
<1>5. CASE UNCHANGED vars
  <2>1. Follows
    BY <1>5 DEF vars, UpdateInv
  <2> QED
    BY <1>5, <2>1 DEF vars, Follows, EffectRecorded, NoHiddenDifference, CleanAfterApply,
                      Updated, Differs, Idle
<1> QED
  BY <1>1, <1>2, <1>3, <1>4, <1>5 DEF Next, Handler

-----------------------------------------------------------------------------
(* The theorems.                                                           *)

\* IInv is inductive.
LEMMA IInvHolds == Spec => []IInv
<1>1. Init => IInv
  BY InitTypeOK, InitLastOurs DEF Init, UpdateInv, IInv
<1>2. IInv /\ [Next]_vars => IInv'
  BY NextTypeOK, NextLastInv, NextOursInv, NextUpdateInv DEF IInv
<1> QED
  BY <1>1, <1>2, PTL DEF Spec

\* Every variable keeps its type, and a handler runs only with the configuration
\* and the state it is called with (instance_resource.go).
THEOREM TypeCorrect == Spec => []TypeOK
<1>1. IInv => TypeOK
  BY DEF IInv
<1> QED
  BY <1>1, IInvHolds, PTL

\* An instance that a create of the resource made is in state once the handler has
\* returned, and stays there while it exists, except where the create ran out of
\* time before the service could tell whether limactl registered the instance.
THEOREM NothingForgotten == Spec => []NotForgotten
<1>1. IInv => NotForgotten
  BY DEF IInv, OursInv, NotForgotten, Idle
<1> QED
  BY <1>1, IInvHolds, PTL

\* When an update in time has ended, state has the protection the instance has,
\* whichever call of the service failed; only the handler's own refusals, of a size
\* and of a rendering, are left out, for they record nothing.  After a failed
\* restart state has the configuration and the run state as well.
THEOREM EffectsAreRecorded == Spec => []EffectRecorded
<1>1. IInv => EffectRecorded
  BY DEF IInv, UpdateInv, Follows, EffectRecorded, Updated
<1> QED
  BY <1>1, IInvHolds, PTL

\* An update never leaves the instance other than the user wants it behind a state
\* that equals the configuration.
THEOREM NothingHidden == Spec => []NoHiddenDifference
<1>1. IInv => NoHiddenDifference
  BY DEF IInv, UpdateInv, Follows, NoHiddenDifference, Updated
<1> QED
  BY <1>1, IInvHolds, PTL

\* An update or a delete that returns no error has done what it was for.
THEOREM CleanAfterSuccess == Spec => []CleanAfterApply
<1>1. IInv => CleanAfterApply
  BY DEF IInv, UpdateInv, Follows, LastInv, CleanAfterApply, Updated, Idle
<1> QED
  BY <1>1, IInvHolds, PTL

=============================================================================
