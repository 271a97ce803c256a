---------------------------- MODULE SweepProofs ----------------------------
(***************************************************************************)
(* Proofs about Sweep, for any instances, disks and amount of trouble.     *)
(* The inductive invariant IInv follows the two listings: whatever was in  *)
(* the home is still to come or has failed, until users put it there anew. *)
(***************************************************************************)
EXTENDS Sweep, TLAPS

-----------------------------------------------------------------------------
(* What calls of the service and the file system do to one instance.       *)

LEMMA SettledKeeps ==
  ASSUME NEW v \in VM
  PROVE  /\ Settled(v) \in VM
         /\ Listed(Settled(v)) => Listed(v)
         /\ Settled(v).protected => v.protected
  BY DEF VM, Settled, Listed, Absent, Statuses

\* Unprotecting leaves an instance unprotected unless it says that it failed.
LEMMA UnprotectResult ==
  ASSUME NEW v \in VM, NEW w \in VM, NEW e \in Errors, NEW l,
         Promised([op |-> "protect", want |-> FALSE], v, w, e, FALSE, l)
  PROVE  /\ Listed(w) => Listed(v)
         /\ w.protected => v.protected
         /\ e = "ok" => ~w.protected
<1> DEFINE c == [op |-> "protect", want |-> FALSE]
<1>1. ProtectPromise(c, v, w, e, l)
  BY DEF Promised
<1>3. Untouched(v, w) =>
        (Listed(w) => Listed(v)) /\ (w.protected => v.protected)
  BY SettledKeeps DEF Untouched
<1>4. ASSUME Usable(v), w \in {[x EXCEPT !.protected = c.want] : x \in {v, Settled(v)}}
      PROVE  Listed(v) /\ ~w.protected
  BY <1>4 DEF Usable, Listed, VM, Absent, Settled
<1> QED
  BY <1>1, <1>3, <1>4 DEF ProtectPromise, Errors

LEMMA DeleteResult ==
  ASSUME NEW v \in VM, NEW w \in VM, NEW e \in Errors, NEW l,
         Promised([op |-> "delete"], v, w, e, FALSE, l)
  PROVE  /\ e = "ok" => ~Listed(w)
         /\ e = "protected" => v.protected
  BY DEF Promised, DeletePromise

-----------------------------------------------------------------------------
(* The inductive invariant.                                                *)

\* Only a sweep that may touch the home gets past the first check.
HomeInv == pc \notin {"refuse", "done"} => allow \/ ~Refused(home)

\* What each phase works on, and what it has not come to yet.
PhaseInv ==
  /\ pc \in {"refuse", "list"} => removed = {} /\ failures = {} /\ todo = {}
  /\ pc \in {"instances", "list_disks"} => removed \subseteq Names
  /\ pc = "instances" => todo \subseteq Names
  /\ pc = "list_disks" => todo = {}
  /\ pc = "disks" => todo \subseteq DiskNames
  /\ removed \cap todo = {}

\* Whatever was there when its kind was listed is gone, failed or to come.
CoverInv ==
  /\ removed \cap Left = {}
  /\ pc \in {"instances", "list_disks", "disks"} =>
       \A n \in Names \cap Left : Failed(n) \/ (pc = "instances" /\ n \in todo)
  /\ pc = "disks" => \A d \in DiskNames \cap Left : Failed(d) \/ d \in todo
  /\ pc = "done" /\ err \in {"ok", "failures"} =>
       /\ err = "ok" <=> failures = {}
       /\ (\E f \in failures : f.call = "list") \/ \A x \in Left : Failed(x)

\* An instance to come is protected only if the listing says so, or a user
\* protected it since; or if clearing its protection failed.
ProtectionInv ==
  pc = "instances" =>
    \A n \in todo : vm[n].protected =>
      \/ n \in flagged /\ n # tried
      \/ n \in guarded
      \/ \E g \in failures : g.of = n /\ g.call = "unprotect"

IInv ==
  TypeOK /\ HomeInv /\ PhaseInv /\ CoverInv /\ ProtectionInv /\ RefusalsExplained

-----------------------------------------------------------------------------

\* The invariant holds at first.
LEMMA InitIInv == Init => IInv
<1> SUFFICES ASSUME Init PROVE IInv
  OBVIOUS
<1>1. TypeOK
  <2>1. vm \in [Names -> VM]
    BY DEF Init
  <2>2. trouble \in 0..MaxTrouble
    BY SweepAssumption DEF Init
  <2> QED
    BY <2>1, <2>2 DEF Init, TypeOK, At
<1>2. HomeInv /\ PhaseInv
  BY DEF Init, HomeInv, PhaseInv
<1>3. CoverInv /\ ProtectionInv
  BY DEF Init, CoverInv, ProtectionInv
<1>4. RefusalsExplained
  BY DEF Init, RefusalsExplained
<1> QED
  BY <1>1, <1>2, <1>3, <1>4 DEF IInv

\* Steps that change neither the home nor what the sweep is at.
LEMMA StutterIInv == IInv /\ UNCHANGED vars => IInv'
<1> SUFFICES ASSUME IInv, UNCHANGED vars PROVE IInv'
  OBVIOUS
<1> USE DEF vars, options, report, lima, users
<1>1. TypeOK'
  BY DEF IInv, TypeOK, At
<1>2. HomeInv' /\ PhaseInv'
  BY DEF IInv, HomeInv, PhaseInv
<1>3. CoverInv'
  BY DEF IInv, CoverInv, Left, Failed
<1>4. ProtectionInv' /\ RefusalsExplained'
  BY DEF IInv, ProtectionInv, RefusalsExplained, Failed
<1> QED
  BY <1>1, <1>2, <1>3, <1>4 DEF IInv

-----------------------------------------------------------------------------
(* Steps of the sweep that call nothing for an instance or disk.           *)

\* RefuseDefaultHome, Cancelled, InstancesDone, DisksDone.
LEMMA PhaseStepsIInv ==
  IInv /\ (RefuseDefaultHome \/ Cancelled \/ InstancesDone \/ DisksDone) => IInv'
<1> SUFFICES ASSUME IInv, RefuseDefaultHome \/ Cancelled \/ InstancesDone \/ DisksDone
             PROVE  IInv'
  OBVIOUS
<1> USE DEF options, report, lima, users, At, Proceed, Return, After, SweepError
<1>1. TypeOK'
  <2> USE DEF IInv, TypeOK
  <2>1. CASE RefuseDefaultHome
    BY <2>1 DEF PhaseInv, RefuseDefaultHome
  <2>2. CASE Cancelled
    BY <2>2 DEF Cancelled
  <2>3. CASE InstancesDone
    BY <2>3 DEF InstancesDone
  <2>4. CASE DisksDone
    BY <2>4 DEF DisksDone
  <2> QED
    BY <2>1, <2>2, <2>3, <2>4
<1>2. HomeInv'
  BY DEF IInv, HomeInv, RefuseDefaultHome, Cancelled, InstancesDone, DisksDone
<1>3. PhaseInv'
  BY DEF IInv, PhaseInv, RefuseDefaultHome, Cancelled, InstancesDone, DisksDone
<1>4. CoverInv'
  <2> USE DEF IInv, CoverInv, Left, Failed
  <2>1. CASE RefuseDefaultHome
    BY <2>1 DEF RefuseDefaultHome
  <2>2. CASE Cancelled
    BY <2>2 DEF Cancelled
  <2>3. CASE InstancesDone
    BY <2>3 DEF InstancesDone
  <2>4. CASE DisksDone
    BY <2>4 DEF DisksDone, TypeOK
  <2> QED
    BY <2>1, <2>2, <2>3, <2>4
<1>5. ProtectionInv' /\ RefusalsExplained'
  BY DEF IInv, ProtectionInv, RefusalsExplained, Failed, RefuseDefaultHome, Cancelled,
         InstancesDone, DisksDone
<1> QED
  BY <1>1, <1>2, <1>3, <1>4, <1>5 DEF IInv

\* The trouble that is left.
LEMMA TroubleType ==
  ASSUME TypeOK, NEW e, Trouble(e) \/ NoTrouble
  PROVE  late' \in BOOLEAN /\ trouble' \in 0..MaxTrouble
<1>1. trouble' \in 0..MaxTrouble
  BY SweepAssumption DEF TypeOK, Trouble, NoTrouble
<1>2. late' \in BOOLEAN
  BY DEF TypeOK, Trouble, NoTrouble
<1> QED
  BY <1>1, <1>2

LEMMA ListIInv == IInv /\ List => IInv'
<1> SUFFICES ASSUME IInv, List PROVE IInv'
  OBVIOUS
<1> USE DEF options, report, lima, users, At, Proceed, Return, After
<1> DEFINE Found == NoTrouble /\ todo' = {n \in Names : Listed(vm[n])}
                    /\ flagged' = {n \in Names : vm[n].protected}
                    /\ pc' = "instances" /\ UNCHANGED err
<1> DEFINE Lost == pc' = "done" /\ err' = "listing" /\ UNCHANGED <<todo, flagged>>
<1>0. /\ Found \/ Lost
      /\ pc = "list"
      /\ UNCHANGED <<home, allow, tried, removed, failures, vm, disks, made, guarded>>
      /\ todo = {} /\ removed = {} /\ failures = {}
  BY DEF List, IInv, PhaseInv
<1>1. TypeOK'
  <2>1. late' \in BOOLEAN /\ trouble' \in 0..MaxTrouble
    BY TroubleType DEF List, IInv
  <2> QED
    BY <1>0, <2>1 DEF IInv, TypeOK
<1> HIDE DEF Found, Lost
<1>2. HomeInv'
  BY <1>0 DEF IInv, HomeInv, Refused
<1>3. PhaseInv'
  BY <1>0 DEF PhaseInv, Found, Lost
<1>4. CoverInv'
  BY <1>0, SweepAssumption DEF CoverInv, Left, Found, Lost, IInv, TypeOK
<1>5. ProtectionInv' /\ RefusalsExplained'
  BY <1>0, SweepAssumption
     DEF IInv, TypeOK, ProtectionInv, RefusalsExplained, Found, Lost
<1> QED
  BY <1>1, <1>2, <1>3, <1>4, <1>5 DEF IInv

LEMMA ListDisksIInv == IInv /\ ListDisks => IInv'
<1> SUFFICES ASSUME IInv, ListDisks PROVE IInv'
  OBVIOUS
<1> USE DEF options, report, lima, users, At, Proceed, Return, After
<1> DEFINE Found == todo' = disks /\ pc' = "disks" /\ UNCHANGED <<err, failures>>
<1> DEFINE Lost(e) ==
      /\ pc' = "done" /\ err' = "failures" /\ UNCHANGED todo
      /\ failures' = failures \cup {Failure(NoName, "list", e)}
<1>0. /\ pc = "list_disks"
      /\ Found \/ (\E e \in {"failed", "timeout"} : Lost(e))
      /\ UNCHANGED <<home, allow, flagged, tried, removed, vm, disks, made, guarded>>
  BY DEF ListDisks
<1>1. TypeOK'
  <2>1. late' \in BOOLEAN /\ trouble' \in 0..MaxTrouble
    BY TroubleType DEF ListDisks, IInv
  <2> QED
    BY <1>0, <2>1 DEF IInv, TypeOK, Failure
<1>2. HomeInv'
  BY <1>0 DEF IInv, HomeInv, Refused
<1>3. PhaseInv'
  BY <1>0, SweepAssumption DEF IInv, TypeOK, PhaseInv
<1>4. CoverInv'
  <2>1. CASE Found
    BY <1>0, <2>1, SweepAssumption DEF IInv, CoverInv, Left, Failed
  <2>2. ASSUME NEW e \in {"failed", "timeout"}, Lost(e) PROVE CoverInv'
    <3>1. Failure(NoName, "list", e) \in failures' /\ Failure(NoName, "list", e).call = "list"
      BY <2>2 DEF Failure
    <3>2. \E f \in failures' : f.call = "list"
      BY <3>1
    <3>3. err' = "failures" /\ failures' # {}
      BY <2>2, <3>1
    <3> QED
      BY <1>0, <2>2, <3>2, <3>3 DEF IInv, CoverInv, Left
  <2> QED
    BY <1>0, <2>1, <2>2
<1>5. ProtectionInv' /\ RefusalsExplained'
  BY <1>0 DEF IInv, ProtectionInv, RefusalsExplained, Failed, Failure
<1> QED
  BY <1>1, <1>2, <1>3, <1>4, <1>5 DEF IInv

-----------------------------------------------------------------------------
(* Calls of the sweep.                                                     *)

\* A call for an instance changes that one alone.
LEMMA CallsOne ==
  ASSUME TypeOK, NEW n \in Names, NEW c, NEW e \in Errors, Calls(n, c, e)
  PROVE  /\ vm' \in [Names -> VM] /\ vm'[n] \in VM
         /\ \A m \in Names \ {n} : vm'[m] = vm[m]
         /\ Promised(c, vm[n], vm'[n], e, FALSE, late')
         /\ late' \in BOOLEAN /\ trouble' \in 0..MaxTrouble
<1>1. PICK w \in VM : /\ vm' = [vm EXCEPT ![n] = w]
                      /\ Trouble(e) \/ NoTrouble
                      /\ Promised(c, vm[n], w, e, FALSE, late')
  BY DEF Calls
<1>2. vm \in [Names -> VM]
  BY DEF TypeOK
<1>3. vm' \in [Names -> VM] /\ vm'[n] = w /\ \A m \in Names \ {n} : vm'[m] = vm[m]
  BY <1>1, <1>2
<1>4. late' \in BOOLEAN /\ trouble' \in 0..MaxTrouble
  BY <1>1, TroubleType
<1> QED
  BY <1>1, <1>3, <1>4

LEMMA UnprotectIInv == ASSUME IInv, NEW n \in Names, Unprotect(n) PROVE IInv'
<1> USE DEF options, lima, users, At
<1>0. /\ pc = "instances" /\ pc' = pc /\ n \in todo /\ tried' = n
      /\ UNCHANGED <<home, allow, todo, flagged, removed, err, disks, made, guarded>>
  BY DEF Unprotect
<1>1. PICK e \in Errors :
        /\ Calls(n, [op |-> "protect", want |-> FALSE], e)
        /\ failures' = IF e = "ok" THEN failures
                       ELSE failures \cup {Failure(n, "unprotect", e)}
  BY DEF Unprotect
<1>2. /\ vm' \in [Names -> VM] /\ vm'[n] \in VM /\ vm[n] \in VM
      /\ \A m \in Names \ {n} : vm'[m] = vm[m]
      /\ Promised([op |-> "protect", want |-> FALSE], vm[n], vm'[n], e, FALSE, late')
      /\ late' \in BOOLEAN /\ trouble' \in 0..MaxTrouble
  BY <1>1, CallsOne DEF IInv, TypeOK
<1>3. /\ Listed(vm'[n]) => Listed(vm[n])
      /\ vm'[n].protected => vm[n].protected
      /\ e = "ok" => ~vm'[n].protected
  BY <1>2, UnprotectResult
<1>4. Left' \subseteq Left
  BY <1>0, <1>2, <1>3 DEF Left
<1>5. failures \subseteq failures' /\ \A x : Failed(x) => Failed(x)'
  BY <1>1 DEF Failed
<1>6. TypeOK'
  <2>1. \A f \in failures' : f.of \in Names \cup DiskNames \cup {NoName}
    BY <1>1 DEF IInv, TypeOK, Failure
  <2> QED
    BY <1>0, <1>2, <2>1 DEF IInv, TypeOK
<1>7. HomeInv' /\ PhaseInv'
  BY <1>0 DEF IInv, HomeInv, PhaseInv, Refused
<1>8. CoverInv'
  BY <1>0, <1>4, <1>5 DEF IInv, CoverInv
<1>9. ProtectionInv'
  <2>1. ASSUME e # "ok" PROVE \E g \in failures' : g.of = n /\ g.call = "unprotect"
    <3>1. Failure(n, "unprotect", e) \in failures'
      BY <1>1, <2>1
    <3> QED
      BY <3>1 DEF Failure
  <2>2. ASSUME NEW m \in todo, m # n, vm'[m].protected
        PROVE  \/ m \in flagged' /\ m # tried'
               \/ m \in guarded'
               \/ \E g \in failures' : g.of = m /\ g.call = "unprotect"
    BY <1>0, <1>2, <1>5, <2>2 DEF IInv, PhaseInv, ProtectionInv
  <2> QED
    BY <1>0, <1>3, <2>1, <2>2 DEF ProtectionInv
<1>10. RefusalsExplained'
  BY <1>0, <1>1, <1>5 DEF IInv, RefusalsExplained, Failure, Errors
<1> QED
  BY <1>6, <1>7, <1>8, <1>9, <1>10 DEF IInv

LEMMA DeleteIInv == ASSUME IInv, NEW n \in Names, Delete(n) PROVE IInv'
<1> USE DEF options, lima, users, At
<1>0. /\ pc = "instances" /\ pc' = pc /\ n \in todo /\ todo' = todo \ {n} /\ tried' = NoName
      /\ tried = n \/ (tried = NoName /\ n \notin flagged)
      /\ UNCHANGED <<home, allow, flagged, err, disks, made, guarded>>
  BY DEF Delete
<1>1. PICK e \in Errors :
        /\ Calls(n, [op |-> "delete"], e)
        /\ IF e = "ok" THEN removed' = removed \cup {n} /\ UNCHANGED failures
           ELSE failures' = failures \cup {Failure(n, "delete", e)} /\ UNCHANGED removed
  BY DEF Delete
<1>2. /\ vm' \in [Names -> VM] /\ vm'[n] \in VM /\ vm[n] \in VM
      /\ \A m \in Names \ {n} : vm'[m] = vm[m]
      /\ Promised([op |-> "delete"], vm[n], vm'[n], e, FALSE, late')
      /\ late' \in BOOLEAN /\ trouble' \in 0..MaxTrouble
  BY <1>1, CallsOne DEF IInv, TypeOK
<1>3. (e = "ok" => ~Listed(vm'[n])) /\ (e = "protected" => vm[n].protected)
  BY <1>2, DeleteResult
<1>4. /\ Left' \subseteq Left \cup {n}
      /\ e = "ok" => n \notin Left'
  BY <1>0, <1>2, <1>3, SweepAssumption DEF Left, IInv, TypeOK
<1>5. /\ failures \subseteq failures' /\ \A x : Failed(x) => Failed(x)'
      /\ e # "ok" => Failed(n)'
  <2>1. failures \subseteq failures' /\ \A x : Failed(x) => Failed(x)'
    BY <1>1 DEF Failed
  <2>2. ASSUME e # "ok" PROVE Failed(n)'
    <3>1. Failure(n, "delete", e) \in failures'
      BY <1>1, <2>2
    <3> QED
      BY <3>1 DEF Failed, Failure
  <2> QED
    BY <2>1, <2>2
<1>6. TypeOK'
  <2>1. \A f \in failures' : f.of \in Names \cup DiskNames \cup {NoName}
    BY <1>1 DEF IInv, TypeOK, Failure
  <2>2. removed' \subseteq Names \cup DiskNames /\ todo' \subseteq Names \cup DiskNames
    BY <1>0, <1>1 DEF IInv, TypeOK
  <2> QED
    BY <1>0, <1>2, <2>1, <2>2 DEF IInv, TypeOK
<1>7. HomeInv' /\ PhaseInv'
  BY <1>0, <1>1 DEF IInv, HomeInv, PhaseInv, Refused
<1>8. CoverInv'
  BY <1>0, <1>1, <1>4, <1>5 DEF IInv, CoverInv, PhaseInv
<1>9. ProtectionInv'
  BY <1>0, <1>2, <1>5, SweepAssumption DEF IInv, ProtectionInv, PhaseInv
<1>10. RefusalsExplained'
  <2>1. ASSUME e = "protected"
        PROVE  n \in guarded' \/ \E g \in failures' : g.of = n /\ g.call = "unprotect"
    BY <1>0, <1>3, <1>5, <2>1 DEF IInv, ProtectionInv
  <2> QED
    BY <1>0, <1>1, <1>5, <2>1 DEF IInv, RefusalsExplained, Failure, Errors
<1> QED
  BY <1>6, <1>7, <1>8, <1>9, <1>10 DEF IInv

\* A disk that is deleted is gone; one that is in use belongs to an instance that
\* runs, and so is in the home.
LEMMA DeletesDiskResult ==
  ASSUME TypeOK, NEW d \in DiskNames, NEW e, DeletesDisk(d, e)
  PROVE  /\ disks' \subseteq disks
         /\ e = "ok" => d \notin disks'
         /\ e = "inuse" => Listed(vm[AttachedTo[d]])
         /\ late' \in BOOLEAN /\ trouble' \in 0..MaxTrouble
<1>1. disks' \subseteq disks /\ (e = "ok" => d \notin disks')
  BY DEF DeletesDisk, Trouble
<1>2. e = "inuse" => Listed(vm[AttachedTo[d]])
  BY DEF DeletesDisk, InUse, Running, Listed, Trouble
<1>3. late' \in BOOLEAN /\ trouble' \in 0..MaxTrouble
  BY TroubleType DEF DeletesDisk
<1> QED
  BY <1>1, <1>2, <1>3

LEMMA DeleteDiskIInv == ASSUME IInv, NEW d \in DiskNames, DeleteDisk(d) PROVE IInv'
<1> USE DEF options, lima, users, At
<1>0. /\ pc = "disks" /\ pc' = pc /\ d \in todo /\ todo' = todo \ {d}
      /\ UNCHANGED <<home, allow, flagged, tried, err, vm, made, guarded>>
  BY DEF DeleteDisk
<1>1. PICK e \in {"ok", "inuse", "failed", "timeout"} :
        /\ DeletesDisk(d, e)
        /\ IF e = "ok" THEN removed' = removed \cup {d} /\ UNCHANGED failures
           ELSE failures' = failures \cup {Failure(d, "delete", e)} /\ UNCHANGED removed
  BY DEF DeleteDisk
<1>2. /\ disks' \subseteq disks
      /\ e = "ok" => d \notin disks'
      /\ e = "inuse" => Listed(vm[AttachedTo[d]])
      /\ late' \in BOOLEAN /\ trouble' \in 0..MaxTrouble
  BY <1>1, DeletesDiskResult DEF IInv
<1>3. Left' \subseteq Left /\ (e = "ok" => d \notin Left')
  BY <1>0, <1>2, SweepAssumption DEF Left
<1>4. /\ failures \subseteq failures' /\ \A x : Failed(x) => Failed(x)'
      /\ e # "ok" => Failed(d)'
  <2>1. failures \subseteq failures' /\ \A x : Failed(x) => Failed(x)'
    BY <1>1 DEF Failed
  <2>2. ASSUME e # "ok" PROVE Failed(d)'
    <3>1. Failure(d, "delete", e) \in failures'
      BY <1>1, <2>2
    <3> QED
      BY <3>1 DEF Failed, Failure
  <2> QED
    BY <2>1, <2>2
<1>5. TypeOK'
  <2>1. \A f \in failures' : f.of \in Names \cup DiskNames \cup {NoName}
    BY <1>1 DEF IInv, TypeOK, Failure
  <2>2. removed' \subseteq Names \cup DiskNames /\ todo' \subseteq Names \cup DiskNames
    BY <1>0, <1>1 DEF IInv, TypeOK
  <2> QED
    BY <1>0, <1>2, <2>1, <2>2 DEF IInv, TypeOK
<1>6. HomeInv' /\ PhaseInv' /\ ProtectionInv'
  BY <1>0, <1>1 DEF IInv, HomeInv, PhaseInv, ProtectionInv, Refused
<1>7. CoverInv'
  BY <1>0, <1>1, <1>3, <1>4 DEF IInv, CoverInv, PhaseInv
<1>8. RefusalsExplained'
  <2>1. AttachedTo[d] \in Names
    BY SweepAssumption
  <2>2. ASSUME e = "inuse" PROVE Failed(AttachedTo[d])' \/ AttachedTo[d] \in made'
    BY <1>0, <1>2, <1>4, <2>1, <2>2 DEF IInv, CoverInv, Left
  <2> QED
    BY <1>0, <1>1, <1>4, <2>2 DEF IInv, RefusalsExplained, Failure
<1> QED
  BY <1>5, <1>6, <1>7, <1>8 DEF IInv

-----------------------------------------------------------------------------
(* What happens beside the sweep.                                          *)

LEMMA ExpireIInv == IInv /\ Expire => IInv'
<1> SUFFICES ASSUME IInv, Expire PROVE IInv'
  OBVIOUS
<1> USE DEF options, report, lima, users
<1>0. UNCHANGED <<home, allow, pc, todo, flagged, tried, removed, failures, err, vm, disks,
                  made, guarded>>
  BY DEF Expire
<1>1. late' \in BOOLEAN /\ trouble' \in 0..MaxTrouble
  BY SweepAssumption DEF Expire, IInv, TypeOK
<1>2. TypeOK'
  BY <1>0, <1>1 DEF IInv, TypeOK, At
<1>3. HomeInv' /\ PhaseInv' /\ CoverInv'
  BY <1>0 DEF IInv, HomeInv, PhaseInv, CoverInv, Left, Failed, Refused
<1>4. ProtectionInv' /\ RefusalsExplained'
  BY <1>0 DEF IInv, ProtectionInv, RefusalsExplained, Failed
<1> QED
  BY <1>2, <1>3, <1>4 DEF IInv

\* What a user of the home may do to one instance.
LEMMA UserResultsType ==
  ASSUME NEW v \in VM, NEW w \in UserResults(v)
  PROVE  w \in VM
<1> DEFINE Present == [status : Statuses \ {"absent"}, protected : BOOLEAN, config : Configs]
<1>1. Absent \in VM
  BY DEF VM
<1>2. Present \subseteq VM
  BY DEF VM
<1>3. CASE ~Listed(v)
  <2>1. PICK c \in Configs : w = New(c, "stopped")
    BY <1>3 DEF UserResults
  <2>2. w \in Present
    BY <2>1 DEF New, Statuses
  <2> QED
    BY <2>2, <1>2
<1>4. CASE Listed(v)
  <2>1. v \in Present
    BY <1>4 DEF VM, Listed, Absent
  <2>2. w \in {[v EXCEPT !.protected = ~@]}
                \cup {[v EXCEPT !.status = s] : s \in {"running", "stopped"}} \cup {Absent}
    BY <1>4 DEF UserResults
  <2>3. [v EXCEPT !.protected = ~@] \in Present
    <3>1. (~v.protected) \in BOOLEAN
      OBVIOUS
    <3> QED
      BY <2>1, <3>1
  <2>4. \A s \in {"running", "stopped"} : [v EXCEPT !.status = s] \in Present
    BY <2>1 DEF Statuses
  <2> QED
    BY <2>2, <2>3, <2>4, <1>1, <1>2
<1> QED
  BY <1>3, <1>4

\* An instance that appears is a user's, and so is protection that does.
LEMMA InstanceChangeIInv ==
  ASSUME IInv, NEW n \in Names, vm' \in [Names -> VM],
         \A m \in Names \ {n} : vm'[m] = vm[m],
         Listed(vm'[n]) => Listed(vm[n]) \/ n \in made',
         vm'[n].protected => vm[n].protected \/ n \in guarded',
         made \subseteq made', made' \subseteq made \cup {n},
         guarded \subseteq guarded', guarded' \subseteq guarded \cup {n},
         trouble' \in 0..MaxTrouble,
         UNCHANGED <<home, allow, pc, todo, flagged, tried, removed, failures, err, late,
                     disks>>
  PROVE  IInv'
<1>1. Left' \subseteq Left
  BY DEF Left
<1>2. TypeOK'
  BY DEF IInv, TypeOK, At
<1>3. HomeInv' /\ PhaseInv'
  BY DEF IInv, HomeInv, PhaseInv, Refused
<1>4. CoverInv'
  BY <1>1 DEF IInv, CoverInv, Failed
<1>5. ProtectionInv'
  BY DEF IInv, ProtectionInv, PhaseInv
<1>6. RefusalsExplained'
  BY DEF IInv, RefusalsExplained, Failed
<1> QED
  BY <1>2, <1>3, <1>4, <1>5, <1>6 DEF IInv

LEMMA SettleIInv == ASSUME IInv, NEW n \in Names, Settle(n) PROVE IInv'
<1> USE DEF options, report, users
<1>1. vm[n] \in VM /\ vm \in [Names -> VM] /\ trouble \in 0..MaxTrouble
  BY DEF IInv, TypeOK
<1>2. /\ Settled(vm[n]) \in VM
      /\ Listed(Settled(vm[n])) => Listed(vm[n])
      /\ Settled(vm[n]).protected => vm[n].protected
  BY <1>1, SettledKeeps
<1>3. vm' = [vm EXCEPT ![n] = Settled(vm[n])]
  BY DEF Settle
<1> QED
  BY <1>1, <1>2, <1>3, InstanceChangeIInv DEF Settle

LEMMA UserIInv == ASSUME IInv, NEW n \in Names, User(n) PROVE IInv'
<1> USE DEF options, report
<1>1. vm[n] \in VM /\ vm \in [Names -> VM] /\ trouble' \in 0..MaxTrouble
  BY SweepAssumption DEF IInv, TypeOK, User
<1>2. PICK w \in UserResults(vm[n]) : vm' = [vm EXCEPT ![n] = w]
  BY DEF User
<1>3. w \in VM
  BY <1>1, <1>2, UserResultsType
<1>4. /\ vm' \in [Names -> VM] /\ vm'[n] = w
      /\ \A m \in Names \ {n} : vm'[m] = vm[m]
  BY <1>1, <1>2, <1>3
<1>5. /\ Listed(vm'[n]) => Listed(vm[n]) \/ n \in made'
      /\ made \subseteq made' /\ made' \subseteq made \cup {n}
  BY DEF User
<1>6. /\ vm'[n].protected => vm[n].protected \/ n \in guarded'
      /\ guarded \subseteq guarded' /\ guarded' \subseteq guarded \cup {n}
  BY DEF User
<1>7. UNCHANGED <<home, allow, pc, todo, flagged, tried, removed, failures, err, late, disks>>
  BY DEF User
<1> QED
  BY <1>1, <1>4, <1>5, <1>6, <1>7, InstanceChangeIInv

LEMMA UserDiskIInv == ASSUME IInv, NEW d \in DiskNames, UserDisk(d) PROVE IInv'
<1> USE DEF options, report
<1>0. UNCHANGED <<home, allow, pc, todo, flagged, tried, removed, failures, err, late, vm,
                  guarded>>
  BY DEF UserDisk
<1>1. /\ trouble' \in 0..MaxTrouble
      /\ disks' \subseteq DiskNames /\ made \subseteq made' /\ made' \subseteq made \cup {d}
  BY SweepAssumption DEF UserDisk, IInv, TypeOK
<1>2. Left' \subseteq Left
  BY <1>0, <1>1 DEF UserDisk, Left
<1>3. TypeOK'
  BY <1>0, <1>1 DEF IInv, TypeOK, At
<1>4. HomeInv' /\ PhaseInv' /\ ProtectionInv'
  BY <1>0 DEF IInv, HomeInv, PhaseInv, ProtectionInv, Refused
<1>5. CoverInv'
  BY <1>0, <1>2 DEF IInv, CoverInv, Failed
<1>6. RefusalsExplained'
  BY <1>0, <1>1 DEF IInv, RefusalsExplained, Failed
<1> QED
  BY <1>3, <1>4, <1>5, <1>6 DEF IInv

-----------------------------------------------------------------------------

\* Every step keeps the invariant.
LEMMA NextIInv == IInv /\ [Next]_vars => IInv'
<1> SUFFICES ASSUME IInv, [Next]_vars PROVE IInv'
  OBVIOUS
<1>1. CASE Step
  BY <1>1, PhaseStepsIInv, ListIInv, ListDisksIInv, UnprotectIInv, DeleteIInv,
     DeleteDiskIInv DEF Step
<1>2. CASE Expire \/ UNCHANGED vars
  BY <1>2, ExpireIInv, StutterIInv
<1>3. CASE \E n \in Names : Settle(n) \/ User(n)
  BY <1>3, SettleIInv, UserIInv
<1>4. CASE \E d \in DiskNames : UserDisk(d)
  BY <1>4, UserDiskIInv
<1> QED
  BY <1>1, <1>2, <1>3, <1>4 DEF Next

LEMMA SpecIInv == Spec => []IInv
  BY InitIInv, NextIInv, PTL DEF Spec

-----------------------------------------------------------------------------

\* The sweep's variables keep their types (SweepOptions, SweepReport).
THEOREM TypeCorrect == Spec => []TypeOK
<1>1. IInv => TypeOK
  BY DEF IInv
<1> QED
  BY <1>1, SpecIInv, PTL

\* Whatever a sweep that runs to its end leaves, its error names; one without an
\* error leaves nothing (sweep.go:41-49, 60-63, 97-126).
THEOREM AccountedHolds == Spec => []Accounted
<1>1. IInv => Accounted
  <2> SUFFICES ASSUME CoverInv PROVE Accounted
    BY DEF IInv
  <2>1. removed \cap Left = {}
    BY DEF CoverInv
  <2>2. ASSUME pc = "done", err = "ok" PROVE Left = {} /\ failures = {}
    <3>1. failures = {}
      BY <2>2 DEF CoverInv
    <3>2. \A x \in Left : Failed(x)
      BY <2>2, <3>1 DEF CoverInv
    <3> QED
      BY <3>1, <3>2 DEF Failed
  <2>3. ASSUME pc = "done", err = "failures"
        PROVE  /\ failures # {}
               /\ (\E f \in failures : f.call = "list") \/ \A x \in Left : Failed(x)
    BY <2>3 DEF CoverInv
  <2> QED
    BY <2>1, <2>2, <2>3 DEF Accounted, At
<1> QED
  BY <1>1, SpecIInv, PTL

\* No delete is refused for protection or use without a cause outside the order
\* in which the sweep works (sweep.go:53-58, 85-105).
THEOREM RefusalsExplainedHolds == Spec => []RefusalsExplained
<1>1. IInv => RefusalsExplained
  BY DEF IInv
<1> QED
  BY <1>1, SpecIInv, PTL

\* A sweep that is not allowed to never changes Lima's default home, however it
\* was spelled (sweep.go:70-74, 128-142).
THEOREM DefaultHomeKeptHolds == Spec => DefaultHomeKept
<1>1. ASSUME IInv, [Next]_vars
      PROVE  [Step /\ Swept = "~/.lima" /\ ~allow => UNCHANGED lima]_vars
  <2> SUFFICES ASSUME Step, Swept = "~/.lima", ~allow PROVE UNCHANGED lima
    OBVIOUS
  <2>1. Refused(home)
    BY DEF Swept, Refused, Clean, ResolveHome
  <2>2. pc \in {"refuse", "done"}
    BY <1>1, <2>1 DEF IInv, HomeInv
  <2>3. RefuseDefaultHome
    BY <2>2 DEF Step, At, List, Cancelled, InstancesDone, ListDisks, DisksDone, Unprotect,
                Delete, DeleteDisk
  <2> QED
    BY <2>3 DEF RefuseDefaultHome
<1> QED
  BY <1>1, SpecIInv, PTL DEF Spec, DefaultHomeKept

=============================================================================
