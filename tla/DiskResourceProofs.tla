------------------------- MODULE DiskResourceProofs -------------------------
(***************************************************************************)
(* Proofs about DiskResource, for any number of resources, any sizes,      *)
(* formats and amount of trouble.                                          *)
(*                                                                         *)
(* DiskInv follows a call from the disk it found when it took the lock to  *)
(* the disk there is now.  Only a call that holds the lock changes it, so  *)
(* the steps of the other calls leave what DiskInv says alone; a step of   *)
(* the call itself leads from Local to Local and, at its end, to what the  *)
(* contract says of the error it returns.                                  *)
(***************************************************************************)
EXTENDS DiskResource, TLAPS

Calls == {"create", "resize", "delete"}

CallSteps(o) ==
  {"unlock"} \cup CASE o = "create" -> {"create_exists", "create_run", "create_inspect"}
                    [] o = "resize" -> {"resize_inspect", "resize_run"}
                    [] o = "delete" -> {"delete_inspect", "delete_run"}

LockedSteps == {"create_exists", "create_run", "create_inspect", "resize_inspect",
                "resize_run", "delete_inspect", "delete_run", "unlock"}

\* From the disk a call of o found to the disk d there is now, at step l.
Local(l, o, w, was, d, e, x) ==
  /\ o \in Calls /\ l \in CallSteps(o)
  /\ o # "delete" => w # Gone
  /\ l # "unlock" => e = "ok"
  /\ l \notin {"create_inspect", "unlock"} => d = was
  /\ l = "create_run" => was = Gone
  /\ l = "create_inspect" => was = Gone /\ d # Gone /\ d.size = w.size
  /\ l = "resize_run" => was # Gone /\ was.size < w.size
  /\ l = "delete_run" => was # Gone
  /\ l = "unlock" => Kept(o, w, was, d, e, x)

Following(p) ==
  /\ pc[p] = "lock" => op[p] \in Calls /\ (op[p] # "delete" => want[p] # Gone) /\ err[p] = "ok"
  /\ pc[p] = "get" => want[p] # Gone
  /\ pc[p] \in LockedSteps =>
       /\ holder[Disk] = p
       /\ Local(pc[p], op[p], want[p], before[p], disk, err[p], late[p])

DiskInv == \A p \in Procs : Following(p)

-----------------------------------------------------------------------------
(* Disks and what is recorded of them.                                     *)

\* A disk that exists has a size and a format, and is what may be configured.
LEMMA DiskFields ==
  ASSUME NEW d \in Disks
  PROVE  d # Gone /\ d.size \in 1..MaxSize /\ d \in Wishes
  BY DiskAssumption DEF Disks, Wishes, Gone

\* A configuration has a size.
LEMMA WishFields ==
  ASSUME NEW w \in Wishes
  PROVE  w # Gone /\ w.size \in 1..MaxSize
  BY DiskAssumption DEF Wishes, Gone

\* Another size leaves a disk one.
LEMMA SizedDisk ==
  ASSUME NEW d \in Disks, NEW s \in 1..MaxSize
  PROVE  LET r == [d EXCEPT !.size = s] IN
         r \in Disks /\ r.size = s /\ (d.size = s => r = d)
  BY DEF Disks

\* So does another size of a configuration.
LEMMA SizedWish ==
  ASSUME NEW w \in Wishes, NEW s \in 1..MaxSize
  PROVE  [w EXCEPT !.size = s] \in Wishes
  BY DEF Wishes

\* Lima chooses the format of a disk it creates.
LEMMA FormattedDisk ==
  ASSUME NEW w \in Wishes, NEW f \in Formats
  PROVE  LET r == [w EXCEPT !.format = f] IN r \in Disks /\ r.size = w.size
  BY DEF Wishes, Disks

\* State may leave the format out.
LEMMA FormattedWish ==
  ASSUME NEW d \in Disks, NEW f \in Formats \cup {NoFormat}
  PROVE  [d EXCEPT !.format = f] \in Wishes
  BY DEF Wishes, Disks

-----------------------------------------------------------------------------
(* How commands end.                                                       *)

\* A command ends as one of the outcomes it may have, as a failure, or killed.
LEMMA EndsForms ==
  ASSUME TypeOK, NEW p \in Procs, NEW outs, NEW o \in Results, Ends(p, outs, o)
  PROVE  /\ disk' = o.disk /\ disk' \in Disks \cup {Gone}
         /\ late' \in [Procs -> BOOLEAN] /\ trouble' \in 0..MaxTrouble
         /\ \A q \in Procs \ {p} : late'[q] = late[q]
         /\ o.exit = "timeout" => late'[p]
         /\ \/ o \in outs
            \/ o.exit = "failed" /\ o.disk = disk
            \/ o.exit = "timeout" /\ o.disk \in {disk} \cup {q.disk : q \in outs}
<1>1. disk' = o.disk /\ disk' \in Disks \cup {Gone}
  BY DEF Ends, Results
<1>2. late' = [late EXCEPT ![p] = @ \/ o.exit = "timeout"] /\ late \in [Procs -> BOOLEAN]
  BY DEF Ends, TypeOK
<1>3. late' \in [Procs -> BOOLEAN] /\ \A q \in Procs \ {p} : late'[q] = late[q]
  BY <1>2
<1>4. o.exit = "timeout" => late'[p]
  BY <1>2
<1>5. trouble' \in 0..MaxTrouble
  BY DiskAssumption DEF Ends, TypeOK
<1>6. CASE late[p]
  BY <1>1, <1>3, <1>4, <1>5, <1>6 DEF Ends, Outcome
<1>7. CASE ~late[p]
  <2>1. CASE o = Outcome(disk, "failed")
    BY <1>1, <1>3, <1>4, <1>5, <2>1 DEF Outcome
  <2>2. CASE o # Outcome(disk, "failed")
    BY <1>1, <1>3, <1>4, <1>5, <1>7, <2>2 DEF Ends
  <2> QED
    BY <2>1, <2>2
<1> QED
  BY <1>6, <1>7

\* An inspection changes nothing and tells the truth, if anything.
LEMMA InspectForms ==
  ASSUME TypeOK, NEW p \in Procs, NEW o \in Results, Ends(p, InspectOutcomes, o)
  PROVE  /\ disk' = disk /\ o.disk = disk
         /\ o.exit \in {"ok", "notfound", "failed", "timeout"}
         /\ o.exit = "ok" => disk # Gone
         /\ o.exit = "notfound" => disk = Gone
<1>1. CASE o \in InspectOutcomes
  BY <1>1, EndsForms DEF InspectOutcomes, Outcome, Exists
<1>2. CASE o \notin InspectOutcomes
  <2>1. {q.disk : q \in InspectOutcomes} = {disk}
    BY DEF InspectOutcomes, Outcome
  <2> QED
    BY <1>2, <2>1, EndsForms
<1> QED
  BY <1>1, <1>2

\* Where a step leads, and what error it sets.
LEMMA GotoForms ==
  ASSUME TypeOK, NEW p \in Procs, NEW l \in Steps, Goto(p, l)
  PROVE  /\ pc' \in [Procs -> Steps] /\ pc'[p] = l
         /\ \A q \in Procs \ {p} : pc'[q] = pc[q]
  BY DEF Goto, TypeOK

ErrorKinds == {"ok", "failed", "timeout", "exists", "inuse", "notfound"}

\* A step that fails goes to the unlock with its error.
LEMMA FailForms ==
  ASSUME TypeOK, NEW p \in Procs, NEW e \in ErrorKinds, Fail(p, e)
  PROVE  /\ pc' \in [Procs -> Steps] /\ pc'[p] = "unlock"
         /\ err' \in [Procs -> ErrorKinds] /\ err'[p] = e
         /\ \A q \in Procs \ {p} : pc'[q] = pc[q] /\ err'[q] = err[q]
  BY GotoForms DEF Fail, TypeOK, Steps, ErrorKinds

\* A command's step leads on or fails.
Leads(p, l, e) ==
  /\ pc' \in [Procs -> Steps] /\ err' \in [Procs -> ErrorKinds]
  /\ pc'[p] = l /\ err'[p] = e
  /\ \A q \in Procs \ {p} : pc'[q] = pc[q] /\ err'[q] = err[q]

\* A step that goes on.
LEMMA GotoLeads ==
  ASSUME TypeOK, NEW p \in Procs, NEW l \in Steps, Goto(p, l), UNCHANGED err
  PROVE  Leads(p, l, err[p])
  BY GotoForms DEF Leads, TypeOK, ErrorKinds

\* A step that fails.
LEMMA FailLeads ==
  ASSUME TypeOK, NEW p \in Procs, NEW e \in ErrorKinds, Fail(p, e)
  PROVE  Leads(p, "unlock", e)
  BY FailForms DEF Leads

\* A command's step, by the exit of the command.
LEMMA ThenLeads ==
  ASSUME TypeOK, NEW p \in Procs, NEW o \in Results, NEW l \in Steps, Then(p, o, l)
  PROVE  /\ o.exit = "ok" => Leads(p, l, err[p])
         /\ o.exit # "ok" => Leads(p, "unlock", o.exit)
<1>1. o.exit \in ErrorKinds
  BY DEF Results, ErrorKinds
<1>2. CASE o.exit = "ok"
  BY <1>2, GotoLeads DEF Then
<1>3. CASE o.exit # "ok"
  BY <1>1, <1>3, FailLeads DEF Then
<1> QED
  BY <1>2, <1>3

-----------------------------------------------------------------------------
(* The commands of a call.                                                 *)

\* What the contract says of a create.
LEMMA KeptCreate ==
  ASSUME NEW w, NEW was, NEW d, NEW e, NEW x,
         e = "ok" => was = Gone /\ d.size = w.size,
         e = "exists" => was # Gone /\ d = was,
         e \notin {"ok", "exists"} => d = was \/ (was = Gone /\ d.size = w.size)
  PROVE  Kept("create", w, was, d, e, x)
  BY DEF Kept

\* Of a resize.
LEMMA KeptResize ==
  ASSUME NEW w, NEW was \in Disks \cup {Gone}, NEW d, NEW e, NEW x, w.size \in 1..MaxSize,
         e = "ok" => was # Gone /\ was.size <= w.size /\ d = [was EXCEPT !.size = w.size],
         e = "inuse" => was # Gone /\ was.size < w.size /\ d = was,
         e = "notfound" => was = Gone /\ d = was,
         e \notin {"ok", "inuse", "notfound"} =>
           \/ d = was
           \/ x /\ was # Gone /\ was.size < w.size /\ d = [was EXCEPT !.size = w.size]
  PROVE  Kept("resize", w, was, d, e, x)
<1>1. was # Gone => [was EXCEPT !.size = w.size].size = w.size
  BY SizedDisk
<1> DEFINE r == [was EXCEPT !.size = w.size]
<1>2. r = [was EXCEPT !.size = w.size] /\ (was # Gone => r.size = w.size)
  BY <1>1
<1>3. Kept("resize", w, was, d, e, x) <=>
        CASE e = "ok"       -> was # Gone /\ d = r /\ was.size <= d.size
          [] e = "inuse"    -> was # Gone /\ was.size < w.size /\ d = was
          [] e = "notfound" -> was = Gone /\ d = was
          [] OTHER          -> d = was \/ (x /\ was # Gone /\ was.size < w.size /\ d = r)
  BY DEF Kept
<1> HIDE DEF r
<1> QED
  BY <1>2, <1>3

\* Of a delete.
LEMMA KeptDelete ==
  ASSUME NEW w, NEW was, NEW d, NEW e, NEW x,
         e = "ok" => d = Gone,
         e = "inuse" => was # Gone /\ d = was,
         e \notin {"ok", "inuse"} => d = was \/ x
  PROVE  Kept("delete", w, was, d, e, x)
  BY DEF Kept

\* A step tells which call it belongs to.
LEMMA StepOp ==
  ASSUME NEW o \in Calls, NEW l \in CallSteps(o)
  PROVE  /\ l \in {"create_exists", "create_run", "create_inspect"} => o = "create"
         /\ l \in {"resize_inspect", "resize_run"} => o = "resize"
         /\ l \in {"delete_inspect", "delete_run"} => o = "delete"
<1>1. CASE o = "create"
  BY <1>1 DEF CallSteps
<1>2. CASE o = "resize"
  BY <1>2 DEF CallSteps
<1>3. CASE o = "delete"
  BY <1>3 DEF CallSteps
<1> QED
  BY <1>1, <1>2, <1>3 DEF Calls

\* A step of p's own command: where it leads, the call keeps to its contract.
Continues(p) ==
  /\ \E l \in LockedSteps, e \in ErrorKinds :
       /\ Leads(p, l, e)
       /\ Local(l, op[p], want[p], before[p], disk', e, late'[p])
  /\ busy => disk' # Gone

\* What a call at a step of its command knows.
LEMMA Now ==
  ASSUME TypeOK, DiskInv, NEW p \in Procs, pc[p] \in LockedSteps
  PROVE  /\ Local(pc[p], op[p], want[p], before[p], disk, err[p], late[p])
         /\ op[p] \in Calls /\ pc[p] \in CallSteps(op[p])
         /\ op[p] # "delete" => want[p] \in Wishes /\ want[p].size \in 1..MaxSize
         /\ want[p] \in Wishes \cup {Gone}
         /\ before[p] \in Disks \cup {Gone}
         /\ pc[p] # "unlock" => err[p] = "ok"
         /\ holder[Disk] = p
<1>1. Local(pc[p], op[p], want[p], before[p], disk, err[p], late[p]) /\ holder[Disk] = p
  BY DEF DiskInv, Following
<1>2. want[p] \in Wishes \cup {Gone} /\ before[p] \in Disks \cup {Gone}
  BY DEF TypeOK
<1> QED
  BY <1>1, <1>2, WishFields DEF Local

\* DiskService.Create looks for a collision.
LEMMA CreateExistsContinues ==
  ASSUME TypeOK, DiskInv, NEW p \in Procs, CreateExists(p)
  PROVE  Continues(p)
<1>1. PICK o \in Results :
        /\ Ends(p, InspectOutcomes, o)
        /\ CASE o.exit = "notfound" -> Goto(p, "create_run") /\ UNCHANGED err
             [] o.exit = "ok"       -> Fail(p, "exists")
             [] OTHER               -> Fail(p, o.exit)
  BY DEF CreateExists
<1>2. pc[p] = "create_exists" /\ pc[p] \in LockedSteps
  BY DEF CreateExists, At, LockedSteps
<1>3. op[p] = "create" /\ want[p] # Gone /\ before[p] = disk /\ err[p] = "ok"
  BY <1>2, Now, StepOp DEF Local
<1>4. /\ disk' = disk
      /\ o.exit \in {"ok", "notfound", "failed", "timeout"}
      /\ o.exit = "ok" => disk # Gone
      /\ o.exit = "notfound" => disk = Gone
  BY <1>1, InspectForms
<1>5. CASE o.exit = "notfound"
  <2>1. Leads(p, "create_run", "ok")
    BY <1>1, <1>3, <1>5, GotoLeads DEF Steps
  <2>2. Local("create_run", op[p], want[p], before[p], disk', "ok", late'[p])
    BY <1>3, <1>4, <1>5 DEF Local, Calls, CallSteps
  <2> QED
    BY <1>4, <2>1, <2>2 DEF Continues, LockedSteps, ErrorKinds, TypeOK, Exists
<1>6. CASE o.exit # "notfound"
  <2> DEFINE e == IF o.exit = "ok" THEN "exists" ELSE o.exit
  <2>1. e \in {"exists", "failed", "timeout"} /\ (e = "exists" => disk # Gone)
    BY <1>4, <1>6
  <2>2. Fail(p, e)
    BY <1>1, <1>6
  <2> HIDE DEF e
  <2>3. Leads(p, "unlock", e)
    BY <2>1, <2>2, FailLeads DEF ErrorKinds
  <2>4. Kept("create", want[p], before[p], disk', e, late'[p])
    BY <1>3, <1>4, <2>1, KeptCreate
  <2>5. Local("unlock", op[p], want[p], before[p], disk', e, late'[p])
    BY <1>3, <2>4 DEF Local, Calls, CallSteps
  <2> QED
    BY <1>4, <2>1, <2>3, <2>5 DEF Continues, LockedSteps, ErrorKinds, TypeOK, Exists
<1> QED
  BY <1>5, <1>6

\* It creates the disk, whose size is then the configuration's.
LEMMA CreateRunContinues ==
  ASSUME TypeOK, DiskInv, NEW p \in Procs, CreateRun(p)
  PROVE  Continues(p)
<1>1. PICK o \in Results :
        Ends(p, CreateOutcomes(want[p]), o) /\ Then(p, o, "create_inspect")
  BY DEF CreateRun
<1>2. pc[p] = "create_run" /\ pc[p] \in LockedSteps
  BY DEF CreateRun, At, LockedSteps
<1>3. op[p] = "create" /\ want[p] \in Wishes /\ want[p] # Gone /\ err[p] = "ok"
      /\ before[p] = Gone /\ disk = Gone
  BY <1>2, Now, StepOp DEF Local
<1>4. \A q \in CreateOutcomes(want[p]) :
        q.exit = "ok" /\ q.disk # Gone /\ q.disk.size = want[p].size
  <2>1. TAKE q \in CreateOutcomes(want[p])
  <2>2. PICK f \in Formats : q = Outcome([want[p] EXCEPT !.format = f], "ok")
    BY <1>3 DEF CreateOutcomes, Exists
  <2> DEFINE r == [want[p] EXCEPT !.format = f]
  <2>3. r \in Disks /\ r.size = want[p].size
    BY <1>3, FormattedDisk
  <2>4. q.exit = "ok" /\ q.disk = r
    BY <2>2 DEF Outcome
  <2> HIDE DEF r
  <2> QED
    BY <2>3, <2>4, DiskFields
<1>5. /\ disk' = o.disk
      /\ \/ o \in CreateOutcomes(want[p])
         \/ o.exit = "failed" /\ o.disk = disk
         \/ /\ o.exit = "timeout"
            /\ o.disk \in {disk} \cup {q.disk : q \in CreateOutcomes(want[p])}
  BY <1>1, EndsForms
<1>6. /\ o.exit \in {"ok", "failed", "timeout"}
      /\ o.exit = "ok" => disk' # Gone /\ disk'.size = want[p].size
      /\ disk' = Gone \/ (disk' # Gone /\ disk'.size = want[p].size)
  BY <1>3, <1>4, <1>5
<1>7. ~busy
  BY <1>3 DEF TypeOK, Exists
<1>8. CASE o.exit = "ok"
  <2>1. Leads(p, "create_inspect", "ok")
    BY <1>1, <1>3, <1>8, ThenLeads DEF Steps
  <2>2. Local("create_inspect", op[p], want[p], before[p], disk', "ok", late'[p])
    BY <1>3, <1>6, <1>8 DEF Local, Calls, CallSteps
  <2> QED
    BY <1>7, <2>1, <2>2 DEF Continues, LockedSteps, ErrorKinds
<1>9. CASE o.exit # "ok"
  <2>1. Leads(p, "unlock", o.exit)
    BY <1>1, <1>9, ThenLeads DEF Steps
  <2>2. Kept("create", want[p], before[p], disk', o.exit, late'[p])
    BY <1>3, <1>6, <1>9, KeptCreate
  <2>3. Local("unlock", op[p], want[p], before[p], disk', o.exit, late'[p])
    BY <1>3, <2>2 DEF Local, Calls, CallSteps
  <2> QED
    BY <1>6, <1>7, <2>1, <2>3 DEF Continues, LockedSteps, ErrorKinds
<1> QED
  BY <1>8, <1>9

\* It reads the disk it created.
LEMMA CreateInspectContinues ==
  ASSUME TypeOK, DiskInv, NEW p \in Procs, CreateInspect(p)
  PROVE  Continues(p)
<1>1. PICK o \in Results : Ends(p, InspectOutcomes, o) /\ Then(p, o, "unlock")
  BY DEF CreateInspect
<1>2. pc[p] = "create_inspect" /\ pc[p] \in LockedSteps
  BY DEF CreateInspect, At, LockedSteps
<1>3. op[p] = "create" /\ want[p] # Gone /\ err[p] = "ok"
      /\ before[p] = Gone /\ disk # Gone /\ disk.size = want[p].size
  BY <1>2, Now, StepOp DEF Local
<1>4. disk' = disk /\ o.exit \in {"ok", "failed", "timeout"}
  BY <1>1, <1>3, InspectForms
<1>5. Leads(p, "unlock", o.exit)
  BY <1>1, <1>3, ThenLeads DEF Steps
<1>6. Kept("create", want[p], before[p], disk', o.exit, late'[p])
  BY <1>3, <1>4, KeptCreate
<1>7. Local("unlock", op[p], want[p], before[p], disk', o.exit, late'[p])
  BY <1>3, <1>6 DEF Local, Calls, CallSteps
<1> QED
  BY <1>3, <1>4, <1>5, <1>7 DEF Continues, LockedSteps, ErrorKinds

\* DiskService.Resize compares sizes: what is left to run is a disk that grows.
LEMMA ResizeInspectContinues ==
  ASSUME TypeOK, DiskInv, NEW p \in Procs, ResizeInspect(p)
  PROVE  Continues(p)
<1>1. PICK o \in Results :
        /\ Ends(p, InspectOutcomes, o)
        /\ IF o.exit # "ok" THEN Fail(p, o.exit)
           ELSE CASE o.disk.size = want[p].size -> Goto(p, "unlock") /\ UNCHANGED err
                  [] o.disk.size > want[p].size -> Fail(p, "failed")
                  [] o.disk.size < want[p].size ->
                       IF busy THEN Fail(p, "inuse")
                       ELSE Goto(p, "resize_run") /\ UNCHANGED err
  BY DEF ResizeInspect
<1>2. pc[p] = "resize_inspect" /\ pc[p] \in LockedSteps
  BY DEF ResizeInspect, At, LockedSteps
<1>3. op[p] = "resize" /\ want[p] # Gone /\ before[p] = disk /\ err[p] = "ok"
      /\ want[p].size \in 1..MaxSize /\ before[p] \in Disks \cup {Gone}
  BY <1>2, Now, StepOp DEF Local
<1>4. /\ disk' = disk /\ o.disk = disk
      /\ o.exit \in {"ok", "notfound", "failed", "timeout"}
      /\ o.exit = "ok" => disk # Gone
      /\ o.exit = "notfound" => disk = Gone
  BY <1>1, InspectForms
<1>5. busy => disk' # Gone
  BY <1>4 DEF TypeOK, Exists
<1>6. SUFFICES ASSUME NEW l \in {"unlock", "resize_run"}, NEW e \in ErrorKinds,
                      Leads(p, l, e),
                      l = "resize_run" => /\ e = "ok" /\ before[p] # Gone
                                          /\ before[p].size < want[p].size,
                      l = "unlock" => Kept("resize", want[p], before[p], disk', e, late'[p])
               PROVE  Continues(p)
  <2>1. CASE o.exit # "ok"
    <3>1. Leads(p, "unlock", o.exit)
      BY <1>1, <1>4, <2>1, FailLeads DEF ErrorKinds
    <3>2. Kept("resize", want[p], before[p], disk', o.exit, late'[p])
      BY <1>3, <1>4, <2>1, KeptResize
    <3> QED
      BY <1>4, <1>6, <3>1, <3>2 DEF ErrorKinds
  <2>2. CASE o.exit = "ok"
    <3>1. disk \in Disks /\ disk.size \in 1..MaxSize
      BY <1>4, <2>2, DiskFields DEF TypeOK
    <3>2. CASE disk.size = want[p].size
      <4>5. /\ o.disk.size = want[p].size
            /\ ~(o.disk.size > want[p].size) /\ ~(o.disk.size < want[p].size)
        BY <1>3, <1>4, <3>1, <3>2, DiskAssumption
      <4>4. Goto(p, "unlock") /\ UNCHANGED err
        BY <1>1, <2>2, <4>5
      <4>1. Leads(p, "unlock", "ok")
        BY <1>3, <4>4, GotoLeads DEF Steps
      <4>2. disk' = [before[p] EXCEPT !.size = want[p].size]
        BY <1>3, <1>4, <3>1, <3>2, SizedDisk
      <4>6. before[p] # Gone /\ before[p].size <= want[p].size
        BY <1>3, <1>4, <2>2, <3>1, <3>2, DiskAssumption
      <4>3. Kept("resize", want[p], before[p], disk', "ok", late'[p])
        BY <1>3, <4>2, <4>6, KeptResize
      <4> QED
        BY <1>6, <4>1, <4>3 DEF ErrorKinds
    <3>3. CASE disk.size > want[p].size
      <4>4. /\ o.disk.size > want[p].size
            /\ ~(o.disk.size = want[p].size) /\ ~(o.disk.size < want[p].size)
        BY <1>3, <1>4, <3>1, <3>3, DiskAssumption
      <4>3. Fail(p, "failed")
        BY <1>1, <2>2, <4>4
      <4>1. Leads(p, "unlock", "failed")
        BY <4>3, FailLeads DEF ErrorKinds
      <4>2. Kept("resize", want[p], before[p], disk', "failed", late'[p])
        BY <1>3, <1>4, KeptResize
      <4> QED
        BY <1>6, <4>1, <4>2 DEF ErrorKinds
    <3>4. CASE disk.size < want[p].size
      <4>1. IF busy THEN Fail(p, "inuse") ELSE Goto(p, "resize_run") /\ UNCHANGED err
        BY <1>1, <1>3, <1>4, <2>2, <3>1, <3>4
      <4>2. CASE busy
        <5>1. Leads(p, "unlock", "inuse")
          BY <4>1, <4>2, FailLeads DEF ErrorKinds
        <5>2. Kept("resize", want[p], before[p], disk', "inuse", late'[p])
          BY <1>3, <1>4, <2>2, <3>4, KeptResize
        <5> QED
          BY <1>6, <5>1, <5>2 DEF ErrorKinds
      <4>3. CASE ~busy
        <5>1. Leads(p, "resize_run", "ok")
          BY <1>3, <4>1, <4>3, GotoLeads DEF Steps
        <5> QED
          BY <1>3, <1>4, <1>6, <2>2, <3>4, <5>1 DEF ErrorKinds
      <4> QED
        BY <4>2, <4>3
    <3> QED
      BY <1>3, <3>1, <3>2, <3>3, <3>4
  <2> QED
    BY <2>1, <2>2
<1>7. Local(l, op[p], want[p], before[p], disk', e, late'[p])
  BY <1>3, <1>4, <1>6 DEF Local, Calls, CallSteps
<1> QED
  BY <1>5, <1>6, <1>7 DEF Continues, LockedSteps

\* It resizes the disk, unless an instance took it meanwhile.
LEMMA ResizeRunContinues ==
  ASSUME TypeOK, DiskInv, NEW p \in Procs, ResizeRun(p)
  PROVE  Continues(p)
<1>1. PICK o \in Results :
        Ends(p, ResizeOutcomes(want[p].size), o) /\ Then(p, o, "unlock")
  BY DEF ResizeRun
<1>2. pc[p] = "resize_run" /\ pc[p] \in LockedSteps
  BY DEF ResizeRun, At, LockedSteps
<1>3. op[p] = "resize" /\ want[p] # Gone /\ before[p] = disk /\ err[p] = "ok"
      /\ want[p].size \in 1..MaxSize /\ before[p] \in Disks \cup {Gone}
      /\ before[p] # Gone /\ before[p].size < want[p].size
  BY <1>2, Now, StepOp DEF Local
<1>4. disk \in Disks /\ disk.size \in 1..MaxSize
  BY <1>3, DiskFields
<1> DEFINE r == [disk EXCEPT !.size = want[p].size]
<1>5. r \in Disks /\ r # Gone
  BY <1>3, <1>4, SizedDisk, DiskFields
<1>6. \A q \in ResizeOutcomes(want[p].size) :
        (q.exit = "inuse" /\ q.disk = disk) \/ (q.exit = "ok" /\ q.disk = r)
  <2>1. CASE busy
    <3>1. ResizeOutcomes(want[p].size) = {Outcome(disk, "inuse")}
      BY <1>3, <1>4, <2>1, DiskAssumption DEF ResizeOutcomes, Exists
    <3> QED
      BY <3>1 DEF Outcome
  <2>2. CASE ~busy
    <3>1. ResizeOutcomes(want[p].size) = {Outcome(r, "ok")}
      BY <1>3, <1>4, <2>2 DEF ResizeOutcomes, Exists
    <3> HIDE DEF r
    <3> QED
      BY <3>1 DEF Outcome
  <2> QED
    BY <2>1, <2>2
<1>7. /\ disk' = o.disk
      /\ o.exit = "timeout" => late'[p]
      /\ \/ o \in ResizeOutcomes(want[p].size)
         \/ o.exit = "failed" /\ o.disk = disk
         \/ /\ o.exit = "timeout"
            /\ o.disk \in {disk} \cup {q.disk : q \in ResizeOutcomes(want[p].size)}
  BY <1>1, EndsForms
<1>8. /\ o.exit \in {"ok", "inuse", "failed", "timeout"}
      /\ o.exit = "ok" => disk' = r
      /\ o.exit \in {"inuse", "failed"} => disk' = disk
      /\ disk' \in {disk, r}
  BY <1>6, <1>7
<1>9. Leads(p, "unlock", o.exit)
  BY <1>1, <1>3, ThenLeads DEF Steps
<1>10. Kept("resize", want[p], before[p], disk', o.exit, late'[p])
  BY <1>3, <1>4, <1>7, <1>8, KeptResize
<1>11. Local("unlock", op[p], want[p], before[p], disk', o.exit, late'[p])
  BY <1>3, <1>10 DEF Local, Calls, CallSteps
<1> QED
  BY <1>3, <1>5, <1>8, <1>9, <1>11 DEF Continues, LockedSteps, ErrorKinds

\* DiskService.Delete looks for the disk and its users.
LEMMA DeleteInspectContinues ==
  ASSUME TypeOK, DiskInv, NEW p \in Procs, DeleteInspect(p)
  PROVE  Continues(p)
<1>1. PICK o \in Results :
        /\ Ends(p, InspectOutcomes, o)
        /\ CASE o.exit = "notfound"     -> Goto(p, "unlock") /\ UNCHANGED err
             [] o.exit = "ok" /\ busy   -> Fail(p, "inuse")
             [] OTHER                   -> Then(p, o, "delete_run")
  BY DEF DeleteInspect
<1>2. pc[p] = "delete_inspect" /\ pc[p] \in LockedSteps
  BY DEF DeleteInspect, At, LockedSteps
<1>3. op[p] = "delete" /\ before[p] = disk /\ err[p] = "ok"
  BY <1>2, Now, StepOp DEF Local
<1>4. /\ disk' = disk
      /\ o.exit \in {"ok", "notfound", "failed", "timeout"}
      /\ o.exit = "ok" => disk # Gone
      /\ o.exit = "notfound" => disk = Gone
  BY <1>1, InspectForms
<1>5. busy => disk' # Gone
  BY <1>4 DEF TypeOK, Exists
<1>6. ASSUME NEW e \in ErrorKinds, Leads(p, "unlock", e),
             Kept("delete", want[p], before[p], disk', e, late'[p])
      PROVE  Continues(p)
  <2>1. Local("unlock", op[p], want[p], before[p], disk', e, late'[p])
    BY <1>3, <1>6 DEF Local, Calls, CallSteps
  <2> QED
    BY <1>5, <1>6, <2>1 DEF Continues, LockedSteps
<1>7. CASE o.exit = "notfound"
  <2>1. Leads(p, "unlock", "ok")
    BY <1>1, <1>3, <1>7, GotoLeads DEF Steps
  <2>2. Kept("delete", want[p], before[p], disk', "ok", late'[p])
    BY <1>4, <1>7, KeptDelete
  <2> QED
    BY <1>6, <2>1, <2>2 DEF ErrorKinds
<1>8. CASE o.exit = "ok" /\ busy
  <2>1. Leads(p, "unlock", "inuse")
    BY <1>1, <1>8, FailLeads DEF ErrorKinds
  <2>2. Kept("delete", want[p], before[p], disk', "inuse", late'[p])
    BY <1>3, <1>4, <1>8, KeptDelete
  <2> QED
    BY <1>6, <2>1, <2>2 DEF ErrorKinds
<1>9. CASE o.exit = "ok" /\ ~busy
  <2>1. Leads(p, "delete_run", "ok")
    BY <1>1, <1>3, <1>9, ThenLeads DEF Steps
  <2>2. Local("delete_run", op[p], want[p], before[p], disk', "ok", late'[p])
    BY <1>3, <1>4, <1>9 DEF Local, Calls, CallSteps
  <2> QED
    BY <1>5, <2>1, <2>2 DEF Continues, LockedSteps, ErrorKinds
<1>10. CASE o.exit \in {"failed", "timeout"}
  <2>1. Leads(p, "unlock", o.exit)
    BY <1>1, <1>10, ThenLeads DEF Steps
  <2>2. Kept("delete", want[p], before[p], disk', o.exit, late'[p])
    BY <1>3, <1>4, <1>10, KeptDelete
  <2> QED
    BY <1>6, <1>10, <2>1, <2>2 DEF ErrorKinds
<1> QED
  BY <1>4, <1>7, <1>8, <1>9, <1>10

\* It deletes the disk, unless an instance took it meanwhile.
LEMMA DeleteRunContinues ==
  ASSUME TypeOK, DiskInv, NEW p \in Procs, DeleteRun(p)
  PROVE  Continues(p)
<1>1. PICK o \in Results : Ends(p, DeleteOutcomes, o) /\ Then(p, o, "unlock")
  BY DEF DeleteRun
<1>2. pc[p] = "delete_run" /\ pc[p] \in LockedSteps
  BY DEF DeleteRun, At, LockedSteps
<1>3. op[p] = "delete" /\ before[p] = disk /\ err[p] = "ok" /\ disk # Gone
  BY <1>2, Now, StepOp DEF Local
<1>4. \A q \in DeleteOutcomes :
        IF busy THEN q.exit = "inuse" /\ q.disk = disk ELSE q.exit = "ok" /\ q.disk = Gone
  BY DEF DeleteOutcomes, Outcome
<1>5. /\ disk' = o.disk
      /\ o.exit = "timeout" => late'[p]
      /\ \/ o \in DeleteOutcomes
         \/ o.exit = "failed" /\ o.disk = disk
         \/ o.exit = "timeout" /\ o.disk \in {disk} \cup {q.disk : q \in DeleteOutcomes}
  BY <1>1, EndsForms
<1>6. /\ o.exit \in {"ok", "inuse", "failed", "timeout"}
      /\ o.exit = "ok" => disk' = Gone
      /\ o.exit \in {"inuse", "failed"} => disk' = disk
      /\ busy => disk' = disk
  BY <1>4, <1>5
<1>7. Leads(p, "unlock", o.exit)
  BY <1>1, <1>3, ThenLeads DEF Steps
<1>8. Kept("delete", want[p], before[p], disk', o.exit, late'[p])
  BY <1>3, <1>5, <1>6, KeptDelete
<1>9. Local("unlock", op[p], want[p], before[p], disk', o.exit, late'[p])
  BY <1>3, <1>8 DEF Local, Calls, CallSteps
<1> QED
  BY <1>3, <1>6, <1>7, <1>9 DEF Continues, LockedSteps, ErrorKinds

-----------------------------------------------------------------------------
(* A step of one resource's handler leaves what DiskInv says of the others. *)

\* Nothing that DiskInv says of q's call depends on changes, but the disk and the
\* lock may where q has no part in them.
LEMMA OthersFollow ==
  ASSUME NEW q \in Procs, Following(q),
         pc'[q] = pc[q], op'[q] = op[q], want'[q] = want[q], before'[q] = before[q],
         err'[q] = err[q], late'[q] = late[q],
         holder[Disk] = q => disk' = disk /\ holder'[Disk] = q
  PROVE  Following(q)'
  BY DEF Following, Local

\* A command's step keeps DiskInv.
LEMMA CommandDiskInv ==
  ASSUME TypeOK, DiskInv, NEW p \in Procs, pc[p] \in LockedSteps, Continues(p),
         UNCHANGED <<want, op, before, holder>>,
         \A q \in Procs \ {p} : late'[q] = late[q]
  PROVE  DiskInv'
<1>1. PICK l \in LockedSteps, e \in ErrorKinds :
        /\ Leads(p, l, e)
        /\ Local(l, op[p], want[p], before[p], disk', e, late'[p])
  BY DEF Continues
<1>2. holder[Disk] = p
  BY Now
<1>3. ASSUME NEW q \in Procs, q # p PROVE Following(q)'
  BY <1>1, <1>2, <1>3, OthersFollow DEF Leads, DiskInv
<1>4. Following(p)'
  BY <1>1, <1>2 DEF Leads, Following, LockedSteps
<1> QED
  BY <1>3, <1>4 DEF DiskInv

\* The commands of the service.
Command(p) ==
  \/ CreateExists(p) \/ CreateRun(p) \/ CreateInspect(p)
  \/ ResizeInspect(p) \/ ResizeRun(p) \/ DeleteInspect(p) \/ DeleteRun(p)

\* What they have in common.
LEMMA CommandForms ==
  ASSUME TypeOK, DiskInv, NEW p \in Procs, Command(p)
  PROVE  /\ Continues(p) /\ pc[p] \in LockedSteps
         /\ UNCHANGED <<want, op, before, busy, holder>>
         /\ disk' \in Disks \cup {Gone} /\ trouble' \in 0..MaxTrouble
         /\ late' \in [Procs -> BOOLEAN]
         /\ \A q \in Procs \ {p} : late'[q] = late[q]
<1>1. Continues(p)
  BY CreateExistsContinues, CreateRunContinues, CreateInspectContinues,
     ResizeInspectContinues, ResizeRunContinues, DeleteInspectContinues,
     DeleteRunContinues DEF Command
<1>2. pc[p] \in LockedSteps
  BY DEF Command, CreateExists, CreateRun, CreateInspect, ResizeInspect, ResizeRun,
         DeleteInspect, DeleteRun, At, LockedSteps
<1>3. UNCHANGED <<want, op, before, busy, holder>>
  BY DEF Command, CreateExists, CreateRun, CreateInspect, ResizeInspect, ResizeRun,
         DeleteInspect, DeleteRun, Service
<1>4. \E outs : \E o \in Results : Ends(p, outs, o)
  <2>1. CASE CreateExists(p) \/ CreateInspect(p) \/ ResizeInspect(p) \/ DeleteInspect(p)
    <3>1. \E o \in Results : Ends(p, InspectOutcomes, o)
      BY <2>1 DEF CreateExists, CreateInspect, ResizeInspect, DeleteInspect
    <3> QED
      BY <3>1
  <2>2. CASE CreateRun(p)
    <3>1. \E o \in Results : Ends(p, CreateOutcomes(want[p]), o)
      BY <2>2 DEF CreateRun
    <3> QED
      BY <3>1
  <2>3. CASE ResizeRun(p)
    <3>1. \E o \in Results : Ends(p, ResizeOutcomes(want[p].size), o)
      BY <2>3 DEF ResizeRun
    <3> QED
      BY <3>1
  <2>4. CASE DeleteRun(p)
    <3>1. \E o \in Results : Ends(p, DeleteOutcomes, o)
      BY <2>4 DEF DeleteRun
    <3> QED
      BY <3>1
  <2> QED
    BY <2>1, <2>2, <2>3, <2>4 DEF Command
<1>5. PICK outs, o : o \in Results /\ Ends(p, outs, o)
  BY <1>4
<1> QED
  BY <1>1, <1>2, <1>3, <1>5, EndsForms

\* A record of state is a configuration.
LEMMA RecordForms ==
  ASSUME TypeOK, NEW p \in Procs, NEW s \in Wishes \cup {Gone}, Record(p, s)
  PROVE  tf' \in [Procs -> Wishes \cup {Gone}]
  BY DEF Record, TypeOK

\* Commands keep the types.
LEMMA CommandTypeOK ==
  ASSUME TypeOK, DiskInv, NEW p \in Procs, Command(p)
  PROVE  TypeOK'
<1>1. /\ UNCHANGED <<want, op, before, busy, holder>>
      /\ disk' \in Disks \cup {Gone} /\ trouble' \in 0..MaxTrouble
      /\ late' \in [Procs -> BOOLEAN]
      /\ pc[p] \in LockedSteps
  BY CommandForms
<1>2. /\ pc' \in [Procs -> Steps] /\ err' \in [Procs -> ErrorKinds]
      /\ busy => disk' # Gone
  BY CommandForms DEF Continues, Leads
<1>3. tf' \in [Procs -> Wishes \cup {Gone}]
  <2>1. CASE CreateInspect(p)
    <3>1. PICK o \in Results :
            /\ Ends(p, InspectOutcomes, o)
            /\ IF o.exit = "ok" THEN Record(p, [want[p] EXCEPT !.size = o.disk.size])
               ELSE UNCHANGED tf
      BY <2>1 DEF CreateInspect
    <3>2. CASE o.exit = "ok"
      <4>1. o.disk = disk /\ disk # Gone /\ disk \in Disks
        BY <3>1, <3>2, InspectForms DEF TypeOK
      <4>2. pc[p] = "create_inspect"
        BY <2>1 DEF CreateInspect, At
      <4>3. want[p] \in Wishes
        BY <1>1, <4>2, Now, StepOp
      <4>4. [want[p] EXCEPT !.size = o.disk.size] \in Wishes
        BY <4>1, <4>3, DiskFields, SizedWish
      <4>5. Record(p, [want[p] EXCEPT !.size = o.disk.size])
        BY <3>1, <3>2
      <4> QED
        BY <4>4, <4>5, RecordForms
    <3>3. CASE o.exit # "ok"
      BY <3>1, <3>3 DEF TypeOK
    <3> QED
      BY <3>2, <3>3
  <2>2. CASE ~CreateInspect(p)
    <3>1. tf' = tf
      BY <2>2 DEF Command, CreateExists, CreateRun, ResizeInspect, ResizeRun,
                  DeleteInspect, DeleteRun
    <3> QED
      BY <3>1 DEF TypeOK
  <2> QED
    BY <2>1, <2>2
<1> QED
  BY <1>1, <1>2, <1>3 DEF TypeOK, Exists, LockTypeOK, ErrorKinds

-----------------------------------------------------------------------------
(* The rest of the handlers, and what happens beside them.                 *)

\* Where a call begins, and that it ends.
LEMMA FirstStepForms ==
  ASSUME NEW o \in Calls
  PROVE  /\ FirstStep(o) \in CallSteps(o) /\ FirstStep(o) \in Steps
         /\ FirstStep(o) \in {"create_exists", "resize_inspect", "delete_inspect"}
<1>1. CASE o = "create"
  BY <1>1 DEF FirstStep, CallSteps, Steps
<1>2. CASE o = "resize"
  BY <1>2 DEF FirstStep, CallSteps, Steps
<1>3. CASE o = "delete"
  BY <1>3 DEF FirstStep, CallSteps, Steps
<1> QED
  BY <1>1, <1>2, <1>3 DEF Calls

\* The program starts right.
LEMMA InitRight == Init => TypeOK /\ DiskInv
<1> SUFFICES ASSUME Init PROVE TypeOK /\ DiskInv
  OBVIOUS
<1>1. tf \in [Procs -> Wishes \cup {Gone}]
  <2>1. tf \in [Procs -> IF Exists THEN Recorded \cup {Gone} ELSE {Gone}]
    BY DEF Init
  <2>2. Exists => Recorded \subseteq Wishes
    BY FormattedWish DEF Init, Exists, Recorded
  <2> QED
    BY <2>1, <2>2
<1>2. /\ pc \in [Procs -> Steps] /\ pc = [p \in Procs |-> "idle"]
      /\ trouble \in 0..MaxTrouble
  BY DiskAssumption DEF Init, Steps
<1>3. TypeOK
  BY <1>1, <1>2 DEF Init, TypeOK, LockInit, LockTypeOK
<1> QED
  BY <1>2, <1>3 DEF DiskInv, Following, LockedSteps

\* Terraform reads, imports and changes its mind while no handler runs.
LEMMA IdleStep ==
  ASSUME TypeOK, DiskInv, NEW p \in Procs, Refresh(p) \/ ImportState(p) \/ ChangeWant(p)
  PROVE  TypeOK' /\ DiskInv'
<1>1. pc[p] = "idle" /\ UNCHANGED <<pc, late, err, before, disk, busy, holder>>
  BY DEF Refresh, ImportState, ChangeWant, At, lima
<1>2. /\ op' \in [Procs -> {"none", "read", "import", "create", "resize", "delete"}]
      /\ \A q \in Procs \ {p} : op'[q] = op[q]
  BY DEF Refresh, ImportState, ChangeWant, TypeOK
<1>3. /\ want' \in [Procs -> Wishes \cup {Gone}]
      /\ \A q \in Procs \ {p} : want'[q] = want[q]
  BY DEF Refresh, ImportState, ChangeWant, TypeOK
<1>4. trouble' \in 0..MaxTrouble
  BY DiskAssumption DEF Refresh, ImportState, ChangeWant, TypeOK, lima
<1>5. tf' \in [Procs -> Wishes \cup {Gone}]
  <2>1. CASE Refresh(p)
    <3> DEFINE s == IF Exists THEN [tf[p] EXCEPT !.size = disk.size] ELSE Gone
    <3>1. Record(p, s) /\ tf[p] \in Wishes
      BY <2>1 DEF Refresh, TypeOK
    <3>2. s \in Wishes \cup {Gone}
      BY <3>1, DiskFields, SizedWish DEF Exists, TypeOK
    <3> HIDE DEF s
    <3> QED
      BY <3>1, <3>2, RecordForms
  <2>2. CASE ImportState(p)
    <3> DEFINE s == [size |-> disk.size, format |-> NoFormat]
    <3>1. Record(p, s) /\ disk \in Disks
      BY <2>2 DEF ImportState, Exists, TypeOK
    <3>2. s \in Wishes
      BY <3>1, DiskFields DEF Wishes
    <3> HIDE DEF s
    <3> QED
      BY <3>1, <3>2, RecordForms
  <2>3. CASE ChangeWant(p)
    BY <2>3 DEF ChangeWant, TypeOK
  <2> QED
    BY <2>1, <2>2, <2>3
<1>6. TypeOK'
  BY <1>1, <1>2, <1>3, <1>4, <1>5 DEF TypeOK, Exists, LockTypeOK
<1>7. ASSUME NEW q \in Procs PROVE Following(q)'
  <2>1. CASE q = p
    BY <1>1, <2>1 DEF Following, LockedSteps
  <2>2. CASE q # p
    BY <1>1, <1>2, <1>3, <1>7, <2>2, OthersFollow DEF DiskInv
  <2> QED
    BY <2>1, <2>2
<1> QED
  BY <1>6, <1>7 DEF DiskInv

\* A handler is called.
LEMMA ApplyStep ==
  ASSUME TypeOK, DiskInv, NEW p \in Procs, Apply(p)
  PROVE  TypeOK' /\ DiskInv'
<1>1. pc[p] = "idle" /\ Plan(p) # "none" /\ UNCHANGED <<want, tf, before, lima, holder>>
  BY DEF Apply, At
<1>2. Plan(p) \in Calls /\ (Plan(p) # "delete" => want[p] # Gone)
  BY <1>1 DEF Plan, Calls
<1>3. /\ pc' \in [Procs -> Steps] /\ pc'[p] = "lock"
      /\ \A q \in Procs \ {p} : pc'[q] = pc[q]
  BY GotoForms DEF Apply, Steps
<1>4. /\ op' = [op EXCEPT ![p] = Plan(p)]
      /\ late' = [late EXCEPT ![p] = FALSE]
      /\ err' = [err EXCEPT ![p] = "ok"]
  BY DEF Apply
<1>5. /\ op' \in [Procs -> {"none", "read", "import", "create", "resize", "delete"}]
      /\ op'[p] = Plan(p) /\ \A q \in Procs \ {p} : op'[q] = op[q]
  BY <1>2, <1>4 DEF TypeOK, Calls
<1>6. /\ late' \in [Procs -> BOOLEAN] /\ err' \in [Procs -> ErrorKinds]
      /\ err'[p] = "ok"
      /\ \A q \in Procs \ {p} : late'[q] = late[q] /\ err'[q] = err[q]
  BY <1>4 DEF TypeOK, ErrorKinds
<1>7. TypeOK'
  BY <1>1, <1>3, <1>5, <1>6 DEF TypeOK, Exists, LockTypeOK, lima, ErrorKinds
<1>8. ASSUME NEW q \in Procs PROVE Following(q)'
  <2>1. CASE q = p
    BY <1>1, <1>2, <1>3, <1>5, <1>6, <2>1 DEF Following, LockedSteps
  <2>2. CASE q # p
    BY <1>1, <1>3, <1>5, <1>6, <1>8, <2>2, OthersFollow DEF DiskInv, lima
  <2> QED
    BY <2>1, <2>2
<1> QED
  BY <1>7, <1>8 DEF DiskInv

\* A call that keeps its contract in time keeps it out of time.
LEMMA KeptLate ==
  ASSUME NEW o \in Calls, NEW w, NEW was, NEW d, NEW e, NEW x, NEW y, ~x,
         Kept(o, w, was, d, e, x)
  PROVE  Kept(o, w, was, d, e, y)
<1>1. CASE o = "create"
  BY <1>1 DEF Kept
<1>2. CASE o = "delete"
  BY <1>2 DEF Kept
<1>3. CASE o = "resize"
  <2> DEFINE r == [was EXCEPT !.size = w.size]
             grows == was # Gone /\ was.size < w.size
             K(z) == CASE e = "ok"       -> was # Gone /\ d = r /\ was.size <= d.size
                       [] e = "inuse"    -> grows /\ d = was
                       [] e = "notfound" -> was = Gone /\ d = was
                       [] OTHER          -> d = was \/ (z /\ grows /\ d = r)
  <2>1. K(x)
    BY <1>3 DEF Kept
  <2>2. K(y) => Kept(o, w, was, d, e, y)
    BY <1>3 DEF Kept
  <2> HIDE DEF r, grows
  <2>3. K(y)
    BY <2>1
  <2> QED
    BY <2>2, <2>3
<1> QED
  BY <1>1, <1>2, <1>3 DEF Calls

\* Its context ends.
LEMMA ExpireStep ==
  ASSUME TypeOK, DiskInv, NEW p \in Procs, Expire(p)
  PROVE  TypeOK' /\ DiskInv'
<1>1. ~late[p] /\ UNCHANGED <<resources, pc, err, before, disk, busy, holder>>
  BY DEF Expire
<1>2. /\ late' \in [Procs -> BOOLEAN] /\ late'[p]
      /\ \A q \in Procs \ {p} : late'[q] = late[q]
      /\ trouble' \in 0..MaxTrouble
  BY DiskAssumption DEF Expire, TypeOK
<1>3. TypeOK'
  BY <1>1, <1>2 DEF TypeOK, Exists, LockTypeOK, resources
<1>4. ASSUME NEW q \in Procs PROVE Following(q)'
  <2>1. CASE q = p
    <3>1. ASSUME Local(pc[p], op[p], want[p], before[p], disk, err[p], late[p])
          PROVE  Local(pc[p], op[p], want[p], before[p], disk, err[p], late'[p])
      BY <1>1, <3>1, KeptLate DEF Local
    <3> QED
      BY <1>1, <2>1, <3>1 DEF DiskInv, Following, resources
  <2>2. CASE q # p
    BY <1>1, <1>2, <1>4, <2>2, OthersFollow DEF DiskInv, resources
  <2> QED
    BY <2>1, <2>2
<1> QED
  BY <1>3, <1>4 DEF DiskInv

\* It takes the disk's lock, or is told that it cannot.
LEMMA LockStep ==
  ASSUME TypeOK, DiskInv, NEW p \in Procs, Lock(p) \/ LockRefused(p)
  PROVE  TypeOK' /\ DiskInv'
<1>1. pc[p] = "lock" /\ op[p] \in Calls /\ (op[p] # "delete" => want[p] # Gone)
      /\ err[p] = "ok" /\ UNCHANGED <<resources, late, lima>>
  BY DEF Lock, LockRefused, At, DiskInv, Following
<1>2. ASSUME Lock(p) PROVE TypeOK' /\ DiskInv'
  <2>1. /\ pc' \in [Procs -> Steps] /\ pc'[p] = FirstStep(op[p])
        /\ \A q \in Procs \ {p} : pc'[q] = pc[q]
    BY <1>1, <1>2, FirstStepForms, GotoForms DEF Lock
  <2>2. /\ before' \in [Procs -> Disks \cup {Gone}] /\ before'[p] = disk
        /\ \A q \in Procs \ {p} : before'[q] = before[q]
    BY <1>2 DEF Lock, TypeOK
  <2>3. /\ holder[Disk] = NoProc /\ holder'[Disk] = p
        /\ holder' \in [Keys -> Procs \cup {NoProc}]
    BY <1>2, DiskAssumption DEF Lock, Acquire, TypeOK, LockTypeOK
  <2>4. TypeOK' /\ UNCHANGED err
    BY <1>1, <1>2, <2>1, <2>2, <2>3 DEF Lock, TypeOK, Exists, LockTypeOK, resources, lima
  <2>5. Following(p)'
    <3>1. Local(FirstStep(op[p]), op[p], want[p], disk, disk, err[p], late[p])
      BY <1>1, FirstStepForms DEF Local
    <3> QED
      BY <1>1, <2>1, <2>2, <2>3, <2>4, <3>1, FirstStepForms DEF Following, resources, lima
  <2>6. ASSUME NEW q \in Procs, q # p PROVE Following(q)'
    BY <1>1, <2>1, <2>2, <2>3, <2>4, <2>6, NoProcAssumption, OthersFollow
       DEF DiskInv, resources, lima
  <2> QED
    BY <2>4, <2>5, <2>6 DEF DiskInv
<1>3. ASSUME LockRefused(p) PROVE TypeOK' /\ DiskInv'
  <2>1. /\ pc' \in [Procs -> Steps] /\ pc'[p] = "idle"
        /\ \A q \in Procs \ {p} : pc'[q] = pc[q]
    BY <1>3, GotoForms DEF LockRefused, Steps
  <2>2. /\ err' \in [Procs -> ErrorKinds]
        /\ \A q \in Procs \ {p} : err'[q] = err[q]
    BY <1>3 DEF LockRefused, TypeOK, ErrorKinds
  <2>3. UNCHANGED <<before, holder>>
    BY <1>3 DEF LockRefused
  <2>4. TypeOK'
    BY <1>1, <2>1, <2>2, <2>3 DEF TypeOK, Exists, LockTypeOK, resources, lima, ErrorKinds
  <2>5. Following(p)'
    BY <2>1 DEF Following, LockedSteps
  <2>6. ASSUME NEW q \in Procs, q # p PROVE Following(q)'
    BY <1>1, <2>1, <2>2, <2>3, <2>6, OthersFollow DEF DiskInv, resources, lima
  <2> QED
    BY <2>4, <2>5, <2>6 DEF DiskInv
<1> QED
  BY <1>2, <1>3

\* It lets the lock go, its call done.
LEMMA UnlockStep ==
  ASSUME TypeOK, DiskInv, NEW p \in Procs, Unlock(p)
  PROVE  TypeOK' /\ DiskInv'
<1>1. pc[p] = "unlock" /\ pc[p] \in LockedSteps /\ UNCHANGED <<want, op, late, err, lima>>
  BY DEF Unlock, At, LockedSteps
<1>2. op[p] # "delete" => want[p] # Gone
  BY <1>1, Now DEF Local
<1> DEFINE l == IF op[p] = "resize" /\ err[p] = "ok" THEN "get" ELSE "idle"
<1>3. l \in {"get", "idle"} /\ (l = "get" => want[p] # Gone)
  BY <1>2
<1>4. Goto(p, l)
  BY DEF Unlock
<1> HIDE DEF l
<1>5. /\ pc' \in [Procs -> Steps] /\ pc'[p] = l
      /\ \A q \in Procs \ {p} : pc'[q] = pc[q]
  BY <1>3, <1>4, GotoForms DEF Steps
<1>6. /\ before' \in [Procs -> Disks \cup {Gone}]
      /\ \A q \in Procs \ {p} : before'[q] = before[q]
  BY DEF Unlock, TypeOK
<1>7. holder[Disk] = p /\ holder' \in [Keys -> Procs \cup {NoProc}]
  BY DEF Unlock, Release, Holds, TypeOK, LockTypeOK
<1>8. tf' \in [Procs -> Wishes \cup {Gone}]
  BY RecordForms DEF Unlock, TypeOK
<1>9. TypeOK'
  BY <1>1, <1>5, <1>6, <1>7, <1>8 DEF TypeOK, Exists, LockTypeOK, lima
<1>10. Following(p)'
  BY <1>1, <1>3, <1>5 DEF Following, LockedSteps
<1>11. ASSUME NEW q \in Procs, q # p PROVE Following(q)'
  BY <1>1, <1>5, <1>6, <1>7, <1>11, OthersFollow DEF DiskInv, lima
<1> QED
  BY <1>9, <1>10, <1>11 DEF DiskInv

\* A read ends an update.
LEMMA GetStep ==
  ASSUME TypeOK, DiskInv, NEW p \in Procs, Get(p)
  PROVE  TypeOK' /\ DiskInv'
<1>1. PICK o \in Results :
        /\ Ends(p, InspectOutcomes, o)
        /\ err' = [err EXCEPT ![p] = o.exit]
        /\ IF o.exit = "ok" THEN Record(p, [want[p] EXCEPT !.size = o.disk.size])
           ELSE UNCHANGED tf
  BY DEF Get
<1>2. pc[p] = "get" /\ UNCHANGED <<want, op, before, busy, holder>>
  BY DEF Get, At, Service
<1>3. want[p] \in Wishes
  BY <1>2 DEF DiskInv, Following, TypeOK
<1>4. /\ disk' = disk /\ o.disk = disk
      /\ o.exit = "ok" => disk # Gone
  BY <1>1, InspectForms
<1>5. /\ late' \in [Procs -> BOOLEAN] /\ trouble' \in 0..MaxTrouble
      /\ \A q \in Procs \ {p} : late'[q] = late[q]
  BY <1>1, EndsForms
<1>6. /\ pc' \in [Procs -> Steps] /\ pc'[p] = "idle"
      /\ \A q \in Procs \ {p} : pc'[q] = pc[q]
  BY GotoForms DEF Get, Steps
<1>7. /\ err' \in [Procs -> ErrorKinds]
      /\ \A q \in Procs \ {p} : err'[q] = err[q]
  BY <1>1 DEF TypeOK, ErrorKinds, Results
<1>8. tf' \in [Procs -> Wishes \cup {Gone}]
  <2>1. CASE o.exit = "ok"
    <3>1. disk \in Disks
      BY <1>4, <2>1 DEF TypeOK
    <3>2. [want[p] EXCEPT !.size = o.disk.size] \in Wishes
      BY <1>3, <1>4, <3>1, DiskFields, SizedWish
    <3> QED
      BY <1>1, <2>1, <3>2, RecordForms
  <2>2. CASE o.exit # "ok"
    BY <1>1, <2>2 DEF TypeOK
  <2> QED
    BY <2>1, <2>2
<1>9. TypeOK'
  BY <1>2, <1>4, <1>5, <1>6, <1>7, <1>8 DEF TypeOK, Exists, LockTypeOK, ErrorKinds
<1>10. Following(p)'
  BY <1>6 DEF Following, LockedSteps
<1>11. ASSUME NEW q \in Procs, q # p PROVE Following(q)'
  BY <1>2, <1>4, <1>5, <1>6, <1>7, <1>11, OthersFollow DEF DiskInv
<1> QED
  BY <1>9, <1>10, <1>11 DEF DiskInv

\* An instance takes the disk or lets it go; or nothing happens.
LEMMA BesideStep ==
  ASSUME TypeOK, DiskInv, Hold \/ LetGo \/ UNCHANGED vars
  PROVE  TypeOK' /\ DiskInv'
<1>1. UNCHANGED <<want, tf, op, pc, late, err, before, disk, holder>>
  BY DEF Hold, LetGo, vars, resources
<1>5. trouble' \in 0..MaxTrouble
  BY DiskAssumption DEF Hold, LetGo, vars, TypeOK
<1>2. busy' \in BOOLEAN /\ (busy' => disk # Gone)
  <2>1. CASE Hold
    BY <2>1 DEF Hold, Exists
  <2>2. CASE LetGo
    BY <2>2 DEF LetGo
  <2>3. CASE UNCHANGED vars
    BY <2>3 DEF vars, TypeOK, Exists
  <2> QED
    BY <2>1, <2>2, <2>3
<1>3. TypeOK'
  BY <1>1, <1>2, <1>5 DEF TypeOK, Exists, LockTypeOK
<1>4. ASSUME NEW q \in Procs PROVE Following(q)'
  BY <1>1, <1>4, OthersFollow DEF DiskInv
<1> QED
  BY <1>3, <1>4 DEF DiskInv

-----------------------------------------------------------------------------
(* The theorems.                                                           *)

\* Types and DiskInv are inductive together.
LEMMA DiskInvHolds == Spec => [](TypeOK /\ DiskInv)
<1>1. TypeOK /\ DiskInv /\ [Next]_vars => (TypeOK /\ DiskInv)'
  <2> SUFFICES ASSUME TypeOK, DiskInv, [Next]_vars PROVE TypeOK' /\ DiskInv'
    OBVIOUS
  <2>1. ASSUME NEW p \in Procs, Command(p) PROVE TypeOK' /\ DiskInv'
    BY <2>1, CommandTypeOK, CommandForms, CommandDiskInv
  <2>2. ASSUME NEW p \in Procs,
               \/ Refresh(p) \/ ImportState(p) \/ Apply(p) \/ Expire(p)
               \/ Lock(p) \/ Step(p) \/ ChangeWant(p)
        PROVE  TypeOK' /\ DiskInv'
    BY <2>1, <2>2, IdleStep, ApplyStep, ExpireStep, LockStep, UnlockStep, GetStep
       DEF Step, Command
  <2> QED
    BY <2>2, BesideStep DEF Next
<1> QED
  BY <1>1, InitRight, PTL DEF Spec

\* Every variable keeps its type; only a disk that exists is in use.
THEOREM TypeCorrect == Spec => []TypeOK
<1> QED
  BY DiskInvHolds, PTL

\* Every call of DiskService does what its result says, whatever the handlers of
\* other resources of the same disk and the instances it is attached to do
\* meanwhile (disk.go:223-304).
THEOREM DiskContractIsKept == Spec => []ContractKept
<1>1. DiskInv => ContractKept
  BY DEF DiskInv, Following, Local, LockedSteps, ContractKept, At
<1> QED
  BY <1>1, DiskInvHolds, PTL

=============================================================================
