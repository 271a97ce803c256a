------------------------------ MODULE Contract ------------------------------
(***************************************************************************)
(* What a call of lima.Service (internal/lima/lifecycle.go) promises, from *)
(* the instance v its call finds to the instance w it leaves, the error e  *)
(* it returns, for a create CreateResult.Registered, and whether its       *)
(* context is done by then (late).  Lifecycle is checked to keep it, step  *)
(* by step and with other calls between; InstanceResource builds on it.    *)
(*                                                                         *)
(* The calls are those of Lifecycle.  Inspections are taken to tell the    *)
(* truth, and nobody else to change the instance meanwhile.                *)
(***************************************************************************)
EXTENDS LimaHome

\* The classes of errors the provider tells apart, "ok" for nil.
Errors == {"ok", "failed", "exists", "notfound", "protected", "broken", "restart",
           "timeout"}

\* Nothing was done, except that the file system may have caught up.
Untouched(v, w) == w \in {v, Settled(v)}

\* The same instance, in whatever run state.
SameButStatus(v, w) ==
  Usable(v) /\ Usable(w) /\ w.config = v.config /\ w.protected = v.protected

\* limactl stop is refused unless the instance runs.
Stoppable(v) == v.status \in {"creating", "stopped", "running"}

\* What a start or stop of v may leave it in.
RunStates(v, want) ==
  {v.status, Settled(v).status}
    \cup (IF ~want THEN {"stopped"} ELSE IF Running(v) THEN {} ELSE {"running", "broken"})

RunStatus(want) == IF want THEN "running" ELSE "stopped"

\* What a failed create may leave; protection comes last and only a context
\* that ends stops a create after it.
Leftover(c, w, e) ==
  /\ Usable(w) /\ w.config = c.config
  /\ w.protected => c.protect /\ e = "timeout" /\ w.status = RunStatus(c.start)

CreatePromise(c, v, w, e, registered, late) ==
  \/ /\ e = "ok" /\ registered /\ ~Usable(v)
     /\ w = [status |-> RunStatus(c.start), protected |-> c.protect, config |-> c.config]
  \/ e = "exists" /\ ~registered /\ Listed(v) /\ Untouched(v, w)
  \/ /\ e \in {"failed", "broken", "timeout"} /\ registered
     /\ ~Usable(v) /\ Leftover(c, w, e)
  \/ /\ e \in {"failed", "timeout"} /\ ~registered
     /\ \/ Untouched(v, w)
        \/ late /\ ~Usable(v) /\ Leftover(c, w, e) /\ ~w.protected

\* EnsureRunning, EnsureStopped.
RunPromise(c, v, w, e, late) ==
  \/ /\ e = "ok" /\ SameButStatus(v, w) /\ w.status = RunStatus(c.want)
     /\ c.want \/ Stoppable(v)
  \/ e = "notfound" /\ ~Usable(v) /\ Untouched(v, w)
  \/ /\ e \in {"failed", "broken", "timeout"}
     /\ (SameButStatus(v, w) /\ w.status \in RunStates(v, c.want)) \/ Untouched(v, w)
     /\ c.want /\ e # "timeout" /\ ~late => ~Running(w)

ResizePromise(c, v, w, e, late) ==
  \/ v.config = c.config /\ RunPromise(c, v, w, e, late)
  \/ /\ v.config # c.config
     /\ LET edited == Usable(v) /\ Usable(w) /\ w.protected = v.protected
                        /\ w.config = c.config
        IN \/ e = "ok" /\ edited /\ (Running(w) <=> c.want)
           \/ e = "notfound" /\ ~Usable(v) /\ Untouched(v, w)
           \/ e = "restart" /\ c.want /\ edited /\ (Running(w) => late)
           \/ /\ e \in {"failed", "timeout"}
              /\ (SameButStatus(v, w) /\ w.status \in RunStates(v, FALSE)) \/ Untouched(v, w)
           \/ e = "timeout" /\ late /\ edited /\ ~Running(w)

ProtectPromise(c, v, w, e, late) ==
  LET done == Usable(v) /\ w \in {[x EXCEPT !.protected = c.want] : x \in {v, Settled(v)}} IN
  \/ e = "ok" /\ (done \/ (v.protected = c.want /\ Listed(v) /\ Untouched(v, w)))
  \/ e = "notfound" /\ ~Usable(v) /\ Untouched(v, w)
  \/ e \in {"failed", "timeout"} /\ Untouched(v, w)
  \/ e = "timeout" /\ late /\ done

DeletePromise(c, v, w, e, late) ==
  \/ e = "ok" /\ ~v.protected /\ ~Listed(w)
  \/ e = "protected" /\ v.protected /\ Untouched(v, w)
  \/ e \in {"failed", "timeout"} /\ Untouched(v, w)
  \/ e = "timeout" /\ late /\ ~v.protected /\ ~Usable(w)

-----------------------------------------------------------------------------

Promised(c, v, w, e, registered, late) ==
  /\ e = "timeout" => late
  /\ registered => c.op = "create"
  /\ CASE c.op = "create"  -> CreatePromise(c, v, w, e, registered, late)
       [] c.op = "run"     -> RunPromise(c, v, w, e, late)
       [] c.op = "resize"  -> ResizePromise(c, v, w, e, late)
       [] c.op = "protect" -> ProtectPromise(c, v, w, e, late)
       [] c.op = "delete"  -> DeletePromise(c, v, w, e, late)

=============================================================================
