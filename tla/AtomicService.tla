--------------------------- MODULE AtomicService ---------------------------
(***************************************************************************)
(* lima.Service as its callers may take it: whatever goroutines call, each *)
(* call takes effect at one instant between its beginning and its return,  *)
(* from the instance there is to one that the call's Contract allows       *)
(* together with the answer it then returns.  Lifecycle is shown to        *)
(* implement it; that no call sees half of another is what the locks are   *)
(* for (locks.go:11-18).                                                   *)
(***************************************************************************)
EXTENDS Contract

CONSTANTS Procs,   (* the goroutines that call                             *)
          Names,   (* instance names                                       *)
          Calls,   (* the calls they make                                  *)
          NoCall

VARIABLES
  vm,      (* the instances of the home                                    *)
  call,    (* the call of each goroutine                                   *)
  answer   (* what it returns, once it has taken effect: its error and     *)
           (* CreateResult.Registered                                      *)

vars == <<vm, call, answer>>

Answers == [err : Errors, registered : BOOLEAN]
NoAnswer == [err |-> "none", registered |-> FALSE]

Pending(p) == call[p] # NoCall /\ answer[p] = NoAnswer

Init ==
  /\ vm \in [Names -> VM]
  /\ call = [p \in Procs |-> NoCall]
  /\ answer = [p \in Procs |-> NoAnswer]

Begin(p, c) ==
  /\ call[p] = NoCall
  /\ call' = [call EXCEPT ![p] = c]
  /\ UNCHANGED <<vm, answer>>

\* The whole call, which answers a.
Perform(p) ==
  LET n == call[p].name
      a == answer'[p]
  IN /\ Pending(p)
     /\ answer' \in [Procs -> Answers \cup {NoAnswer}] /\ a # NoAnswer
     /\ vm' \in [Names -> VM]
     /\ \E late \in BOOLEAN : Promised(call[p], vm[n], vm'[n], a.err, a.registered, late)
     /\ \A m \in Names \ {n} : vm'[m] = vm[m]
     /\ \A q \in Procs \ {p} : answer'[q] = answer[q]
     /\ UNCHANGED call

\* Its context ended while it waited for its turn: it returns with nothing done.
Refuse(p) ==
  /\ Pending(p)
  /\ call' = [call EXCEPT ![p] = NoCall]
  /\ UNCHANGED <<vm, answer>>

Return(p) ==
  /\ answer[p] # NoAnswer
  /\ call' = [call EXCEPT ![p] = NoCall]
  /\ answer' = [answer EXCEPT ![p] = NoAnswer]
  /\ UNCHANGED vm

\* The file system catches up.
Settle(n) ==
  /\ vm' = [vm EXCEPT ![n] = Settled(@)]
  /\ UNCHANGED <<call, answer>>

Next ==
  \/ \E p \in Procs : (\E c \in Calls : Begin(p, c)) \/ Perform(p) \/ Refuse(p) \/ Return(p)
  \/ \E n \in Names : Settle(n)

AtomicSpec == Init /\ [][Next]_vars
=============================================================================
