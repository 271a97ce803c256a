------------------------------ MODULE KeyedMutex ------------------------------
(***************************************************************************)
(* lima.KeyedMutex (internal/lima/locks.go): one mutex per key, created on *)
(* first use and dropped when nobody refers to it any more.  An entry is   *)
(* a channel of capacity one that holds the lock's token, and a count of   *)
(* the calls that refer to the entry.  Each step below is one critical     *)
(* section of m.mu or one channel operation, the grain at which goroutines *)
(* interleave.                                                             *)
(*                                                                         *)
(* Entries are the addresses of entry structs.  A deleted entry whose      *)
(* address no goroutine still has is garbage and its address may be used   *)
(* again.                                                                  *)
(***************************************************************************)
EXTENDS Naturals, FiniteSets

CONSTANTS Procs,     (* goroutines, each in at most one call of Lock        *)
          Keys,      (* lock keys                                           *)
          Entries,   (* addresses of entry structs                          *)
          NoProc, NoEntry

ASSUME ProcsAssumption == IsFiniteSet(Procs) /\ NoProc \notin Procs
ASSUME EntriesAssumption == NoEntry \notin Entries

VARIABLES
  locks,   (* locks[k]: the entry the map m.locks has for k, or NoEntry     *)
  token,   (* token[e]: the channel of entry e holds its token              *)
  refs,    (* refs[e]: the reference count of entry e                       *)
  pc,      (* where each goroutine is in Lock and its unlock function       *)
  key,     (* key[p]: the key of p's call                                   *)
  ent,     (* ent[p]: the entry the closures of p's call captured           *)
  ctxDone  (* ctxDone[p]: the context of p's call is done                   *)

vars == <<locks, token, refs, pc, key, ent, ctxDone>>

-----------------------------------------------------------------------------

Waiting(p)  == pc[p] = "wait"       (* in the select statement              *)
Holding(p)  == pc[p] = "held"       (* received the token, not given back   *)

\* A call refers to its entry from the increment of refs to the decrement.
Refers(p)   == pc[p] \in {"wait", "held", "returned"}
Referrers(e) == {p \in Procs : Refers(p) /\ ent[p] = e}

Mapped(e) == \E k \in Keys : locks[k] = e

Fresh == {e \in Entries : ~Mapped(e) /\ \A p \in Procs : ent[p] # e}

Init ==
  /\ locks = [k \in Keys |-> NoEntry]
  /\ token = [e \in Entries |-> FALSE]
  /\ refs = [e \in Entries |-> 0]
  /\ pc = [p \in Procs |-> "idle"]
  /\ key \in [Procs -> Keys]
  /\ ent = [p \in Procs |-> NoEntry]
  /\ ctxDone = [p \in Procs |-> FALSE]

-----------------------------------------------------------------------------

\* A caller calls Lock(ctx, k); its context may be done already.
Call(p, k) ==
  /\ pc[p] = "idle"
  /\ pc' = [pc EXCEPT ![p] = "enter"]
  /\ key' = [key EXCEPT ![p] = k]
  /\ \E d \in BOOLEAN : ctxDone' = [ctxDone EXCEPT ![p] = d]
  /\ UNCHANGED <<locks, token, refs, ent>>

\* The caller's context is cancelled or its deadline passes.
CtxDone(p) ==
  /\ pc[p] # "idle" /\ ~ctxDone[p]
  /\ ctxDone' = [ctxDone EXCEPT ![p] = TRUE]
  /\ UNCHANGED <<locks, token, refs, pc, key, ent>>

\* The early return: a done context takes no reference.
Refuse(p) ==
  /\ pc[p] = "enter" /\ ctxDone[p]
  /\ pc' = [pc EXCEPT ![p] = "idle"]
  /\ UNCHANGED <<locks, token, refs, key, ent, ctxDone>>

\* Mutant: the count is set when the entry is created and not incremented after.
JoinUncounted(p) ==
  LET e == locks[key[p]] IN
  /\ pc[p] = "enter" /\ ~ctxDone[p]
  /\ e # NoEntry
  /\ ent' = [ent EXCEPT ![p] = e]
  /\ pc' = [pc EXCEPT ![p] = "wait"]
  /\ UNCHANGED <<locks, token, refs, key, ctxDone>>

\* The lookup under m.mu when the key has an entry.
Join(p) ==
  LET e == locks[key[p]] IN
  /\ pc[p] = "enter" /\ ~ctxDone[p]
  /\ e # NoEntry
  /\ refs' = [refs EXCEPT ![e] = @ + 1]
  /\ ent' = [ent EXCEPT ![p] = e]
  /\ pc' = [pc EXCEPT ![p] = "wait"]
  /\ UNCHANGED <<locks, token, key, ctxDone>>

\* The lookup under m.mu when it has none: a new entry, its token in place.
Create(p, e) ==
  /\ pc[p] = "enter" /\ ~ctxDone[p]
  /\ locks[key[p]] = NoEntry
  /\ e \in Fresh
  /\ locks' = [locks EXCEPT ![key[p]] = e]
  /\ token' = [token EXCEPT ![e] = TRUE]
  /\ refs' = [refs EXCEPT ![e] = 1]
  /\ ent' = [ent EXCEPT ![p] = e]
  /\ pc' = [pc EXCEPT ![p] = "wait"]
  /\ UNCHANGED <<key, ctxDone>>

\* The select statement receives the token: the lock is acquired.
Acquire(p) ==
  /\ Waiting(p) /\ token[ent[p]]
  /\ token' = [token EXCEPT ![ent[p]] = FALSE]
  /\ pc' = [pc EXCEPT ![p] = "held"]
  /\ UNCHANGED <<locks, refs, key, ent, ctxDone>>

\* Mutant: whoever leaves deletes the entry, others referring to it or not.
DropRefUncounted(p) ==
  LET e == ent[p] IN
  /\ refs' = [refs EXCEPT ![e] = @ - 1]
  /\ locks' = [locks EXCEPT ![key[p]] = NoEntry]
  /\ ent' = [ent EXCEPT ![p] = NoEntry]
  /\ pc' = [pc EXCEPT ![p] = "idle"]

\* The release closure, run under m.mu.
DropRef(p) ==
  LET e == ent[p] IN
  /\ refs' = [refs EXCEPT ![e] = @ - 1]
  /\ locks' = IF refs[e] = 1 THEN [locks EXCEPT ![key[p]] = NoEntry] ELSE locks
  /\ ent' = [ent EXCEPT ![p] = NoEntry]
  /\ pc' = [pc EXCEPT ![p] = "idle"]

\* Mutant: the cancelled branch returns without its release().
AbandonUnreleased(p) ==
  /\ Waiting(p) /\ ctxDone[p]
  /\ pc' = [pc EXCEPT ![p] = "idle"]
  /\ ent' = [ent EXCEPT ![p] = NoEntry]
  /\ UNCHANGED <<locks, token, refs, key, ctxDone>>

\* Mutant: the cancelled branch runs the unlock function.
AbandonUnlocking(p) ==
  /\ Waiting(p) /\ ctxDone[p]
  /\ DropRef(p)
  /\ token' = [token EXCEPT ![ent[p]] = TRUE]
  /\ UNCHANGED <<key, ctxDone>>

\* The select statement takes the context's branch instead.
Abandon(p) ==
  /\ Waiting(p) /\ ctxDone[p]
  /\ DropRef(p)
  /\ UNCHANGED <<token, key, ctxDone>>

\* Mutant: the token goes back only when nobody else refers to the entry.
ReturnTokenIfAlone(p) ==
  /\ Holding(p) /\ ~token[ent[p]]
  /\ token' = [token EXCEPT ![ent[p]] = (refs[ent[p]] = 1)]
  /\ pc' = [pc EXCEPT ![p] = "returned"]
  /\ UNCHANGED <<locks, refs, key, ent, ctxDone>>

\* Unlock, first half: the token goes back.  The send would block on a full
\* channel.
ReturnToken(p) ==
  /\ Holding(p) /\ ~token[ent[p]]
  /\ token' = [token EXCEPT ![ent[p]] = TRUE]
  /\ pc' = [pc EXCEPT ![p] = "returned"]
  /\ UNCHANGED <<locks, refs, key, ent, ctxDone>>

\* Unlock, second half: the reference is dropped.
Unlocked(p) ==
  /\ pc[p] = "returned"
  /\ DropRef(p)
  /\ UNCHANGED <<token, key, ctxDone>>

Step(p) ==
  \/ Refuse(p)
  \/ Join(p)
  \/ \E e \in Entries : Create(p, e)
  \/ Abandon(p)
  \/ ReturnToken(p)
  \/ Unlocked(p)

Next == \E p \in Procs :
  \/ \E k \in Keys : Call(p, k)
  \/ CtxDone(p)
  \/ Acquire(p)
  \/ Step(p)

Spec == Init /\ [][Next]_vars

(***************************************************************************)
(* Goroutines run (weak fairness), and callers unlock what they locked.    *)
(* The runtime hands a sent token to the goroutine that has waited longest *)
(* on the channel, so a waiter is not passed over for ever: strong         *)
(* fairness of Acquire.  Nothing makes a caller call or a context expire.  *)
(***************************************************************************)
FairSpec == /\ Spec
            /\ \A p \in Procs : WF_vars(Step(p)) /\ SF_vars(Acquire(p))

-----------------------------------------------------------------------------

TypeOK ==
  /\ locks \in [Keys -> Entries \cup {NoEntry}]
  /\ token \in [Entries -> BOOLEAN]
  /\ refs \in [Entries -> Nat]
  /\ pc \in [Procs -> {"idle", "enter", "wait", "held", "returned"}]
  /\ key \in [Procs -> Keys]
  /\ ent \in [Procs -> Entries \cup {NoEntry}]
  /\ ctxDone \in [Procs -> BOOLEAN]

\* No two goroutines are between Lock and unlock of one key (locks.go:11-17),
\* whatever entries were deleted and created again under them.
MutualExclusion ==
  \A p, q \in Procs :
    Holding(p) /\ Holding(q) /\ key[p] = key[q] => p = q

\* Whoever waits for or holds the lock of a key does so on the entry the map
\* has for that key: release() never deletes an entry somebody still refers
\* to, which would send the next caller to a second, free, entry.
LiveEntry ==
  \A p \in Procs : Refers(p) => ent[p] = locks[key[p]]

\* An entry's token is in its channel or with exactly one holder, never lost
\* and never doubled: the send in unlock always finds the channel empty.
TokenConserved ==
  \A e \in Entries : Mapped(e) =>
    LET holders == {p \in Referrers(e) : Holding(p)} IN
    IF token[e] THEN holders = {} ELSE \E p \in Procs : holders = {p}

\* An entry is in the map only while some call refers to it, so the map does
\* not grow with the keys ever locked (locks.go:75-78), cancelled calls
\* included.
NoLeak ==
  \A k \in Keys : locks[k] # NoEntry =>
    \E p \in Procs : Refers(p) /\ key[p] = k

\* The lock table this implements: a key is held by the goroutine that has its
\* token, from the receive in Lock to the send in unlock.
holder ==
  [k \in Keys |->
    IF \E p \in Procs : Holding(p) /\ key[p] = k
    THEN CHOOSE p \in Procs : Holding(p) /\ key[p] = k
    ELSE NoProc]

Lock == INSTANCE KeyedLock WITH Procs <- Procs, Keys <- Keys, NoProc <- NoProc,
                               holder <- holder

\* KeyedMutex implements an exclusive lock per key.
ImplementsKeyedLock == Lock!LockSpec

\* A call that waits gets the lock or leaves with its context's error, as long
\* as holders unlock: no wake-up is lost, with any mix of cancelled waiters.
WaiterServed ==
  \A p \in Procs : Waiting(p) ~> ~Waiting(p)

=============================================================================
