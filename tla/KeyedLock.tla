------------------------------ MODULE KeyedLock ------------------------------
(***************************************************************************)
(* What lima.KeyedMutex promises its callers (locks.go): a table of        *)
(* exclusive locks, one per key, free or held by one process.  KeyedMutex  *)
(* is shown to implement it; Lifecycle and the modules above take their    *)
(* locks from here.                                                        *)
(***************************************************************************)

CONSTANTS Procs,    (* the goroutines that take locks                  *)
          Keys,     (* InstanceKey(..), DiskKey(..) and HomeKey()      *)
          NoProc    (* the holder of a free lock                       *)

ASSUME NoProcAssumption == NoProc \notin Procs

VARIABLE holder     (* holder[k]: who holds the lock of key k          *)

LockTypeOK == holder \in [Keys -> Procs \cup {NoProc}]

LockInit == holder = [k \in Keys |-> NoProc]

Holds(p, k) == holder[k] = p

Acquire(p, k) ==
  /\ holder[k] = NoProc
  /\ holder' = [holder EXCEPT ![k] = p]

Release(p, k) ==
  /\ Holds(p, k)
  /\ holder' = [holder EXCEPT ![k] = NoProc]

LockNext == \E p \in Procs, k \in Keys : Acquire(p, k) \/ Release(p, k)

LockSpec == LockInit /\ [][LockNext]_holder
=============================================================================
