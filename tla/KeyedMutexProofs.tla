-------------------------- MODULE KeyedMutexProofs --------------------------
(***************************************************************************)
(* Proofs about KeyedMutex, for any finite set of goroutines and any keys. *)
(* The inductive invariant IInv adds to the properties what the reference  *)
(* counts stand for: refs of a mapped entry is the number of calls that    *)
(* use its key, so DropRef deletes an entry exactly when its last user     *)
(* leaves.                                                                 *)
(***************************************************************************)
EXTENDS KeyedMutex, FiniteSetTheorems, TLAPS

\* The calls that use key k's lock, counted or not.
Users(k) == {p \in Procs : Refers(p) /\ key[p] = k}

\* A call's entry is the one the map has for its key; a call that refers to
\* none has none.
EntInv ==
  \A p \in Procs :
    /\ Refers(p) => ent[p] = locks[key[p]] /\ ent[p] \in Entries
    /\ ~Refers(p) => ent[p] = NoEntry

\* No two keys share an entry.
DistinctInv ==
  \A k, l \in Keys : locks[k] = locks[l] /\ locks[k] # NoEntry => k = l

\* The count of a mapped entry is the number of its key's users, and is not 0.
CountInv ==
  \A k \in Keys : locks[k] # NoEntry =>
    /\ refs[locks[k]] = Cardinality(Users(k))
    /\ Users(k) # {}

\* The token of a mapped entry is in the channel or with a holder.
TokenInv ==
  \A k \in Keys : locks[k] # NoEntry =>
    IF token[locks[k]] THEN \A p \in Procs : Holding(p) => key[p] # k
                       ELSE \E p \in Procs : Holding(p) /\ key[p] = k

IInv == TypeOK /\ EntInv /\ DistinctInv /\ CountInv /\ TokenInv /\ MutualExclusion

-----------------------------------------------------------------------------

\* The users of a key are finitely many: Procs is.
LEMMA UsersFinite ==
  ASSUME NEW k \in Keys
  PROVE  IsFiniteSet(Users(k)) /\ Cardinality(Users(k)) \in Nat
<1>1. Users(k) \in SUBSET Procs
  BY DEF Users
<1> QED
  BY <1>1, FS_Subset, FS_CardinalityType, ProcsAssumption

\* A step that changes neither who refers to what nor the map and the counts
\* leaves the users of every key, EntInv, DistinctInv and CountInv as they were.
LEMMA SameUsers ==
  ASSUME IInv, UNCHANGED <<locks, refs, ent>>,
         \A p \in Procs : /\ Refers(p)' <=> Refers(p)
                          /\ Refers(p) => key'[p] = key[p]
  PROVE  /\ \A k \in Keys : Users(k)' = Users(k)
         /\ EntInv' /\ DistinctInv' /\ CountInv'
<1>1. ASSUME NEW k \in Keys PROVE Users(k)' = Users(k)
  BY DEF Users
<1>2. EntInv'
  BY DEF IInv, EntInv
<1>3. DistinctInv'
  BY DEF IInv, DistinctInv
<1>4. CountInv'
  BY <1>1 DEF IInv, CountInv
<1> QED
  BY <1>1, <1>2, <1>3, <1>4

-----------------------------------------------------------------------------

LEMMA InitIInv == Init => IInv
<1> SUFFICES ASSUME Init PROVE IInv
  OBVIOUS
<1>1. TypeOK
  BY DEF Init, TypeOK
<1>2. \A p \in Procs : ~Refers(p) /\ ~Holding(p)
  BY DEF Init, Refers, Holding
<1>3. \A k \in Keys : locks[k] = NoEntry
  BY DEF Init
<1>4. EntInv
  BY <1>2 DEF EntInv, Init
<1> QED
  BY <1>1, <1>2, <1>3, <1>4
  DEF IInv, DistinctInv, CountInv, TokenInv, MutualExclusion

\* Steps outside the entry: a call begins, is refused, or its context expires.
LEMMA OutsideSteps ==
  ASSUME IInv, NEW p \in Procs,
         (\E k \in Keys : Call(p, k)) \/ CtxDone(p) \/ Refuse(p)
  PROVE  IInv'
<1>1. TypeOK'
  BY DEF IInv, TypeOK, Call, CtxDone, Refuse
<1>2. /\ UNCHANGED <<locks, refs, ent, token>>
      /\ \A q \in Procs : /\ Refers(q)' <=> Refers(q)
                          /\ Refers(q) => key'[q] = key[q]
                          /\ Holding(q)' <=> Holding(q)
                          /\ Holding(q) => key'[q] = key[q]
  BY DEF IInv, TypeOK, Call, CtxDone, Refuse, Refers, Holding
<1>3. EntInv' /\ DistinctInv' /\ CountInv'
  BY <1>2, SameUsers
<1>4. TokenInv'
  BY <1>2 DEF IInv, TokenInv
<1>5. MutualExclusion'
  BY <1>2 DEF IInv, MutualExclusion
<1> QED
  BY <1>1, <1>3, <1>4, <1>5 DEF IInv

\* The token moves between the channel and the call that takes or returns it.
LEMMA TokenSteps ==
  ASSUME IInv, NEW p \in Procs, Acquire(p) \/ ReturnToken(p)
  PROVE  IInv'
<1> DEFINE k == key[p]
<1>1. TypeOK'
  BY DEF IInv, TypeOK, Acquire, ReturnToken
<1>2. /\ UNCHANGED <<locks, refs, ent, key>>
      /\ \A q \in Procs : Refers(q)' <=> Refers(q)
  BY DEF IInv, TypeOK, Acquire, ReturnToken, Refers, Waiting, Holding
<1>3. EntInv' /\ DistinctInv' /\ CountInv'
  BY <1>2, SameUsers
<1>4. /\ k \in Keys
      /\ ent[p] = locks[k]
      /\ locks[k] \in Entries /\ locks[k] # NoEntry
  BY EntriesAssumption
  DEF IInv, TypeOK, EntInv, Acquire, ReturnToken, Refers, Waiting, Holding
<1>5. \A l \in Keys : l # k /\ locks[l] # NoEntry => token'[locks[l]] = token[locks[l]]
  BY <1>4 DEF IInv, TypeOK, DistinctInv, Acquire, ReturnToken
<1>6. \A q \in Procs : q # p => (Holding(q)' <=> Holding(q))
  BY DEF IInv, TypeOK, Acquire, ReturnToken, Holding
<1>7. TokenInv' /\ MutualExclusion'
  <2>1. CASE Acquire(p)
    <3>1. /\ Holding(p)' /\ ~Holding(p)
          /\ token[locks[k]] /\ ~token'[locks[k]]
      BY <1>4, <2>1 DEF IInv, TypeOK, Acquire, Holding, Waiting
    <3>2. \A q \in Procs : Holding(q) => key[q] # k
      BY <1>4, <3>1 DEF IInv, TokenInv
    <3>3. MutualExclusion'
      BY <1>2, <1>6, <3>1, <3>2 DEF IInv, MutualExclusion
    <3>4. TokenInv'
      <4> SUFFICES ASSUME NEW l \in Keys, locks'[l] # NoEntry
                   PROVE  IF token'[locks'[l]]
                          THEN \A q \in Procs : Holding(q)' => key'[q] # l
                          ELSE \E q \in Procs : Holding(q)' /\ key'[q] = l
        BY DEF TokenInv
      <4>1. CASE l = k
        BY <1>2, <3>1, <4>1
      <4>2. CASE l # k
        BY <1>2, <1>5, <1>6, <3>1, <4>2 DEF IInv, TokenInv
      <4> QED
        BY <4>1, <4>2
    <3> QED
      BY <3>3, <3>4
  <2>2. CASE ReturnToken(p)
    <3>1. /\ ~Holding(p)' /\ Holding(p)
          /\ token'[locks[k]]
      BY <1>4, <2>2 DEF IInv, TypeOK, ReturnToken, Holding
    <3>2. \A q \in Procs : q # p /\ Holding(q) => key[q] # k
      BY <3>1 DEF IInv, MutualExclusion
    <3>3. MutualExclusion'
      BY <1>2, <1>6, <3>1 DEF IInv, MutualExclusion
    <3>4. TokenInv'
      <4> SUFFICES ASSUME NEW l \in Keys, locks'[l] # NoEntry
                   PROVE  IF token'[locks'[l]]
                          THEN \A q \in Procs : Holding(q)' => key'[q] # l
                          ELSE \E q \in Procs : Holding(q)' /\ key'[q] = l
        BY DEF TokenInv
      <4>1. CASE l = k
        BY <1>2, <1>6, <3>1, <3>2, <4>1
      <4>2. CASE l # k
        BY <1>2, <1>5, <1>6, <3>1, <4>2 DEF IInv, TokenInv
      <4> QED
        BY <4>1, <4>2
    <3> QED
      BY <3>3, <3>4
  <2> QED
    BY <2>1, <2>2
<1> QED
  BY <1>1, <1>3, <1>7 DEF IInv

\* A call joins the entry its key has: one more user, counted.
LEMMA JoinStep ==
  ASSUME IInv, NEW p \in Procs, Join(p)
  PROVE  IInv'
<1> DEFINE k == key[p]
<1>1. /\ k \in Keys /\ locks[k] \in Entries /\ locks[k] # NoEntry
      /\ ~Refers(p) /\ Refers(p)' /\ ~Holding(p) /\ ~Holding(p)'
      /\ UNCHANGED <<locks, token, key>>
      /\ ent' = [ent EXCEPT ![p] = locks[k]]
      /\ refs' = [refs EXCEPT ![locks[k]] = @ + 1]
      /\ \A q \in Procs : q # p => /\ Refers(q)' <=> Refers(q)
                                   /\ Holding(q)' <=> Holding(q)
  BY DEF IInv, TypeOK, Join, Refers, Holding
<1>2. TypeOK'
  BY <1>1 DEF IInv, TypeOK, Join
<1>3. EntInv'
  BY <1>1 DEF IInv, EntInv, TypeOK
<1>4. DistinctInv'
  BY <1>1 DEF IInv, DistinctInv
<1>5. Users(k)' = Users(k) \cup {p} /\ p \notin Users(k)
  BY <1>1 DEF Users
<1>6. ASSUME NEW l \in Keys, l # k PROVE Users(l)' = Users(l)
  BY <1>1, <1>6 DEF Users
<1>7. CountInv'
  <2> SUFFICES ASSUME NEW l \in Keys, locks'[l] # NoEntry
               PROVE  /\ refs'[locks'[l]] = Cardinality(Users(l)')
                      /\ Users(l)' # {}
    BY DEF CountInv
  <2>1. CASE l = k
    <3>1. Cardinality(Users(k)') = Cardinality(Users(k)) + 1
      BY <1>1, <1>5, UsersFinite, FS_AddElement
    <3> QED
      BY <1>1, <1>5, <2>1, <3>1 DEF IInv, TypeOK, CountInv
  <2>2. CASE l # k
    <3>1. locks[l] # locks[k]
      BY <1>1, <2>2 DEF IInv, DistinctInv
    <3> QED
      BY <1>1, <1>6, <2>2, <3>1 DEF IInv, TypeOK, CountInv
  <2> QED
    BY <2>1, <2>2
<1>8. TokenInv' /\ MutualExclusion'
  BY <1>1 DEF IInv, TokenInv, MutualExclusion
<1> QED
  BY <1>2, <1>3, <1>4, <1>7, <1>8 DEF IInv

\* A call creates the entry of its key: no call used the key, for a user's
\* entry would be mapped, and no other key has the fresh entry.
LEMMA CreateStep ==
  ASSUME IInv, NEW p \in Procs, NEW e \in Entries, Create(p, e)
  PROVE  IInv'
<1> DEFINE k == key[p]
<1>1. /\ k \in Keys /\ locks[k] = NoEntry /\ e # NoEntry
      /\ ~Refers(p) /\ Refers(p)' /\ ~Holding(p) /\ ~Holding(p)'
      /\ UNCHANGED key
      /\ locks' = [locks EXCEPT ![k] = e]
      /\ token' = [token EXCEPT ![e] = TRUE]
      /\ refs' = [refs EXCEPT ![e] = 1]
      /\ ent' = [ent EXCEPT ![p] = e]
      /\ \A q \in Procs : q # p => /\ Refers(q)' <=> Refers(q)
                                   /\ Holding(q)' <=> Holding(q)
  BY EntriesAssumption DEF IInv, TypeOK, Create, Refers, Holding
<1>2. /\ \A l \in Keys : locks[l] # e
      /\ \A q \in Procs : ent[q] # e
  BY DEF Create, Fresh, Mapped
<1>3. TypeOK'
  BY <1>1 DEF IInv, TypeOK, Create
<1>4. \A q \in Procs : Refers(q) => key[q] # k
  BY <1>1, EntriesAssumption DEF IInv, EntInv
<1>5. EntInv'
  BY <1>1, <1>4 DEF IInv, EntInv, TypeOK
<1>6. DistinctInv'
  BY <1>1, <1>2 DEF IInv, DistinctInv, TypeOK
<1>7. Users(k)' = {p}
  BY <1>1, <1>4 DEF Users
<1>8. ASSUME NEW l \in Keys, l # k PROVE Users(l)' = Users(l)
  BY <1>1, <1>8 DEF Users
<1>9. CountInv'
  <2> SUFFICES ASSUME NEW l \in Keys, locks'[l] # NoEntry
               PROVE  /\ refs'[locks'[l]] = Cardinality(Users(l)')
                      /\ Users(l)' # {}
    BY DEF CountInv
  <2>1. CASE l = k
    BY <1>1, <1>7, <2>1, FS_Singleton DEF IInv, TypeOK
  <2>2. CASE l # k
    BY <1>1, <1>2, <1>8, <2>2 DEF IInv, TypeOK, CountInv
  <2> QED
    BY <2>1, <2>2
<1>10. \A q \in Procs : Holding(q) => key[q] # k
  BY <1>4 DEF Holding, Refers
<1>11. TokenInv'
  <2> SUFFICES ASSUME NEW l \in Keys, locks'[l] # NoEntry
               PROVE  IF token'[locks'[l]]
                      THEN \A q \in Procs : Holding(q)' => key'[q] # l
                      ELSE \E q \in Procs : Holding(q)' /\ key'[q] = l
    BY DEF TokenInv
  <2>1. CASE l = k
    BY <1>1, <1>10, <2>1 DEF IInv, TypeOK
  <2>2. CASE l # k
    <3>1. locks'[l] = locks[l] /\ locks[l] # e /\ token'[locks[l]] = token[locks[l]]
      BY <1>1, <1>2, <2>2 DEF IInv, TypeOK
    <3> QED
      BY <1>1, <2>2, <3>1 DEF IInv, TokenInv
  <2> QED
    BY <2>1, <2>2
<1>12. MutualExclusion'
  BY <1>1 DEF IInv, MutualExclusion
<1> QED
  BY <1>3, <1>5, <1>6, <1>9, <1>11, <1>12 DEF IInv

\* A call gives up its reference without holding the token; the entry goes
\* with its last user.
LEMMA DropRefStep ==
  ASSUME IInv, NEW p \in Procs, Refers(p), ~Holding(p), DropRef(p),
         UNCHANGED <<token, key, ctxDone>>
  PROVE  IInv'
<1> DEFINE k == key[p]
           e == locks[k]
<1>1. /\ k \in Keys /\ e \in Entries /\ e # NoEntry /\ ent[p] = e
      /\ p \in Users(k)
  BY EntriesAssumption DEF IInv, TypeOK, EntInv, Users
<1>2. /\ refs' = [refs EXCEPT ![e] = @ - 1]
      /\ locks' = IF refs[e] = 1 THEN [locks EXCEPT ![k] = NoEntry] ELSE locks
      /\ ent' = [ent EXCEPT ![p] = NoEntry]
      /\ pc' = [pc EXCEPT ![p] = "idle"]
  BY <1>1 DEF DropRef
<1>3. /\ ~Refers(p)' /\ ~Holding(p)'
      /\ \A q \in Procs : q # p => /\ Refers(q)' <=> Refers(q)
                                   /\ Holding(q)' <=> Holding(q)
  BY <1>2 DEF IInv, TypeOK, Refers, Holding
<1>4. Users(k)' = Users(k) \ {p}
  BY <1>3 DEF Users
<1>5. ASSUME NEW l \in Keys, l # k PROVE Users(l)' = Users(l)
  BY <1>3, <1>5 DEF Users
<1>6. /\ refs[e] = Cardinality(Users(k)) /\ refs[e] \in Nat /\ refs[e] # 0
      /\ Cardinality(Users(k)') = refs[e] - 1
      /\ IsFiniteSet(Users(k)')
  <2>1. refs[e] = Cardinality(Users(k)) /\ refs[e] \in Nat
    BY <1>1 DEF IInv, TypeOK, CountInv
  <2>2. IsFiniteSet(Users(k))
    BY <1>1, UsersFinite
  <2>3. refs[e] # 0
    BY <1>1, <2>1, <2>2, FS_EmptySet
  <2>4. /\ Cardinality(Users(k) \ {p}) = Cardinality(Users(k)) - 1
        /\ IsFiniteSet(Users(k) \ {p})
    BY <1>1, <2>2, FS_RemoveElement
  <2> QED
    BY <1>4, <2>1, <2>3, <2>4
<1>7. refs[e] = 1 <=> Users(k)' = {}
  BY <1>6, FS_EmptySet
<1>8. \A l \in Keys : l # k => locks'[l] = locks[l] /\ (locks[l] # NoEntry => locks[l] # e)
  BY <1>1, <1>2 DEF IInv, TypeOK, DistinctInv
<1>9. locks'[k] = IF refs[e] = 1 THEN NoEntry ELSE e
  BY <1>1, <1>2 DEF IInv, TypeOK
<1>10. TypeOK'
  <2>1. refs[e] - 1 \in Nat
    BY <1>6
  <2> QED
    BY <1>2, <2>1 DEF IInv, TypeOK
<1>11. EntInv'
  <2> SUFFICES ASSUME NEW q \in Procs
               PROVE  /\ Refers(q)' => ent'[q] = locks'[key'[q]] /\ ent'[q] \in Entries
                      /\ ~Refers(q)' => ent'[q] = NoEntry
    BY DEF EntInv
  <2>1. CASE q = p
    BY <1>2, <1>3, <2>1 DEF IInv, TypeOK
  <2>2. CASE q # p
    <3>1. ent'[q] = ent[q] /\ key'[q] = key[q] /\ key[q] \in Keys
      BY <1>2, <2>2 DEF IInv, TypeOK
    <3>2. ASSUME Refers(q), key[q] = k PROVE refs[e] # 1
      BY <1>3, <1>7, <2>2, <3>2 DEF Users
    <3> QED
      BY <1>3, <1>8, <1>9, <2>2, <3>1, <3>2 DEF IInv, EntInv
  <2> QED
    BY <2>1, <2>2
<1>12. DistinctInv'
  BY <1>8, <1>9 DEF IInv, DistinctInv
<1>13. CountInv'
  <2> SUFFICES ASSUME NEW l \in Keys, locks'[l] # NoEntry
               PROVE  /\ refs'[locks'[l]] = Cardinality(Users(l)')
                      /\ Users(l)' # {}
    BY DEF CountInv
  <2>1. CASE l = k
    BY <1>1, <1>2, <1>6, <1>7, <1>9, <2>1 DEF IInv, TypeOK
  <2>2. CASE l # k
    BY <1>2, <1>5, <1>8, <2>2 DEF IInv, TypeOK, CountInv
  <2> QED
    BY <2>1, <2>2
<1>14. TokenInv'
  <2> SUFFICES ASSUME NEW l \in Keys, locks'[l] # NoEntry
               PROVE  IF token'[locks'[l]]
                      THEN \A q \in Procs : Holding(q)' => key'[q] # l
                      ELSE \E q \in Procs : Holding(q)' /\ key'[q] = l
    BY DEF TokenInv
  <2>1. locks'[l] = locks[l]
    BY <1>8, <1>9
  <2> QED
    BY <1>3, <2>1 DEF IInv, TokenInv
<1>15. MutualExclusion'
  BY <1>3 DEF IInv, MutualExclusion
<1> QED
  BY <1>10, <1>11, <1>12, <1>13, <1>14, <1>15 DEF IInv

LEMMA NextIInv == IInv /\ [Next]_vars => IInv'
<1> SUFFICES ASSUME IInv, [Next]_vars PROVE IInv'
  OBVIOUS
<1>1. ASSUME NEW p \in Procs, NEW k \in Keys, Call(p, k) PROVE IInv'
  BY <1>1, OutsideSteps
<1>2. ASSUME NEW p \in Procs, CtxDone(p) \/ Refuse(p) PROVE IInv'
  BY <1>2, OutsideSteps
<1>3. ASSUME NEW p \in Procs, Acquire(p) \/ ReturnToken(p) PROVE IInv'
  BY <1>3, TokenSteps
<1>4. ASSUME NEW p \in Procs, Join(p) PROVE IInv'
  BY <1>4, JoinStep
<1>5. ASSUME NEW p \in Procs, NEW e \in Entries, Create(p, e) PROVE IInv'
  BY <1>5, CreateStep
<1>6. ASSUME NEW p \in Procs, Abandon(p) \/ Unlocked(p) PROVE IInv'
  <2>1. /\ Refers(p) /\ ~Holding(p) /\ DropRef(p)
        /\ UNCHANGED <<token, key, ctxDone>>
    BY <1>6 DEF Abandon, Unlocked, Waiting, Refers, Holding
  <2> QED
    BY <2>1, DropRefStep
<1>7. CASE UNCHANGED vars
  BY <1>7 DEF vars, IInv, TypeOK, EntInv, DistinctInv, CountInv, TokenInv,
              MutualExclusion, Users, Refers, Holding
<1> QED
  BY <1>1, <1>2, <1>3, <1>4, <1>5, <1>6, <1>7 DEF Next, Step

-----------------------------------------------------------------------------

LEMMA SpecIInv == Spec => []IInv
  BY InitIInv, NextIInv, PTL DEF Spec

\* Every step keeps each variable in its type; in particular no reference
\* count goes below zero (locks.go:75).
THEOREM TypeCorrect == Spec => []TypeOK
<1>1. IInv => TypeOK
  BY DEF IInv
<1> QED
  BY <1>1, SpecIInv, PTL

\* At most one goroutine is between Lock and unlock of a key (locks.go:53-96).
THEOREM MutualExclusionHolds == Spec => []MutualExclusion
<1>1. IInv => MutualExclusion
  BY DEF IInv
<1> QED
  BY <1>1, SpecIInv, PTL

\* Nobody waits for or holds a lock on an entry that release() deleted.
THEOREM LiveEntryHolds == Spec => []LiveEntry
<1>1. IInv => LiveEntry
  BY DEF IInv, EntInv, LiveEntry
<1> QED
  BY <1>1, SpecIInv, PTL

\* The map holds an entry for a key only while a call uses it.
THEOREM NoLeakHolds == Spec => []NoLeak
<1>1. IInv => NoLeak
  BY DEF IInv, CountInv, NoLeak, Users
<1> QED
  BY <1>1, SpecIInv, PTL

\* A mapped entry's token is in the channel or with exactly one holder.
THEOREM TokenConservedHolds == Spec => []TokenConserved
<1>1. IInv => TokenConserved
  <2> SUFFICES ASSUME IInv, NEW e \in Entries, NEW k \in Keys, locks[k] = e
               PROVE  IF token[e]
                      THEN {p \in Referrers(e) : Holding(p)} = {}
                      ELSE \E p \in Procs : {q \in Referrers(e) : Holding(q)} = {p}
    BY DEF TokenConserved, Mapped
  <2>1. e # NoEntry
    BY EntriesAssumption
  <2>2. \A p \in Procs : Holding(p) => Refers(p)
    BY DEF Holding, Refers
  <2>3. \A p \in Procs : p \in Referrers(e) <=> Refers(p) /\ key[p] = k
    BY <2>1 DEF IInv, TypeOK, EntInv, DistinctInv, Referrers
  <2>4. CASE token[e]
    BY <2>1, <2>3, <2>4 DEF IInv, TokenInv, Referrers
  <2>5. CASE ~token[e]
    <3>1. PICK p \in Procs : Holding(p) /\ key[p] = k
      BY <2>1, <2>5 DEF IInv, TokenInv
    <3>2. {q \in Referrers(e) : Holding(q)} = {p}
      BY <2>2, <2>3, <3>1 DEF IInv, MutualExclusion, Referrers
    <3> QED
      BY <2>5, <3>2
  <2> QED
    BY <2>4, <2>5
<1> QED
  BY <1>1, SpecIInv, PTL

-----------------------------------------------------------------------------

\* While MutualExclusion holds, the abstract holder of a key is whoever has
\* its token.
LEMMA HolderIs ==
  ASSUME MutualExclusion, NEW p \in Procs, NEW k \in Keys, Holding(p), key[p] = k
  PROVE  holder[k] = p
  BY DEF holder, MutualExclusion

LEMMA HolderNone ==
  ASSUME NEW k \in Keys, \A p \in Procs : ~(Holding(p) /\ key[p] = k)
  PROVE  holder[k] = NoProc
  BY DEF holder

\* A step that changes neither who holds what nor the keys does not change the
\* abstract lock table.
LEMMA HolderSame ==
  ASSUME \A p \in Procs : /\ Holding(p)' <=> Holding(p)
                          /\ Holding(p) => key'[p] = key[p]
  PROVE  holder' = holder
<1>1. ASSUME NEW k \in Keys
      PROVE  \A p \in Procs : (Holding(p)' /\ key'[p] = k) <=> (Holding(p) /\ key[p] = k)
  OBVIOUS
<1>2. ASSUME NEW k \in Keys
      PROVE  holder'[k] = holder[k]
  BY <1>1 DEF holder
<1> QED
  BY <1>2 DEF holder

\* A receive from an entry's channel is an Acquire of the key's abstract lock,
\* and the send in unlock its Release.
LEMMA TokenStepsRefine ==
  ASSUME IInv, IInv', NEW p \in Procs
  PROVE  /\ Acquire(p) => Lock!Acquire(p, key[p])
         /\ ReturnToken(p) => Lock!Release(p, key[p])
<1> DEFINE k == key[p]
<1>1. ASSUME Acquire(p) PROVE Lock!Acquire(p, k)
  <2>1. /\ k \in Keys /\ UNCHANGED key /\ Holding(p)' /\ ~Holding(p)
        /\ \A q \in Procs : q # p => (Holding(q)' <=> Holding(q))
    BY <1>1 DEF IInv, TypeOK, Acquire, Holding, Waiting
  <2>2. \A q \in Procs : ~(Holding(q) /\ key[q] = k)
    BY <2>1 DEF IInv, MutualExclusion
  <2>3. holder[k] = NoProc
    BY <2>1, <2>2, HolderNone
  <2>4. holder' = [holder EXCEPT ![k] = p]
    <3>1. ASSUME NEW l \in Keys, l # k PROVE holder'[l] = holder[l]
      <4>1. \A q \in Procs : (Holding(q)' /\ key'[q] = l) <=> (Holding(q) /\ key[q] = l)
        BY <2>1, <3>1
      <4> QED
        BY <4>1 DEF holder
    <3>2. holder'[k] = p
      BY <2>1 DEF holder, IInv, MutualExclusion
    <3> QED
      BY <2>1, <3>1, <3>2 DEF holder
  <2> QED
    BY <2>3, <2>4 DEF Lock!Acquire
<1>2. ASSUME ReturnToken(p) PROVE Lock!Release(p, k)
  <2>1. /\ k \in Keys /\ UNCHANGED key /\ ~Holding(p)' /\ Holding(p)
        /\ \A q \in Procs : q # p => (Holding(q)' <=> Holding(q))
    BY <1>2 DEF IInv, TypeOK, ReturnToken, Holding
  <2>2. holder[k] = p
    BY <2>1, HolderIs DEF IInv
  <2>3. \A q \in Procs : ~(Holding(q)' /\ key'[q] = k)
    BY <2>1 DEF IInv, MutualExclusion
  <2>4. holder' = [holder EXCEPT ![k] = NoProc]
    <3>1. ASSUME NEW l \in Keys, l # k PROVE holder'[l] = holder[l]
      <4>1. \A q \in Procs : (Holding(q)' /\ key'[q] = l) <=> (Holding(q) /\ key[q] = l)
        BY <2>1, <3>1
      <4> QED
        BY <4>1 DEF holder
    <3>2. holder'[k] = NoProc
      BY <2>1, <2>3 DEF holder
    <3>3. /\ holder = [l \in Keys |-> holder[l]]
          /\ holder' = [l \in Keys |-> holder'[l]]
      BY DEF holder
    <3> HIDE DEF k
    <3> QED
      BY <2>1, <3>1, <3>2, <3>3
  <2> QED
    BY <2>2, <2>4 DEF Lock!Release, Lock!Holds
<1> QED
  BY <1>1, <1>2

\* KeyedMutex (locks.go) implements a table of exclusive locks, one per key.
THEOREM Refinement == Spec => ImplementsKeyedLock
<1>1. Init => Lock!LockInit
  <2> SUFFICES ASSUME Init PROVE Lock!LockInit
    OBVIOUS
  <2>1. \A p \in Procs : ~Holding(p)
    BY DEF Init, Holding
  <2> QED
    BY <2>1 DEF Lock!LockInit, holder
<1>2. IInv /\ IInv' /\ [Next]_vars => [Lock!LockNext]_holder
  <2> SUFFICES ASSUME IInv, IInv', [Next]_vars PROVE [Lock!LockNext]_holder
    OBVIOUS
  <2>1. ASSUME NEW p \in Procs, Acquire(p) \/ ReturnToken(p)
        PROVE  Lock!LockNext
    <3>1. key[p] \in Keys
      BY DEF IInv, TypeOK
    <3> QED
      BY <2>1, <3>1, TokenStepsRefine DEF Lock!LockNext
  <2>2. ASSUME NEW p \in Procs,
               \/ \E k \in Keys : Call(p, k)
               \/ CtxDone(p) \/ Refuse(p) \/ Join(p)
               \/ \E e \in Entries : Create(p, e)
               \/ Abandon(p) \/ Unlocked(p)
        PROVE  holder' = holder
    <3>1. ASSUME NEW k \in Keys, Call(p, k) PROVE holder' = holder
      <4>1. \A q \in Procs : /\ Holding(q)' <=> Holding(q)
                             /\ Holding(q) => key'[q] = key[q]
        BY <3>1 DEF IInv, TypeOK, Call, Holding
      <4> QED
        BY <4>1, HolderSame
    <3>2. CASE CtxDone(p) \/ Refuse(p) \/ Join(p) \/ \E e \in Entries : Create(p, e)
      <4>1. \A q \in Procs : (Holding(q)' <=> Holding(q)) /\ key'[q] = key[q]
        BY <3>2 DEF IInv, TypeOK, CtxDone, Refuse, Join, Create, Holding
      <4> QED
        BY <4>1, HolderSame
    <3>3. CASE Abandon(p) \/ Unlocked(p)
      <4>1. \A q \in Procs : (Holding(q)' <=> Holding(q)) /\ key'[q] = key[q]
        BY <3>3 DEF IInv, TypeOK, Abandon, Unlocked, DropRef, Waiting, Holding
      <4> QED
        BY <4>1, HolderSame
    <3> QED
      BY <2>2, <3>1, <3>2, <3>3
  <2>3. CASE UNCHANGED vars
    <3>1. \A q \in Procs : (Holding(q)' <=> Holding(q)) /\ key'[q] = key[q]
      BY <2>3 DEF vars, Holding
    <3> QED
      BY <3>1, HolderSame
  <2> QED
    BY <2>1, <2>2, <2>3 DEF Next, Step
<1>3. QED
  BY <1>1, <1>2, SpecIInv, PTL DEF Spec, ImplementsKeyedLock, Lock!LockSpec
=============================================================================
