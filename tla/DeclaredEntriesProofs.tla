------------------------ MODULE DeclaredEntriesProofs ------------------------
(***************************************************************************)
(* Proofs about DeclaredEntries, for lists of any length, any identities   *)
(* and any change made outside Terraform.                                  *)
(*                                                                         *)
(* The properties of one update rest on what Picked does: it keeps the     *)
(* entries at some positions in their order (PickedFacts), so two lists    *)
(* whose positions correspond in order have the same ones picked           *)
(* (SamePicked).  The properties of a settled list rest on PrefixInv: Lima *)
(* has the declared entries first, in the order they are declared.         *)
(***************************************************************************)
EXTENDS DeclaredEntries, FiniteSetTheorems, TLAPS

Lined(want, have) ==
  /\ Len(want) <= Len(have)
  /\ \A i \in DOMAIN want : SameEntry(want[i], have[i])

TypeInv ==
  /\ kind \in Kinds
  /\ state \in Seq(Entries) \cup {Unmanaged}
  /\ resolved \in Seq(Views)
  /\ settled \in BOOLEAN

PrefixInv == settled /\ Managed => Lined(state, resolved)

IInv == TypeInv /\ PrefixInv

-----------------------------------------------------------------------------
(* Positions and what is picked at them.                                   *)

\* Positions have different ranks, from one to how many they are.
LEMMA RankFacts ==
  ASSUME NEW P \in SUBSET Int, IsFiniteSet(P)
  PROVE  /\ Cardinality(P) \in Nat
         /\ \A j \in P : Rank(P, j) \in 1..Cardinality(P)
         /\ \A i, j \in P : i < j => Rank(P, i) < Rank(P, j)
<1> DEFINE Up(j) == {k \in P : k <= j}
<1>1. \A j : IsFiniteSet(Up(j)) /\ Cardinality(Up(j)) <= Cardinality(P)
  BY FS_Subset
<1>2. Cardinality(P) \in Nat /\ \A j : Cardinality(Up(j)) \in Nat
  BY <1>1, FS_CardinalityType
<1>3. ASSUME NEW j \in P
      PROVE  Rank(P, j) \in 1..Cardinality(P)
  <2>1. Up(j) # {}
    OBVIOUS
  <2>2. Cardinality(Up(j)) # 0
    BY <1>1, <2>1, FS_EmptySet
  <2> QED
    BY <1>1, <1>2, <2>2 DEF Rank
<1>4. ASSUME NEW i \in P, NEW j \in P, i < j
      PROVE  Rank(P, i) < Rank(P, j)
  <2>1. i \in Int /\ j \in Int /\ \A k \in P : k \in Int
    OBVIOUS
  <2>2. Up(i) \subseteq Up(j) /\ j \in Up(j) /\ j \notin Up(i)
    <3>1. \A k \in P : k <= i => k <= j
      BY <1>4, <2>1
    <3>2. j <= j /\ ~(j <= i)
      BY <1>4, <2>1
    <3> QED
      BY <3>1, <3>2
  <2>3. /\ Cardinality(Up(i)) <= Cardinality(Up(j))
        /\ Cardinality(Up(i)) # Cardinality(Up(j))
    BY <1>1, <2>2, FS_Subset
  <2> QED
    BY <1>2, <2>3 DEF Rank
<1> QED
  BY <1>2, <1>3, <1>4

\* Two positions of one rank are the same.
LEMMA RankInjective ==
  ASSUME NEW P \in SUBSET Int, IsFiniteSet(P), NEW i \in P, NEW j \in P,
         Rank(P, i) = Rank(P, j)
  PROVE  i = j
<1>1. ~(i < j) /\ ~(j < i)
  BY RankFacts
<1> QED
  BY <1>1

\* There is a position of every rank.
LEMMA RankOnto ==
  ASSUME NEW P \in SUBSET Int, IsFiniteSet(P), NEW n \in 1..Cardinality(P)
  PROVE  \E j \in P : Rank(P, j) = n
<1> DEFINE c == Cardinality(P)
           f == [j \in P |-> Rank(P, j)]
<1>1. c \in Nat /\ f \in [P -> 1..c]
  BY RankFacts
<1>2. IsFiniteSet(1..c) /\ Cardinality(1..c) = c
  BY <1>1, FS_Interval
<1>3. \A i, j \in P : f[i] = f[j] => i = j
  BY RankInjective
<1>4. f \in Injection(P, 1..c)
  BY <1>1, <1>3 DEF Injection, IsInjective
<1>5. f \in Surjection(P, 1..c)
  BY <1>2, <1>4, FS_Injection
<1> QED
  BY <1>5 DEF Surjection

\* In a stretch of positions the rank counts from its beginning.
LEMMA StretchRank ==
  ASSUME NEW n \in Nat, NEW l \in Nat, n <= l
  PROVE  /\ Cardinality(n + 1..l) = l - n
         /\ \A k \in n + 1..l : Rank(n + 1..l, k) = k - n
<1>1. ASSUME NEW k \in Int, n <= k
      PROVE  Cardinality(n + 1..k) = k - n
  <2>1. Cardinality(n + 1..k) = IF n + 1 > k THEN 0 ELSE k - (n + 1) + 1
    BY FS_Interval
  <2> QED
    BY <1>1, <2>1
<1>2. ASSUME NEW k \in n + 1..l
      PROVE  Rank(n + 1..l, k) = k - n
  <2>1. {j \in n + 1..l : j <= k} = n + 1..k
    OBVIOUS
  <2>2. k \in Int /\ n <= k
    OBVIOUS
  <2> QED
    BY <1>1, <2>1, <2>2 DEF Rank
<1> QED
  BY <1>1, <1>2

\* What is picked, by rank.
LEMMA PickedFacts ==
  ASSUME NEW P \in SUBSET Int, IsFiniteSet(P), NEW list
  PROVE  /\ DOMAIN Picked(list, P) = 1..Cardinality(P)
         /\ \A j \in P : Picked(list, P)[Rank(P, j)] = list[j]
         /\ \A n \in 1..Cardinality(P) :
              \E j \in P : Rank(P, j) = n /\ Picked(list, P)[n] = list[j]
<1>1. ASSUME NEW j \in P
      PROVE  Picked(list, P)[Rank(P, j)] = list[j]
  <2>1. Rank(P, j) \in 1..Cardinality(P)
    BY RankFacts
  <2> DEFINE i == CHOOSE i \in P : Rank(P, i) = Rank(P, j)
  <2>2. i \in P /\ Rank(P, i) = Rank(P, j)
    OBVIOUS
  <2>3. i = j
    BY <2>2, RankInjective
  <2> QED
    BY <2>1, <2>3 DEF Picked
<1>2. DOMAIN Picked(list, P) = 1..Cardinality(P)
  BY DEF Picked
<1> QED
  BY <1>1, <1>2, RankOnto

\* Positions of a sequence.
LEMMA Positions ==
  ASSUME NEW S, NEW list \in Seq(S), NEW P \in SUBSET DOMAIN list
  PROVE  P \in SUBSET Int /\ IsFiniteSet(P) /\ Cardinality(P) \in Nat
<1>1. DOMAIN list = 1..Len(list) /\ Len(list) \in Nat
  OBVIOUS
<1>2. IsFiniteSet(DOMAIN list) /\ DOMAIN list \subseteq Int
  BY <1>1, FS_Interval
<1> QED
  BY <1>2, FS_Subset, FS_CardinalityType

\* What is picked of a sequence is one.
LEMMA PickedSeq ==
  ASSUME NEW S, NEW list \in Seq(S), NEW P \in SUBSET DOMAIN list
  PROVE  Picked(list, P) \in Seq(S) /\ Len(Picked(list, P)) = Cardinality(P)
<1>1. P \in SUBSET Int /\ IsFiniteSet(P) /\ Cardinality(P) \in Nat
  BY Positions
<1>2. \A n \in 1..Cardinality(P) : Picked(list, P)[n] \in S
  BY <1>1, PickedFacts
<1>3. Picked(list, P) = [n \in 1..Cardinality(P) |-> Picked(list, P)[n]]
  BY DEF Picked
<1> QED
  BY <1>1, <1>2, <1>3

\* One sequence behind another.
LEMMA Behind ==
  ASSUME NEW S, NEW s \in Seq(S), NEW t \in Seq(S)
  PROVE  /\ s \o t \in Seq(S) /\ Len(s \o t) = Len(s) + Len(t)
         /\ \A i \in 1..Len(s) : (s \o t)[i] = s[i]
         /\ \A i \in Len(s) + 1..Len(s \o t) : (s \o t)[i] = t[i - Len(s)]
OBVIOUS

\* Corresponding positions keep their ranks.
LEMMA SameRank ==
  ASSUME NEW P \in SUBSET Int, IsFiniteSet(P), NEW Q \in SUBSET Int,
         NEW f \in [P -> Q], \A q \in Q : \E j \in P : f[j] = q,
         \A i, j \in P : i < j => f[i] < f[j],
         NEW j \in P
  PROVE  Rank(Q, f[j]) = Rank(P, j)
<1> DEFINE A == {k \in P : k <= j}
           B == {k \in Q : k <= f[j]}
           g == [k \in A |-> f[k]]
<1>1. \A k \in P : k <= j <=> f[k] <= f[j]
  <2> TAKE k \in P
  <2>1. f[k] \in Int /\ f[j] \in Int /\ k \in Int /\ j \in Int
    OBVIOUS
  <2>2. (k < j => f[k] < f[j]) /\ (j < k => f[j] < f[k])
    OBVIOUS
  <2> QED
    BY <2>1, <2>2
<1>2. g \in [A -> B]
  BY <1>1
<1>3. \A i, k \in A : g[i] = g[k] => i = k
  <2> TAKE i, k \in A
  <2>1. f[k] \in Int /\ f[i] \in Int /\ k \in Int /\ i \in Int
    OBVIOUS
  <2>2. (k < i => f[k] < f[i]) /\ (i < k => f[i] < f[k])
    OBVIOUS
  <2> QED
    BY <2>1, <2>2
<1>4. \A q \in B : \E k \in A : g[k] = q
  BY <1>1
<1>5. g \in Bijection(A, B)
  BY <1>2, <1>3, <1>4 DEF Bijection, Injection, Surjection, IsInjective
<1>6. IsFiniteSet(A)
  BY FS_Subset
<1>7. Cardinality(B) = Cardinality(A)
  BY <1>5, <1>6, FS_Bijection DEF ExistsBijection
<1> QED
  BY <1>7 DEF Rank

\* Lists whose positions correspond, in order, have the same entries picked.
LEMMA SamePicked ==
  ASSUME NEW P \in SUBSET Int, IsFiniteSet(P), NEW Q \in SUBSET Int,
         NEW f \in [P -> Q], \A q \in Q : \E j \in P : f[j] = q,
         \A i, j \in P : i < j => f[i] < f[j],
         NEW list, NEW other, \A j \in P : other[f[j]] = list[j]
  PROVE  Picked(other, Q) = Picked(list, P)
<1>1. \A i, k \in P : f[i] = f[k] => i = k
  <2> TAKE i, k \in P
  <2>1. f[k] \in Int /\ f[i] \in Int /\ k \in Int /\ i \in Int
    OBVIOUS
  <2>2. (k < i => f[k] < f[i]) /\ (i < k => f[i] < f[k])
    OBVIOUS
  <2> QED
    BY <2>1, <2>2
<1>2. f \in Bijection(P, Q)
  BY <1>1 DEF Bijection, Injection, Surjection, IsInjective
<1>3. IsFiniteSet(Q) /\ Cardinality(Q) = Cardinality(P)
  BY <1>2, FS_Bijection DEF ExistsBijection
<1>4. \A j \in P : Rank(Q, f[j]) = Rank(P, j)
  BY SameRank
<1>5. ASSUME NEW n \in 1..Cardinality(P)
      PROVE  Picked(other, Q)[n] = Picked(list, P)[n]
  <2>1. PICK j \in P : Rank(P, j) = n /\ Picked(list, P)[n] = list[j]
    BY PickedFacts
  <2>2. f[j] \in Q /\ Rank(Q, f[j]) = n
    BY <1>4, <2>1
  <2>3. Picked(other, Q)[n] = other[f[j]]
    <3>1. \A q \in Q : Picked(other, Q)[Rank(Q, q)] = other[q]
      BY <1>3, PickedFacts
    <3> QED
      BY <2>2, <3>1
  <2> QED
    BY <2>1, <2>3
<1> QED
  BY <1>3, <1>5 DEF Picked

-----------------------------------------------------------------------------
(* Entries and lists of them.                                              *)

\* One list behind another has the identities of both.
LEMMA IdsBehind ==
  ASSUME NEW S, NEW s \in Seq(S), NEW t \in Seq(S)
  PROVE  s \o t \in Seq(S) /\ Ids(s \o t) = Ids(s) \cup Ids(t)
<1> DEFINE u == s \o t
<1>1. /\ u \in Seq(S) /\ Len(u) = Len(s) + Len(t)
      /\ \A i \in 1..Len(s) : u[i] = s[i]
      /\ \A i \in Len(s) + 1..Len(u) : u[i] = t[i - Len(s)]
  BY Behind
<1> HIDE DEF u
<1>2. /\ Len(s) \in Nat /\ Len(t) \in Nat /\ DOMAIN s = 1..Len(s) /\ DOMAIN t = 1..Len(t)
      /\ DOMAIN u = 1..Len(u)
  BY <1>1
<1>3. ASSUME NEW i \in DOMAIN u
      PROVE  u[i].id \in Ids(s) \cup Ids(t)
  <2>1. i \in 1..Len(s) \/ (i \in Len(s) + 1..Len(u) /\ i - Len(s) \in 1..Len(t))
    BY <1>1, <1>2
  <2> QED
    BY <1>1, <1>2, <2>1 DEF Ids
<1>4. ASSUME NEW i \in DOMAIN s
      PROVE  s[i].id \in Ids(u)
  <2>1. i \in DOMAIN u /\ u[i] = s[i]
    BY <1>1, <1>2
  <2> QED
    BY <2>1 DEF Ids
<1>5. ASSUME NEW i \in DOMAIN t
      PROVE  t[i].id \in Ids(u)
  <2>1. /\ Len(s) + i \in Len(s) + 1..Len(u) /\ Len(s) + i \in DOMAIN u
        /\ Len(s) + i - Len(s) = i
    BY <1>1, <1>2
  <2>2. u[Len(s) + i] = t[i]
    BY <1>1, <2>1
  <2> QED
    BY <2>1, <2>2 DEF Ids
<1>6. Ids(u) = Ids(s) \cup Ids(t)
  BY <1>3, <1>4, <1>5 DEF Ids
<1> QED
  BY <1>1, <1>6 DEF u

\* Lima fills what an entry leaves open, and nothing else.
LEMMA FilledEntry ==
  ASSUME NEW e \in Entries
  PROVE  /\ Filled(e) \in Views
         /\ Filled(e).id = e.id /\ Filled(e).flag = e.flag
         /\ e.opt # Unset => Filled(e).opt = e.opt
         /\ e \in Views => Filled(e) = e
<1> DEFINE o == IF e.opt = Unset THEN Chosen ELSE e.opt
           a == IF e.ip = Unset THEN Chosen ELSE e.ip
           r == [e EXCEPT !.opt = o, !.ip = a]
<1>1. Filled(e) = r
  BY DEF Filled
<1>2. o \in Values /\ o # Unset /\ a \in Values /\ a # Unset
  BY ListsAssumption DEF Entries
<1>3. (e.opt # Unset => o = e.opt) /\ (e \in Views => o = e.opt /\ a = e.ip)
  BY DEF Views
<1> HIDE DEF o, a
<1>4. /\ r \in Entries
      /\ r.id = e.id /\ r.flag = e.flag /\ r.opt = o /\ r.ip = a
      /\ o = e.opt /\ a = e.ip => r = e
  BY <1>2 DEF Entries
<1>5. r \in Views
  BY <1>2, <1>4 DEF Views
<1> HIDE DEF r
<1> QED
  BY <1>1, <1>3, <1>4, <1>5

\* So a list keeps its length and its identities.
LEMMA FilledSeq ==
  ASSUME NEW list \in Seq(Entries)
  PROVE  /\ FilledList(list) \in Seq(Views)
         /\ Len(FilledList(list)) = Len(list)
         /\ \A i \in 1..Len(list) : FilledList(list)[i] = Filled(list[i])
<1>1. \A i \in 1..Len(list) : list[i] \in Entries
  OBVIOUS
<1>2. FilledList(list) = [i \in 1..Len(list) |-> Filled(list[i])]
  BY DEF FilledList
<1>3. \A i \in 1..Len(list) : Filled(list[i]) \in Views
  BY <1>1, FilledEntry
<1> QED
  BY <1>2, <1>3

\* What Lima has may be configured as well.
LEMMA ViewsEntries == Views \subseteq Entries /\ Seq(Views) \subseteq Seq(Entries)
<1>1. Views \subseteq Entries
  BY DEF Views
<1> QED
  BY <1>1

\* An entry is the same as itself, and as itself once it is filled.
LEMMA SameFilled ==
  ASSUME NEW e \in Entries, NEW v \in Entries
  PROVE  /\ SameEntry(e, e)
         /\ SameEntry(e, Filled(e))
         /\ SameEntry(e, v) => v.id = e.id
BY FilledEntry DEF SameEntry

\* The entries of an identity that a list does not have.
LEMMA CountNone ==
  ASSUME NEW list, NEW i, i \notin Ids(list)
  PROVE  Count(list, i) = 0
<1>1. Places(list, i) = {}
  BY DEF Places, Ids
<1> QED
  BY <1>1, FS_EmptySet DEF Count

\* A count, and the position of an entry among those of its identity.
LEMMA PlacesFacts ==
  ASSUME NEW S, NEW list \in Seq(S), NEW i
  PROVE  /\ Places(list, i) \in SUBSET Int /\ IsFiniteSet(Places(list, i))
         /\ Count(list, i) \in Nat
         /\ \A j \in Places(list, i) : Rank(Places(list, i), j) \in 1..Count(list, i)
<1>1. Places(list, i) \in SUBSET DOMAIN list
  BY DEF Places
<1>2. Places(list, i) \in SUBSET Int /\ IsFiniteSet(Places(list, i))
      /\ Cardinality(Places(list, i)) \in Nat
  BY <1>1, Positions
<1> QED
  BY <1>2, RankFacts DEF Count

\* Nothing takes an entry that was not configured before.
LEMMA LeftOthers ==
  ASSUME NEW S, NEW have \in Seq(S), NEW previous, NEW j \in DOMAIN have,
         have[j].id \notin Ids(previous)
  PROVE  j \in Left(have, previous)
<1>1. j \in Places(have, have[j].id)
  BY DEF Places
<1>2. Rank(Places(have, have[j].id), j) > 0
  BY <1>1, PlacesFacts
<1> QED
  BY <1>2, CountNone DEF Left

\* Two lists of the same entries have the same identities in the same places.
LEMMA SameListPlaces ==
  ASSUME NEW want \in Seq(Entries), NEW have \in Seq(Entries), SameList(want, have)
  PROVE  /\ Len(have) = Len(want) /\ DOMAIN have = DOMAIN want
         /\ \A i \in DOMAIN want : have[i].id = want[i].id
         /\ \A i : Places(have, i) = Places(want, i)
<1>1. Len(have) = Len(want) /\ DOMAIN have = DOMAIN want
  BY DEF SameList
<1>2. \A i \in DOMAIN want : have[i].id = want[i].id
  BY DEF SameList, SameEntry
<1> QED
  BY <1>1, <1>2 DEF Places

\* As have a list and the one it is filled to.
LEMMA FilledPlaces ==
  ASSUME NEW list \in Seq(Entries)
  PROVE  \A i : Places(FilledList(list), i) = Places(list, i)
<1>1. DOMAIN FilledList(list) = 1..Len(list) /\ DOMAIN list = 1..Len(list)
  BY FilledSeq
<1>2. \A j \in 1..Len(list) : FilledList(list)[j].id = list[j].id
  <2> TAKE j \in 1..Len(list)
  <2>1. list[j] \in Entries
    OBVIOUS
  <2> QED
    BY <2>1, FilledSeq, FilledEntry
<1> QED
  BY <1>1, <1>2 DEF Places

-----------------------------------------------------------------------------
(* What a merge returns.                                                   *)

Kept(have, previous, desired) == Left(have, previous) \cap Undeclared(have, desired)

\* m is the list desired, with the entries of have at the positions K behind it.
Joined(have, desired, K, m) ==
  LET n == Len(desired) IN
  /\ K \in SUBSET Int /\ IsFiniteSet(K) /\ Cardinality(K) \in Nat
  /\ K \subseteq DOMAIN have
  /\ m \in Seq(Entries) /\ Len(m) = n + Cardinality(K)
  /\ \A i \in 1..n : m[i] = desired[i]
  /\ \A j \in K : /\ Rank(K, j) \in 1..Cardinality(K)
                  /\ n + Rank(K, j) \in n + 1..Len(m)
                  /\ m[n + Rank(K, j)] = have[j]
  /\ \A i \in n + 1..Len(m) : \E j \in K : i = n + Rank(K, j) /\ m[i] = have[j]

\* The declared list, and behind it the entries that are kept.
LEMMA MergeFacts ==
  ASSUME NEW have \in Seq(Views), NEW previous, NEW desired \in Seq(Entries)
  PROVE  Joined(have, desired, Kept(have, previous, desired),
                Merge(have, previous, desired))
<1> DEFINE K == Kept(have, previous, desired)
           t == Picked(have, K)
           m == Merge(have, previous, desired)
           n == Len(desired)
<1>1. K \in SUBSET DOMAIN have
  BY DEF Kept, Left
<1>2. K \in SUBSET Int /\ IsFiniteSet(K) /\ Cardinality(K) \in Nat
  BY <1>1, Positions
<1>3. have \in Seq(Entries)
  BY ViewsEntries
<1>4. t \in Seq(Entries) /\ Len(t) = Cardinality(K)
  BY <1>1, <1>3, PickedSeq
<1>5. m = desired \o t
  BY DEF Merge, Kept
<1>6. /\ m \in Seq(Entries) /\ Len(m) = n + Cardinality(K) /\ n \in Nat
      /\ \A i \in 1..n : m[i] = desired[i]
      /\ \A i \in n + 1..Len(m) : m[i] = t[i - n]
  BY <1>4, <1>5, Behind
<1>7. \A j \in K : t[Rank(K, j)] = have[j] /\ Rank(K, j) \in 1..Cardinality(K)
  BY <1>2, PickedFacts, RankFacts
<1>8. ASSUME NEW j \in K
      PROVE  n + Rank(K, j) \in n + 1..Len(m) /\ m[n + Rank(K, j)] = have[j]
  <2>1. n + Rank(K, j) \in n + 1..Len(m) /\ n + Rank(K, j) - n = Rank(K, j)
    BY <1>2, <1>6, <1>7
  <2> QED
    BY <1>6, <1>7, <2>1
<1>9. ASSUME NEW i \in n + 1..Len(m)
      PROVE  \E j \in K : i = n + Rank(K, j) /\ m[i] = have[j]
  <2>1. i - n \in 1..Cardinality(K) /\ i = n + (i - n)
    BY <1>2, <1>6
  <2>2. \A k \in 1..Cardinality(K) : \E j \in K : Rank(K, j) = k /\ t[k] = have[j]
    BY <1>2, PickedFacts
  <2>3. PICK j \in K : Rank(K, j) = i - n /\ t[i - n] = have[j]
    BY <2>1, <2>2
  <2> QED
    BY <1>6, <2>1, <2>3
<1> HIDE DEF K, t, m
<1>10. Joined(have, desired, K, m)
  BY <1>1, <1>2, <1>6, <1>7, <1>8, <1>9 DEF Joined
<1> QED
  BY <1>10 DEF K, m

\* What an update makes of Lima's list has the merged entries, in their places.
LEMMA ResizedFacts ==
  ASSUME TypeInv, NEW config \in Seq(Entries), config # Unmanaged
  PROVE  LET m == Merge(resolved, Declared(state), config)
             r == Resized(config)
         IN /\ m \in Seq(Entries) /\ r \in Seq(Views) /\ Len(r) = Len(m)
            /\ \A i \in 1..Len(m) : SameEntry(m[i], r[i])
            /\ \A i : Places(r, i) = Places(m, i)
            /\ r = resolved \/ r = FilledList(m)
<1> DEFINE m == Merge(resolved, Declared(state), config)
           r == Resized(config)
<1>1. resolved \in Seq(Views) /\ resolved \in Seq(Entries)
  BY ViewsEntries DEF TypeInv
<1>2. m \in Seq(Entries)
  BY <1>1, MergeFacts DEF Joined
<1>3. CASE SameList(m, resolved)
  <2>1. r = resolved
    BY <1>3 DEF Resized
  <2>2. Len(r) = Len(m) /\ (\A i : Places(r, i) = Places(m, i))
    BY <1>1, <1>2, <1>3, <2>1, SameListPlaces
  <2>3. \A i \in 1..Len(m) : SameEntry(m[i], r[i])
    BY <1>2, <1>3, <2>1 DEF SameList
  <2> HIDE DEF m, r
  <2> QED
    BY <1>1, <1>2, <2>1, <2>2, <2>3 DEF m, r
<1>4. CASE ~SameList(m, resolved)
  <2>1. r = FilledList(m)
    BY <1>4 DEF Resized
  <2>2. /\ r \in Seq(Views) /\ Len(r) = Len(m)
        /\ \A i \in 1..Len(m) : r[i] = Filled(m[i])
    BY <1>2, <2>1, FilledSeq
  <2>3. \A i : Places(r, i) = Places(m, i)
    BY <1>2, <2>1, FilledPlaces
  <2>4. \A i \in 1..Len(m) : m[i] \in Entries
    BY <1>2
  <2>5. \A i \in 1..Len(m) : SameEntry(m[i], r[i])
    BY <2>2, <2>4, SameFilled
  <2> HIDE DEF m, r
  <2> QED
    BY <1>2, <2>1, <2>2, <2>3, <2>5 DEF m, r
<1> QED
  BY <1>3, <1>4

-----------------------------------------------------------------------------
(* What a refresh reads.                                                   *)

\* The first entry of an identity is one of its entries, and none comes before.
LEMMA FirstFacts ==
  ASSUME NEW S, NEW list \in Seq(S), NEW i \in Ids(list)
  PROVE  \E j \in Places(list, i) :
            First(list, i) = list[j] /\ \A k \in Places(list, i) : j <= k
<1> DEFINE P == Places(list, i)
<1>1. P \in SUBSET Int /\ IsFiniteSet(P) /\ Count(list, i) = Cardinality(P)
      /\ Cardinality(P) \in Nat
  BY PlacesFacts DEF Count
<1>2. P # {}
  BY DEF Ids, Places
<1>3. 1 \in 1..Cardinality(P)
  BY <1>1, <1>2, FS_EmptySet
<1> HIDE DEF P
<1>4. PICK j \in P : Rank(P, j) = 1
  BY <1>1, <1>3, RankOnto
<1>5. \A k \in P : Rank(P, k) \in 1..Cardinality(P) /\ (k < j => Rank(P, k) < Rank(P, j))
  BY <1>1, RankFacts
<1>6. \A k \in P : j <= k
  BY <1>1, <1>4, <1>5
<1>7. LET f == CHOOSE f \in P : \A k \in P : f <= k
      IN f \in P /\ \A k \in P : f <= k
  BY <1>6
<1> QED
  BY <1>7 DEF First, P

\* A declared entry, as observed, can be declared.
LEMMA ObservedEntry ==
  ASSUME NEW e \in Entries, NEW have \in Views
  PROVE  Observed(e, have) \in Entries
<1>1. have \in Entries
  BY ViewsEntries
<1>2. \A v \in Values, b \in BOOLEAN :
        [e EXCEPT !.opt = v] \in Entries /\ [e EXCEPT !.flag = b, !.opt = v] \in Entries
  BY DEF Entries
<1>3. e.opt \in Values /\ have.opt \in Values /\ have.flag \in BOOLEAN
  BY <1>1 DEF Entries
<1> QED
  BY <1>2, <1>3 DEF Observed

\* State has a list again after a refresh.
LEMMA ReconciledSeq ==
  ASSUME NEW list \in Seq(Entries), NEW have \in Seq(Views)
  PROVE  Reconciled(list, have) \in Seq(Entries)
<1> DEFINE P == {j \in DOMAIN list : list[j].id \in Ids(have)}
           t == Picked(list, P)
<1>1. P \in SUBSET DOMAIN list
  OBVIOUS
<1>2. P \in SUBSET Int /\ IsFiniteSet(P)
  BY <1>1, Positions
<1>3. t \in Seq(Entries) /\ Len(t) = Cardinality(P)
  BY <1>1, PickedSeq
<1> HIDE DEF P
<1>4. \A n \in 1..Cardinality(P) : \E j \in P : t[n] = list[j]
  BY <1>2, PickedFacts
<1>5. ASSUME NEW n \in DOMAIN t
      PROVE  Observed(t[n], First(have, t[n].id)) \in Entries
  <2>1. n \in 1..Cardinality(P)
    BY <1>3
  <2>2. t[n].id \in Ids(have) /\ t[n] \in Entries
    BY <1>3, <1>4, <2>1 DEF P
  <2>3. First(have, t[n].id) \in Views
    BY <2>2, FirstFacts DEF Places
  <2> QED
    BY <2>2, <2>3, ObservedEntry
<1>6. Reconciled(list, have) = [n \in DOMAIN t |-> Observed(t[n], First(have, t[n].id))]
  BY DEF Reconciled, P
<1> HIDE DEF t
<1>7. DOMAIN t = 1..Len(t) /\ Len(t) \in Nat
  BY <1>3
<1> QED
  BY <1>5, <1>6, <1>7

-----------------------------------------------------------------------------
(* The invariant.                                                          *)

\* What the configuration declares is a list, even when it has none.
LEMMA DeclaredSeq ==
  ASSUME NEW list \in Seq(Entries) \cup {Unmanaged}
  PROVE  Declared(list) \in Seq(Entries)
BY DEF Declared

\* Terraform takes the lists a configuration may have.
LEMMA ConfigSeq ==
  ASSUME TypeInv, NEW config \in Lists(kind) \cup {Unmanaged}
  PROVE  config \in Seq(Entries) \cup {Unmanaged}
<1>1. Lists(kind) \subseteq Seq(Entries)
  BY ListsAssumption DEF TypeInv
<1> QED
  BY <1>1

\* A created instance has the declared entries first.
LEMMA InitIInv == Init => IInv
<1> SUFFICES ASSUME Init
             PROVE  IInv
  OBVIOUS
<1>1. kind \in Kinds /\ settled = TRUE
  BY DEF Init
<1>2. state \in Seq(Entries) \cup {Unmanaged}
  <2>1. Lists(kind) \subseteq Seq(Entries)
    BY <1>1, ListsAssumption
  <2> QED
    BY <2>1 DEF Init
<1> DEFINE d == Declared(state)
           F == FilledList(d)
           U == Undeclared(Base, d)
<1>3. d \in Seq(Entries)
  BY <1>2, DeclaredSeq
<1>4. /\ F \in Seq(Views) /\ Len(F) = Len(d)
      /\ \A i \in 1..Len(d) : F[i] = Filled(d[i])
  BY <1>3, FilledSeq
<1>5. Base \in Seq(Views) /\ Picked(Base, U) \in Seq(Views)
  BY ListsAssumption, PickedSeq DEF Undeclared
<1>6. PICK t \in Seq(Views) : resolved = F \o t
  BY <1>5 DEF Init, CreatedWith
<1>7. /\ resolved \in Seq(Views) /\ Len(d) <= Len(resolved)
      /\ \A i \in 1..Len(d) : resolved[i] = F[i]
  <2> HIDE DEF F
  <2>1. Len(F) \in Nat /\ Len(t) \in Nat
    BY <1>4, <1>6
  <2> QED
    BY <1>4, <1>6, <2>1, Behind
<1>8. \A i \in 1..Len(d) : SameEntry(d[i], resolved[i])
  <2> TAKE i \in 1..Len(d)
  <2>1. d[i] \in Entries /\ resolved[i] = Filled(d[i])
    BY <1>3, <1>4, <1>7
  <2> QED
    BY <2>1, SameFilled
<1>9. Managed => d = state
  BY DEF Managed, Declared
<1> HIDE DEF d
<1> QED
  BY <1>1, <1>2, <1>3, <1>7, <1>8, <1>9 DEF IInv, TypeInv, PrefixInv, Lined

\* An update lines up what it declares.
LEMMA UpdateLined ==
  ASSUME TypeInv, NEW config \in Seq(Entries), config # Unmanaged
  PROVE  Lined(config, Resized(config))
<1> DEFINE m == Merge(resolved, Declared(state), config)
           r == Resized(config)
           n == Len(config)
<1>1. /\ m \in Seq(Entries) /\ r \in Seq(Views) /\ Len(r) = Len(m)
      /\ \A i \in 1..Len(m) : SameEntry(m[i], r[i])
  BY ResizedFacts
<1> DEFINE K == Kept(resolved, Declared(state), config)
<1>2. Len(m) = n + Cardinality(K) /\ Cardinality(K) \in Nat
  BY MergeFacts DEF TypeInv, Joined
<1>3. \A i \in 1..n : m[i] = config[i]
  BY MergeFacts DEF TypeInv, Joined
<1>4. n \in Nat /\ DOMAIN config = 1..n
  OBVIOUS
<1> HIDE DEF m, r, K
<1>5. n <= Len(m) /\ 1..n \subseteq 1..Len(m)
  BY <1>2, <1>4
<1>6. \A i \in 1..n : SameEntry(config[i], r[i])
  BY <1>1, <1>3, <1>5
<1> QED
  BY <1>1, <1>4, <1>5, <1>6 DEF Lined, r

\* No step breaks the invariant.
LEMMA NextIInv == IInv /\ [Next]_vars => IInv'
<1> SUFFICES ASSUME IInv, [Next]_vars
             PROVE  IInv'
  OBVIOUS
<1>1. TypeInv /\ PrefixInv
  BY DEF IInv
<1>2. CASE UNCHANGED vars
  BY <1>1, <1>2 DEF IInv, TypeInv, PrefixInv, Managed, Lined, SameEntry, vars
<1>3. CASE Drift
  BY <1>1, <1>3 DEF Drift, IInv, TypeInv, PrefixInv
<1>4. CASE Refresh
  <2>1. state \in Seq(Entries) /\ resolved \in Seq(Views)
    BY <1>1, <1>4 DEF Refresh, TypeInv
  <2>2. state' \in Seq(Entries)
    BY <1>4, <2>1, ReconciledSeq DEF Refresh
  <2>3. /\ kind' = kind /\ resolved' = resolved /\ settled' \in BOOLEAN
        /\ settled' => settled /\ state' = state
    BY <1>4 DEF Refresh
  <2>4. TypeInv'
    BY <1>1, <2>2, <2>3 DEF TypeInv
  <2>5. PrefixInv'
    BY <1>1, <2>3 DEF PrefixInv, Managed, Lined, SameEntry
  <2> QED
    BY <2>4, <2>5 DEF IInv
<1>5. ASSUME NEW config \in Lists(kind) \cup {Unmanaged}, Update(config)
      PROVE  IInv'
  <2>1. config \in Seq(Entries) \cup {Unmanaged}
    BY <1>1, ConfigSeq
  <2>2. /\ kind' = kind /\ state' = config /\ settled' = TRUE
        /\ resolved' = Resized(config)
    BY <1>5 DEF Update
  <2>3. CASE config = Unmanaged
    <3>1. resolved' = resolved
      BY <2>2, <2>3 DEF Resized
    <3> QED
      BY <1>1, <2>2, <2>3, <3>1 DEF IInv, TypeInv, PrefixInv, Managed
  <2>4. CASE config # Unmanaged
    <3>1. config \in Seq(Entries)
      BY <2>1, <2>4
    <3>2. Resized(config) \in Seq(Views)
      BY <1>1, <2>4, <3>1, ResizedFacts
    <3>3. Lined(config, Resized(config))
      BY <1>1, <2>4, <3>1, UpdateLined
    <3>4. Lined(state, resolved)'
      BY <2>2, <3>3 DEF Lined, SameEntry
    <3> QED
      BY <1>1, <2>2, <3>1, <3>2, <3>4 DEF IInv, TypeInv, PrefixInv
  <2> QED
    BY <2>3, <2>4
<1> QED
  BY <1>2, <1>3, <1>4, <1>5 DEF Next

\* The invariant holds, whatever is changed outside Terraform.
THEOREM IInvHolds == Spec => []IInv
BY InitIInv, NextIInv, PTL DEF Spec

-----------------------------------------------------------------------------
(* What holds of a settled list.                                           *)

\* A refresh after an update finds an entry that leaves nothing open, and shares its
\* identity with no other, as it is declared.
THEOREM PinnedEntriesStay == Spec => []PinnedStays
<1>1. IInv => PinnedStays
  <2> SUFFICES ASSUME IInv, settled, Managed, NEW i \in DOMAIN state,
                      Pinned(state[i]), Count(state, state[i].id) = 1
               PROVE  /\ state[i].id \in Ids(resolved)
                      /\ Observed(state[i], First(resolved, state[i].id)) = state[i]
    BY DEF PinnedStays
  <2> DEFINE e == state[i]
             v == resolved[i]
  <2>1. state \in Seq(Entries) /\ resolved \in Seq(Views) /\ Lined(state, resolved)
    BY DEF IInv, TypeInv, PrefixInv, Managed
  <2>2. /\ i \in DOMAIN resolved /\ e \in Entries /\ v \in Entries
        /\ Len(state) \in Nat /\ Len(resolved) \in Nat /\ Len(state) <= Len(resolved)
        /\ DOMAIN state = 1..Len(state) /\ DOMAIN resolved = 1..Len(resolved)
    BY <2>1, ViewsEntries DEF Lined
  <2>3. \A k \in DOMAIN state :
          SameEntry(state[k], resolved[k]) /\ resolved[k].id = state[k].id
    BY <2>1 DEF Lined, SameEntry
  <2>4. e.id \in Ids(resolved) /\ i \in Places(resolved, e.id)
    BY <2>2, <2>3 DEF Ids, Places
  <2>5. PICK j \in Places(resolved, e.id) :
          /\ First(resolved, e.id) = resolved[j]
          /\ \A k \in Places(resolved, e.id) : j <= k
    BY <2>1, <2>4, FirstFacts
  <2>6. j \in DOMAIN state /\ i \in Places(state, e.id)
    BY <2>2, <2>4, <2>5 DEF Places
  <2>7. j \in Places(state, e.id)
    BY <2>3, <2>5, <2>6 DEF Places
  <2>8. \E x : Places(state, e.id) = {x}
    <3>1. IsFiniteSet(Places(state, e.id))
      BY <2>1, PlacesFacts
    <3> QED
      BY <3>1, FS_Singleton DEF Count
  <2>9. First(resolved, e.id) = v
    BY <2>5, <2>6, <2>7, <2>8
  <2>10. SameEntry(e, v) /\ kind \in {"mount", "forward"}
    BY <2>3, KindsAssumption DEF IInv, TypeInv
  <2>11. Observed(e, v) = e
    <3>1. [e EXCEPT !.opt = e.opt] = e /\ [e EXCEPT !.flag = e.flag, !.opt = e.opt] = e
      BY <2>2 DEF Entries
    <3>2. CASE kind = "mount"
      <4>1. e.opt # Unset /\ v.opt = e.opt /\ v.flag = e.flag
        BY <2>10, <3>2 DEF Pinned, SameEntry
      <4> QED
        BY <3>1, <3>2, <4>1 DEF Observed
    <3>3. CASE kind = "forward"
      <4>1. v.opt = e.opt \/ e.opt = Unset
        BY <2>10 DEF SameEntry
      <4> QED
        BY <3>1, <3>3, <4>1 DEF Observed
    <3> QED
      BY <2>10, <3>2, <3>3
  <2> QED
    BY <2>4, <2>9, <2>11
<1> QED
  BY <1>1, IInvHolds, PTL

\* An update for something else does not edit a list that is as it was declared, and
\* so does not restart the instance for it.
THEOREM NoEditInVain == Spec => []NoNeedlessEdit
<1>1. IInv => NoNeedlessEdit
  <2> SUFFICES ASSUME IInv, settled, Managed,
                      \A i \in Ids(state) : Count(resolved, i) = Count(state, i)
               PROVE  SameList(Merge(resolved, state, state), resolved)
    BY DEF NoNeedlessEdit
  <2> DEFINE n == Len(state)
             l == Len(resolved)
             K == Kept(resolved, state, state)
             m == Merge(resolved, state, state)
  <2>1. /\ state \in Seq(Entries) /\ resolved \in Seq(Views) /\ resolved \in Seq(Entries)
        /\ Lined(state, resolved)
    BY ViewsEntries DEF IInv, TypeInv, PrefixInv, Managed
  <2>2. /\ n \in Nat /\ l \in Nat /\ n <= l
        /\ DOMAIN state = 1..n /\ DOMAIN resolved = 1..l
    BY <2>1 DEF Lined
  <2>3. \A k \in 1..n : SameEntry(state[k], resolved[k]) /\ resolved[k].id = state[k].id
    BY <2>1, <2>2 DEF Lined, SameEntry
  \* Behind the declared ones there is none of their identities.
  <2>4. ASSUME NEW k \in n + 1..l, resolved[k].id \in Ids(state)
        PROVE  FALSE
    <3> DEFINE i == resolved[k].id
    <3>1. Places(state, i) \subseteq Places(resolved, i)
      BY <2>2, <2>3 DEF Places
    <3>2. k \in Places(resolved, i) /\ k \notin Places(state, i)
      BY <2>2 DEF Places
    <3>3. IsFiniteSet(Places(resolved, i))
      BY <2>1, PlacesFacts
    <3>4. Cardinality(Places(resolved, i)) = Cardinality(Places(state, i))
      BY <2>4 DEF Count
    <3> QED
      BY <3>1, <3>2, <3>3, <3>4, FS_Subset
  <2>5. K = n + 1..l
    <3>1. ASSUME NEW k \in K
          PROVE  k \in n + 1..l
      <4>1. k \in 1..l /\ resolved[k].id \notin Ids(state)
        BY <2>2 DEF Kept, Undeclared
      <4>2. k \notin 1..n
        BY <2>2, <2>3, <4>1 DEF Ids
      <4> QED
        BY <2>2, <4>1, <4>2
    <3>2. ASSUME NEW k \in n + 1..l
          PROVE  k \in K
      <4>1. k \in DOMAIN resolved /\ resolved[k].id \notin Ids(state)
        BY <2>2, <2>4
      <4>2. k \in Left(resolved, state)
        BY <2>1, <4>1, LeftOthers
      <4> QED
        BY <4>1, <4>2 DEF Kept, Undeclared
    <3> QED
      BY <3>1, <3>2
  <2>6. Cardinality(K) = l - n /\ \A k \in K : Rank(K, k) = k - n
    BY <2>2, <2>5, StretchRank
  <2>7. /\ m \in Seq(Entries) /\ Len(m) = n + Cardinality(K)
        /\ \A i \in 1..n : m[i] = state[i]
        /\ \A j \in K : m[n + Rank(K, j)] = resolved[j]
    <3>1. Joined(resolved, state, K, m)
      BY <2>1, MergeFacts
    <3> HIDE DEF K, m
    <3> QED
      BY <3>1 DEF Joined
  <2> HIDE DEF m, K
  <2>8. Len(m) = l /\ DOMAIN m = 1..l
    BY <2>2, <2>6, <2>7
  <2>9. ASSUME NEW i \in 1..l
        PROVE  SameEntry(m[i], resolved[i])
    <3>1. CASE i \in 1..n
      BY <2>3, <2>7, <3>1
    <3>2. CASE i \notin 1..n
      <4>1. i \in K /\ n + Rank(K, i) = i
        BY <2>2, <2>5, <2>6, <3>2
      <4>2. m[i] = resolved[i]
        BY <2>7, <4>1
      <4> QED
        BY <2>1, <2>2, <4>2, SameFilled
    <3> QED
      BY <3>1, <3>2
  <2> QED
    BY <2>8, <2>9 DEF SameList, m
<1> QED
  BY <1>1, IInvHolds, PTL

-----------------------------------------------------------------------------
(* What an update leaves.                                                  *)

\* A step that settles the list has changed it by an update, if at all.
LEMMA Settling ==
  ASSUME IInv, [Next]_vars, settled'
  PROVE  \/ UNCHANGED vars
         \/ \E config \in Seq(Entries) \cup {Unmanaged} :
              state' = config /\ resolved' = Resized(config)
<1>1. CASE UNCHANGED vars
  BY <1>1 DEF vars
<1>2. CASE Drift
  BY <1>2 DEF Drift
<1>3. CASE Refresh
  <2>1. settled /\ state' = state /\ kind' = kind /\ resolved' = resolved
    BY <1>3 DEF Refresh
  <2>2. settled \in BOOLEAN /\ settled' \in BOOLEAN
    BY NextIInv DEF IInv, TypeInv
  <2> QED
    BY <2>1, <2>2 DEF vars
<1>4. ASSUME NEW config \in Lists(kind) \cup {Unmanaged}, Update(config)
      PROVE  \E c \in Seq(Entries) \cup {Unmanaged} : state' = c /\ resolved' = Resized(c)
  BY <1>4, ConfigSeq DEF Update, IInv
<1> QED
  BY <1>1, <1>2, <1>3, <1>4 DEF Next

\* The entries that an update has nothing to do with are kept, in their order.
LEMMA UpdateKeepsOthers ==
  ASSUME TypeInv, NEW config \in Seq(Entries), config # Unmanaged,
         NEW declared \in Seq(Entries),
         Ids(declared) = Ids(Declared(state)) \cup Ids(config)
  PROVE  Picked(Resized(config), Undeclared(Resized(config), declared)) =
           Picked(resolved, Undeclared(resolved, declared))
<1> DEFINE D == Declared(state)
           m == Merge(resolved, D, config)
           r == Resized(config)
           n == Len(config)
           K == Kept(resolved, D, config)
           P == Undeclared(resolved, declared)
           Q == Undeclared(r, declared)
<1>1. CASE r = resolved
  BY <1>1
<1>2. CASE r = FilledList(m)
  <2>1. /\ resolved \in Seq(Views) /\ n \in Nat /\ DOMAIN config = 1..n
        /\ DOMAIN resolved = 1..Len(resolved)
    BY DEF TypeInv
  <2>2. /\ K \in SUBSET Int /\ IsFiniteSet(K) /\ Cardinality(K) \in Nat
        /\ K \subseteq DOMAIN resolved
        /\ m \in Seq(Entries) /\ Len(m) = n + Cardinality(K)
        /\ \A i \in 1..n : m[i] = config[i]
        /\ \A j \in K : /\ Rank(K, j) \in 1..Cardinality(K)
                        /\ n + Rank(K, j) \in n + 1..Len(m)
                        /\ m[n + Rank(K, j)] = resolved[j]
        /\ \A i \in n + 1..Len(m) :
             \E j \in K : i = n + Rank(K, j) /\ m[i] = resolved[j]
    <3>1. Joined(resolved, config, K, m)
      BY <2>1, MergeFacts
    <3> HIDE DEF K, m
    <3> QED
      BY <3>1 DEF Joined
  <2>3. /\ r \in Seq(Views) /\ DOMAIN r = 1..Len(m) /\ DOMAIN m = 1..Len(m)
        /\ \A i \in 1..Len(m) : r[i] = Filled(m[i]) /\ r[i].id = m[i].id
    <3>1. \A i \in 1..Len(m) : m[i] \in Entries
      BY <2>2
    <3> HIDE DEF m, r
    <3> QED
      BY <1>2, <2>2, <3>1, FilledSeq, FilledEntry
  <2>4. \A j \in K : resolved[j] \in Views /\ r[n + Rank(K, j)] = resolved[j]
    <3> TAKE j \in K
    <3>1. resolved[j] \in Views /\ resolved[j] \in Entries
      BY <2>1, <2>2, ViewsEntries
    <3>2. n + Rank(K, j) \in 1..Len(m)
      BY <2>1, <2>2
    <3> HIDE DEF K, m, r
    <3> QED
      BY <2>2, <2>3, <3>1, <3>2, FilledEntry
  <2>5. P \subseteq K
    <3> SUFFICES ASSUME NEW j \in P
                 PROVE  j \in K
      OBVIOUS
    <3>1. j \in DOMAIN resolved /\ resolved[j].id \notin Ids(D) \cup Ids(config)
      BY DEF Undeclared
    <3>2. j \in Left(resolved, D)
      BY <2>1, <3>1, LeftOthers
    <3> QED
      BY <3>1, <3>2 DEF Kept, Undeclared
  <2> DEFINE f == [j \in P |-> n + Rank(K, j)]
  <2>6. f \in [P -> Q]
    <3> SUFFICES ASSUME NEW j \in P
                 PROVE  n + Rank(K, j) \in Q
      OBVIOUS
    <3>1. j \in K /\ n + Rank(K, j) \in 1..Len(m)
      BY <2>1, <2>2, <2>5
    <3>2. r[n + Rank(K, j)].id \notin Ids(declared)
      BY <2>4, <3>1 DEF Undeclared
    <3> QED
      BY <2>3, <3>1, <3>2 DEF Undeclared
  <2>7. \A q \in Q : \E j \in P : f[j] = q
    <3> TAKE q \in Q
    <3>1. q \in 1..Len(m) /\ r[q].id \notin Ids(declared) /\ r[q].id = m[q].id
      BY <2>3 DEF Undeclared
    <3>2. q \notin 1..n
      <4>1. q \in 1..n => m[q].id \in Ids(config)
        BY <2>1, <2>2 DEF Ids
      <4> QED
        BY <3>1, <4>1
    <3>3. q \in n + 1..Len(m)
      BY <2>1, <2>2, <3>1, <3>2
    <3>4. PICK j \in K : q = n + Rank(K, j) /\ m[q] = resolved[j]
      BY <2>2, <3>3
    <3>5. j \in P
      BY <2>2, <3>1, <3>4 DEF Undeclared
    <3> QED
      BY <3>4, <3>5
  <2>8. \A i, j \in P : i < j => f[i] < f[j]
    <3> SUFFICES ASSUME NEW i \in P, NEW j \in P, i < j
                 PROVE  n + Rank(K, i) < n + Rank(K, j)
      OBVIOUS
    <3>1. i \in K /\ j \in K
      BY <2>5
    <3>2. Rank(K, i) < Rank(K, j)
      BY <2>2, <3>1, RankFacts
    <3>3. Rank(K, i) \in 1..Cardinality(K) /\ Rank(K, j) \in 1..Cardinality(K)
      BY <2>2, <3>1
    <3> HIDE DEF K
    <3> QED
      BY <2>1, <2>2, <3>2, <3>3
  <2>9. P \in SUBSET Int /\ IsFiniteSet(P) /\ Q \in SUBSET Int
    <3>1. P \in SUBSET DOMAIN resolved /\ Q \in SUBSET DOMAIN r
      BY DEF Undeclared
    <3> QED
      BY <2>1, <2>3, <3>1, Positions
  <2>10. \A j \in P : r[f[j]] = resolved[j]
    BY <2>4, <2>5
  <2> HIDE DEF f, P, Q, r, K
  <2>11. Picked(r, Q) = Picked(resolved, P)
    BY <2>6, <2>7, <2>8, <2>9, <2>10, SamePicked
  <2> QED
    BY <2>11 DEF P, Q, r
<1> QED
  BY <1>1, <1>2, ResizedFacts

\* An update leaves alone, in place and in order, every entry that the configuration
\* neither declares nor declared: the template's and the user's.
THEOREM OthersAreKept == Spec => OthersKept
<1> DEFINE dec == Declared(state) \o Declared(state')
           A == settled' => Picked(resolved', Undeclared(resolved', dec)) =
                              Picked(resolved, Undeclared(resolved, dec))
<1>1. IInv /\ [Next]_vars => [A]_vars
  <2> SUFFICES ASSUME IInv, [Next]_vars, settled'
               PROVE  Picked(resolved', Undeclared(resolved', dec)) =
                        Picked(resolved, Undeclared(resolved, dec))
    OBVIOUS
  <2>1. CASE resolved' = resolved
    BY <2>1
  <2>2. ASSUME NEW config \in Seq(Entries) \cup {Unmanaged},
               state' = config, resolved' = Resized(config), resolved' # resolved
        PROVE  Picked(resolved', Undeclared(resolved', dec)) =
                 Picked(resolved, Undeclared(resolved, dec))
    <3>1. config # Unmanaged /\ config \in Seq(Entries) /\ Declared(config) = config
      BY <2>2 DEF Resized, Declared
    <3>2. TypeInv /\ Declared(state) \in Seq(Entries)
      BY DeclaredSeq DEF IInv, TypeInv
    <3>3. dec = Declared(state) \o config
      BY <2>2, <3>1 DEF Declared
    <3> DEFINE s == Declared(state)
    <3> HIDE DEF s
    <3>4. s \o config \in Seq(Entries) /\ Ids(s \o config) = Ids(s) \cup Ids(config)
      BY <3>1, <3>2, IdsBehind DEF s
    <3>5. dec \in Seq(Entries) /\ Ids(dec) = Ids(Declared(state)) \cup Ids(config)
      BY <3>3, <3>4 DEF s
    <3> HIDE DEF dec
    <3> QED
      BY <2>2, <3>1, <3>2, <3>5, UpdateKeepsOthers
  <2>3. UNCHANGED vars => resolved' = resolved
    BY DEF vars
  <2> HIDE DEF dec
  <2> QED
    BY <2>1, <2>2, <2>3, Settling
<1> QED
  BY <1>1, IInvHolds, PTL DEF Spec, OthersKept

\* A declared entry is in effect once Lima has it filled, and so is one that Lima has
\* the same entry for, if its attributes can all be told.
LEMMA SameInEffect ==
  ASSUME NEW e \in Entries, NEW v \in Views, kind \in {"mount", "forward"}
  PROVE  /\ InEffect(e, Filled(e))
         /\ SameEntry(e, v) /\ ~Loose(e) => InEffect(e, v)
<1>1. /\ Filled(e).id = e.id /\ Filled(e).flag = e.flag
      /\ e.opt = Unset => Filled(e).opt = Chosen
      /\ e.opt # Unset => Filled(e).opt = e.opt
      /\ e.ip # Unset => Filled(e).ip = e.ip
  BY DEF Filled, Entries
<1>2. InEffect(e, Filled(e))
  BY <1>1 DEF InEffect
<1>3. SameEntry(e, v) /\ ~Loose(e) => InEffect(e, v)
  BY DEF SameEntry, Loose, InEffect
<1> QED
  BY <1>2, <1>3

\* An update puts every declared entry in effect, if it edits the list or can tell
\* all the entry's attributes.
LEMMA UpdateInEffect ==
  ASSUME TypeInv, NEW config \in Seq(Entries), config # Unmanaged,
         NEW i \in DOMAIN config, Resized(config) # resolved \/ ~Loose(config[i])
  PROVE  \E j \in DOMAIN Resized(config) : InEffect(config[i], Resized(config)[j])
<1> DEFINE m == Merge(resolved, Declared(state), config)
           K == Kept(resolved, Declared(state), config)
           r == Resized(config)
           n == Len(config)
<1>1. /\ m \in Seq(Entries) /\ r \in Seq(Views) /\ Len(r) = Len(m)
      /\ r = resolved \/ r = FilledList(m)
  BY ResizedFacts
<1>2. Len(m) = n + Cardinality(K) /\ Cardinality(K) \in Nat
  BY MergeFacts DEF TypeInv, Joined
<1>3. \A k \in 1..n : m[k] = config[k]
  BY MergeFacts DEF TypeInv, Joined
<1>4. n \in Nat /\ i \in 1..n /\ config[i] \in Entries
  OBVIOUS
<1>5. Lined(config, r)
  BY UpdateLined
<1>6. kind \in {"mount", "forward"}
  BY KindsAssumption DEF TypeInv
<1> HIDE DEF m, K, r
<1>7. i \in DOMAIN r /\ r[i] \in Views /\ i \in 1..Len(m)
  BY <1>1, <1>2, <1>4
<1>8. CASE r = FilledList(m)
  <2>1. r[i] = Filled(config[i])
    BY <1>1, <1>3, <1>4, <1>7, <1>8, FilledSeq
  <2>2. InEffect(config[i], r[i])
    BY <1>4, <1>6, <1>7, <2>1, SameInEffect
  <2> QED
    BY <1>7, <2>2 DEF r
<1>9. CASE r = resolved
  <2>1. ~Loose(config[i]) /\ SameEntry(config[i], r[i])
    BY <1>4, <1>5, <1>9 DEF Lined, r
  <2>2. InEffect(config[i], r[i])
    BY <1>4, <1>6, <1>7, <2>1, SameInEffect
  <2> QED
    BY <1>7, <2>2 DEF r
<1> QED
  BY <1>1, <1>8, <1>9

\* Whatever was changed outside Terraform before, an update that edits the list leaves
\* every declared entry in effect, and one that finds nothing to edit every entry
\* whose attributes the comparison of the code can all tell.
THEOREM DeclaredIsInEffect == Spec => DeclaredInEffect
<1>1. ASSUME IInv, [Next]_vars, settled', Managed', ~UNCHANGED vars
      PROVE  \A i \in DOMAIN state' : resolved' # resolved \/ ~Loose(state'[i]) =>
               \E j \in DOMAIN resolved' : InEffect(state'[i], resolved'[j])
  <2>1. PICK config \in Seq(Entries) \cup {Unmanaged} :
          state' = config /\ resolved' = Resized(config)
    BY <1>1, Settling
  <2>2. config \in Seq(Entries) /\ config # Unmanaged /\ TypeInv
    BY <1>1, <2>1 DEF Managed, IInv
  <2> QED
    BY <2>1, <2>2, UpdateInEffect
<1> QED
  BY <1>1, IInvHolds, PTL DEF Spec, DeclaredInEffect

\* How many entries of an identity an update leaves.
LEMMA UpdateCounts ==
  ASSUME TypeInv, NEW config \in Seq(Entries), config # Unmanaged, NEW i
  PROVE  LET D == Declared(state)
             r == Resized(config)
         IN /\ i \in Ids(config) => Count(r, i) = Count(config, i)
            /\ i \notin Ids(config) /\ Count(resolved, i) <= Count(D, i) => Count(r, i) = 0
<1> DEFINE D == Declared(state)
           r == Resized(config)
           m == Merge(resolved, D, config)
           K == Kept(resolved, D, config)
           n == Len(config)
<1>1. resolved \in Seq(Views) /\ D \in Seq(Entries) /\ n \in Nat /\ DOMAIN config = 1..n
  BY DeclaredSeq DEF TypeInv
<1>2. Places(r, i) = Places(m, i)
  BY ResizedFacts
<1>3. Joined(resolved, config, K, m)
  BY <1>1, MergeFacts
<1>4. \A j \in K : j \in Left(resolved, D) /\ resolved[j].id \notin Ids(config)
  BY DEF Kept, Undeclared
<1> HIDE DEF m, K, r, D
<1>5. \A q \in Places(m, i) : q \in 1..n \/ \E j \in K : resolved[j].id = i
  <2> TAKE q \in Places(m, i)
  <2>1. q \in 1..Len(m) /\ m[q].id = i
    BY <1>3 DEF Places, Joined
  <2>2. q \in 1..n \/ q \in n + 1..Len(m)
    BY <1>1, <1>3, <2>1 DEF Joined
  <2> QED
    BY <1>3, <2>1, <2>2 DEF Joined
<1>6. /\ DOMAIN m = 1..Len(m) /\ 1..n \subseteq DOMAIN m
      /\ \A q \in 1..n : m[q] = config[q]
  BY <1>1, <1>3 DEF Joined
<1>7. CASE i \in Ids(config)
  <2>1. Places(m, i) = Places(config, i)
    BY <1>1, <1>4, <1>5, <1>6, <1>7 DEF Places
  <2> QED
    BY <1>2, <1>7, <2>1 DEF Count, r
<1>8. CASE i \notin Ids(config) /\ Count(resolved, i) <= Count(D, i)
  <2>1. ASSUME NEW j \in K, resolved[j].id = i
        PROVE  FALSE
    <3>1. j \in Places(resolved, i) /\ Rank(Places(resolved, i), j) > Count(D, i)
      BY <1>4, <2>1 DEF Left, Places
    <3>2. /\ Rank(Places(resolved, i), j) \in 1..Count(resolved, i)
          /\ Count(resolved, i) \in Nat /\ Count(D, i) \in Nat
      BY <1>1, <3>1, PlacesFacts
    <3> QED
      BY <1>8, <3>1, <3>2
  <2>2. \A q \in 1..n : q \notin Places(m, i)
    BY <1>1, <1>6, <1>8 DEF Places, Ids
  <2>3. Places(m, i) = {}
    BY <1>5, <2>1, <2>2
  <2>4. Count(r, i) = 0
    BY <1>2, <2>3, FS_EmptySet DEF Count
  <2> QED
    BY <1>8, <2>4 DEF r
<1> QED
  BY <1>7, <1>8 DEF r, D

\* However the list was changed outside Terraform before, an update leaves as many
\* entries of an identity as are declared, and none of one that was declared and is
\* no longer, unless Lima had that one more often.
THEOREM EntriesAreAsDeclared == Spec => EntriesAsDeclared
<1>1. ASSUME IInv, [Next]_vars, settled', Managed', ~UNCHANGED vars
      PROVE  /\ \A i \in Ids(state') : Count(resolved', i) = Count(state', i)
             /\ \A i \in Ids(Declared(state)) \ Ids(state') :
                  Count(resolved, i) <= Count(Declared(state), i) => Count(resolved', i) = 0
  <2>1. PICK config \in Seq(Entries) \cup {Unmanaged} :
          state' = config /\ resolved' = Resized(config)
    BY <1>1, Settling
  <2>2. config \in Seq(Entries) /\ config # Unmanaged /\ TypeInv
    BY <1>1, <2>1 DEF Managed, IInv
  <2> QED
    BY <2>1, <2>2, UpdateCounts
<1> QED
  BY <1>1, IInvHolds, PTL DEF Spec, EntriesAsDeclared

=============================================================================
