-------------------------- MODULE DeclaredEntries --------------------------
(***************************************************************************)
(* The two lists of an instance that Terraform shares with Lima: mounts    *)
(* and port forwards.  The configuration declares some entries, Lima's     *)
(* resolved list has those and the ones the base template contributed, and *)
(* Terraform state remembers the declared ones as last seen.  An update    *)
(* merges (lima.mergeMounts, lima.mergePortForwards), a refresh reconciles *)
(* (provider.reconcileDeclaredEntries).                                    *)
(*                                                                         *)
(* The model follows one list of one kind.  An entry is a record:          *)
(*   id    what identifies it: a mount's location, a forward's guest port  *)
(*         and protocol                                                    *)
(*   opt   mount_point or host_port; unset, Lima chooses (Chosen)            *)
(*   flag  writable (mounts)                                               *)
(*   ip    guest_ip and host_ip (forwards); unset, Lima chooses            *)
(***************************************************************************)
EXTENDS Integers, Sequences, FiniteSets

CONSTANTS Kinds,     (* the kinds to follow, of {"mount", "forward"}       *)
          Identities,
          Values,    (* of opt and of ip                                   *)
          Lists(_),  (* the lists a configuration of a kind may declare    *)
          Base,      (* what the base template contributes                 *)
          Unset, Chosen, Unmanaged,
          Drifts(_)  (* the lists an outside change may make of one        *)

ASSUME KindsAssumption == Kinds \subseteq {"mount", "forward"}

Entries == [id : Identities, opt : Values, flag : BOOLEAN, ip : Values]

\* Lima leaves nothing open.
Views == {e \in Entries : e.opt # Unset /\ e.ip # Unset}

ASSUME ListsAssumption ==
  /\ Chosen \in Values \ {Unset}
  /\ \A k \in Kinds : Lists(k) \subseteq Seq(Entries)
  /\ Base \in Seq(Views)

VARIABLES
  kind,
  state,     (* what Terraform state has for the list, or Unmanaged if the *)
             (* attribute is absent                                        *)
  resolved,  (* Lima's list                                                *)
  settled    (* state is as the last create or update wrote it, and so is  *)
             (* the instance                                               *)

vars == <<kind, state, resolved, settled>>

-----------------------------------------------------------------------------

\* Where the entries of an identity are, and the identities of a list.
Places(list, i) == {j \in DOMAIN list : list[j].id = i}
Count(list, i) == Cardinality(Places(list, i))
Ids(list) == {list[j].id : j \in DOMAIN list}

\* FindMount, FindPortForward: the first entry of that identity.
First(list, i) ==
  list[CHOOSE j \in Places(list, i) : \A k \in Places(list, i) : j <= k]

\* The entries of a list at some of its positions, in their order.
Rank(positions, j) == Cardinality({k \in positions : k <= j})
Picked(list, positions) ==
  [n \in 1..Cardinality(positions) |->
     list[CHOOSE j \in positions : Rank(positions, j) = n]]

\* Every entry configured before takes the first of its identity that is left of
\* Lima's list: of an identity configured n times, the first n.
Left(have, previous) ==
  {j \in DOMAIN have :
     Rank(Places(have, have[j].id), j) > Count(previous, have[j].id)}

Undeclared(have, desired) == {j \in DOMAIN have : have[j].id \notin Ids(desired)}

\* Mutant: what the base template contributed is not carried across.
MergeDeclaredOnly(have, previous, desired) == desired

\* Mutant: the inherited entries come first.
MergeInheritedFirst(have, previous, desired) ==
  Picked(have, Left(have, previous) \cap Undeclared(have, desired)) \o desired

\* Mutant: an inherited entry survives next to a declared one.
MergeTwice(have, previous, desired) == desired \o Picked(have, Left(have, previous))

\* The declared entries first, then what is left of Lima's list without those
\* configured before and those declared now.
Merge(have, previous, desired) ==
  desired \o Picked(have, Left(have, previous) \cap Undeclared(have, desired))

\* Mutant: the flag is not compared.
SameEntryLoosely(want, have) ==
  want.id = have.id /\ (want.opt = Unset \/ want.opt = have.opt)

SameEntry(want, have) ==
  /\ want.id = have.id
  /\ want.opt = Unset \/ want.opt = have.opt
  /\ kind = "mount" => want.flag = have.flag

\* sameMounts, samePortForwards.
SameList(want, have) ==
  /\ Len(want) = Len(have)
  /\ \A i \in DOMAIN want : SameEntry(want[i], have[i])

\* Lima's choice for what the entry leaves open.
Filled(e) == [e EXCEPT !.opt = IF @ = Unset THEN Chosen ELSE @,
                       !.ip = IF @ = Unset THEN Chosen ELSE @]
FilledList(list) == [i \in DOMAIN list |-> Filled(list[i])]

\* observedMount, observedPortForward: the declared entry as Lima has it now.
Observed(e, have) ==
  IF kind = "mount"
  THEN [e EXCEPT !.flag = have.flag,
                 !.opt = IF @ = Unset /\ have.opt = Chosen THEN Unset ELSE have.opt]
  ELSE [e EXCEPT !.opt = IF @ = Unset THEN Unset ELSE have.opt]

Declared(list) == IF list = Unmanaged THEN <<>> ELSE list

\* What limactl create resolves a declared list to: the list, then the base's.
\* Whether Lima itself folds two entries of one identity is not documented.
CreatedWith(list) ==
  {FilledList(Declared(list)) \o Base,
   FilledList(Declared(list)) \o Picked(Base, Undeclared(Base, Declared(list)))}

-----------------------------------------------------------------------------

\* The instance was created with the configuration.
Init ==
  /\ kind \in Kinds
  /\ state \in Lists(kind) \cup {Unmanaged}
  /\ resolved \in CreatedWith(state)
  /\ settled = TRUE

\* Somebody changes the instance outside Terraform.
Drift ==
  /\ resolved' \in Drifts(resolved) \cap Seq(Views)
  /\ settled' = FALSE
  /\ UNCHANGED <<kind, state>>

Reconciled(list, have) ==
  LET kept == Picked(list, {j \in DOMAIN list : list[j].id \in Ids(have)}) IN
  [i \in DOMAIN kept |-> Observed(kept[i], First(have, kept[i].id))]

\* Read: entries that are gone are dropped, the others updated.
Refresh ==
  /\ state # Unmanaged
  /\ state' = Reconciled(state, resolved)
  /\ settled' = (settled /\ state' = state)
  /\ UNCHANGED <<kind, resolved>>

\* Mutant: the list is written only when it differs from Terraform state's.
ResizedFromState(config) ==
  IF config = Unmanaged \/ SameList(config, Declared(state)) THEN resolved
  ELSE FilledList(Merge(resolved, Declared(state), config))

\* Service.Resize: the merged list is written unless Lima's matches it already.
Resized(config) ==
  LET merged == Merge(resolved, Declared(state), config) IN
  IF config = Unmanaged \/ SameList(merged, resolved) THEN resolved
  ELSE FilledList(merged)

\* Update, for a plan that differs in this list or in something else.
Update(config) ==
  /\ resolved' = Resized(config)
  /\ state' = config /\ settled' = TRUE
  /\ UNCHANGED kind

Next ==
  \/ Drift
  \/ Refresh
  \/ \E config \in Lists(kind) \cup {Unmanaged} : Update(config)

Spec == Init /\ [][Next]_vars

-----------------------------------------------------------------------------

Managed == state # Unmanaged

\* An update leaves alone, in place and in order, every entry that the
\* configuration neither declares nor declared: the template's and the user's.
OthersKept ==
  [][settled' =>
       LET declared == Declared(state) \o Declared(state') IN
       Picked(resolved', Undeclared(resolved', declared)) =
         Picked(resolved, Undeclared(resolved, declared))]_vars

\* However the list was changed outside Terraform before, an update leaves as many
\* entries of an identity as are declared, never one location twice, and none of
\* one that was declared and is no longer, unless Lima had that one twice
\* (lifecycle.go:656-659).  It makes the edit even where it cannot find an entry that
\* was declared; docs/development/lima-cli-contract.md:713-716 says it refuses then.
EntriesAsDeclared ==
  [][settled' /\ Managed' =>
       /\ \A i \in Ids(state') : Count(resolved', i) = Count(state', i)
       /\ \A i \in Ids(Declared(state)) \ Ids(state') :
            Count(resolved, i) <= Count(Declared(state), i) => Count(resolved', i) = 0]_vars

\* What an entry asks for, by Lima and not by the comparison of the code: all it sets
\* is as it says, and a mount point it leaves open is the one Lima chooses.
InEffect(want, have) ==
  /\ want.id = have.id
  /\ want.opt \in {Unset, have.opt}
  /\ kind = "mount" => want.flag = have.flag /\ (want.opt = Unset => have.opt = Chosen)
  /\ kind = "forward" => want.ip \in {Unset, have.ip}

\* What the comparison before an edit cannot tell (lifecycle.go:769, 784-803): a mount
\* point that is left open, an address that is set.
Loose(e) == IF kind = "mount" THEN e.opt = Unset ELSE e.ip # Unset

\* Whatever was changed outside Terraform before, an update that edits the list
\* leaves every declared entry in effect, and one that finds nothing to edit every
\* entry whose attributes the comparison of the code can all tell.  Of the others
\* lifecycle.go:661-662 and docs/resources/instance.md:147-150, 378-382 promise the
\* same, and the code does not keep it.
DeclaredInEffect ==
  [][settled' /\ Managed' =>
       \A i \in DOMAIN state' : resolved' # resolved \/ ~Loose(state'[i]) =>
         \E j \in DOMAIN resolved' : InEffect(state'[i], resolved'[j])]_vars

Pinned(e) == kind = "forward" \/ e.opt # Unset

\* A refresh after an update finds nothing changed in an entry that leaves
\* nothing open and shares its identity with no other: the plan is clean.
PinnedStays ==
  settled /\ Managed =>
    \A i \in DOMAIN state : Pinned(state[i]) /\ Count(state, state[i].id) = 1 =>
      /\ state[i].id \in Ids(resolved)
      /\ Observed(state[i], First(resolved, state[i].id)) = state[i]

\* An update for something else does not edit the list again, and so does not
\* restart the instance for it.
NoNeedlessEdit ==
  settled /\ Managed /\ (\A i \in Ids(state) : Count(resolved, i) = Count(state, i))
    => SameList(Merge(resolved, state, state), resolved)

=============================================================================
