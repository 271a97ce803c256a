------------------------------ MODULE Settings ------------------------------
(***************************************************************************)
(* What one lima_instance is made of, from the user's configuration through *)
(* Terraform state to Lima and back: the document it is created from, its  *)
(* memory and disk, and what Terraform plans when they change.             *)
(*                                                                         *)
(* An attribute is kept as it is written: a size is a number and a unit, a *)
(* YAML text stands for a document, and two texts may stand for one.       *)
(* limactl works; failures are InstanceResource's, lists DeclaredEntries'. *)
(* The instance always is to run.                                          *)
(***************************************************************************)
EXTENDS Sizes, Rendering

CONSTANTS Wishes,     (* the configurations a user may write                *)
          Templates,  (* Lima's templates, by name                          *)
          Parsed,     (* the document a YAML text stands for                *)
          Default,    (* the sizes Lima chooses where nothing sets them     *)
          Observable, (* the sizes an instance may be given by others       *)
          Null,       (* an attribute that is not set                       *)
          Gone,       (* no resource in state, no instance                  *)
          MaxActs     (* changes of mind and acts of other users at most    *)

SizeAttrs == {"memory", "disk"}
TextAttrs == {"template", "config", "config_overrides"}

Configurations ==
  [template : DOMAIN Templates \cup {Null}, config : DOMAIN Parsed \cup {Null},
   config_overrides : DOMAIN Parsed \cup {Null},
   memory : Sizes \cup {Null}, disk : Sizes \cup {Null}]
States == [settings : Configurations, start : BOOLEAN]

ASSUME SettingsAssumption ==
  /\ Wishes \subseteq Configurations
  /\ \A a \in SizeAttrs : Default[a] \in 1..MaxInt
  /\ Observable \subseteq 1..MaxInt /\ MaxActs \in Nat
  /\ Gone \notin States

ASSUME KeysAssumption ==
  {"base", "memory", "disk", "mounts", "ssh", "port", "agent"} \subseteq Keys

\* The settings that are looked at, by where they are in a document.
Paths == {<<"memory">>, <<"disk">>, <<"mounts">>, <<"ssh", "port">>, <<"ssh", "agent">>}

SizeNode(node) ==
  \/ IsNull(node) \/ IsEmptySeq(node)
  \/ node.kind = "scalar" /\ node.value \in Sizes /\ ValidSize(node.value)

\* Lima takes documents of its own schema only, and a size only where it is one.
InSchema(doc) ==
  /\ IsDocument(doc)
  /\ \A path \in Paths : Fits(doc, path)
  /\ \A path \in {<<a>> : a \in SizeAttrs} \cap DOMAIN doc : SizeNode(doc[path])

ASSUME DocumentsAssumption ==
  /\ \A c \in DOMAIN Parsed : InSchema(Parsed[c])
  /\ \A t \in DOMAIN Templates : InSchema(Templates[t])

VARIABLES
  want,  (* the user's configuration                                       *)
  tf,    (* Terraform state                                                *)
  vm,    (* the instance: its document, its sizes, whether it runs         *)
  pc,    (* "edit" once an update has stopped the instance                 *)
  acts   (* what users may still do                                        *)

vars == <<want, tf, vm, pc, acts>>

Idle == pc = "idle"
Set(w, a) == w[a] # Null
Recorded(w) == [settings |-> w, start |-> TRUE]

-----------------------------------------------------------------------------
(* Planning.                                                               *)

\* Mutant: a size may come to nothing.
ValidUnsized(w) ==
  /\ ~(Set(w, "template") /\ Set(w, "config"))
  /\ \E a \in SizeAttrs \cup TextAttrs : Set(w, a)

\* ValidateConfig: one source at most, sizes that are sizes, and anything at all.
Valid(w) ==
  /\ ~(Set(w, "template") /\ Set(w, "config"))
  /\ \A a \in SizeAttrs : Set(w, a) => ValidSize(w[a])
  /\ \E a \in SizeAttrs \cup TextAttrs : Set(w, a)

\* DiskGrowOnly.
Shrinks(old, new) ==
  Set(old, "disk") /\ Set(new, "disk") /\ ParseSize(new.disk) < ParseSize(old.disk)

\* ReplaceOnRealChange: an attribute that is set where it was not is adopted, one
\* that is not set any more is left alone.
Replaces(old, new) ==
  \E a \in TextAttrs : Set(old, a) /\ Set(new, a) /\ old[a] # new[a]

Plan ==
  IF tf = Gone THEN "create"
  ELSE IF Shrinks(tf.settings, want) THEN "refused"
  ELSE IF Replaces(tf.settings, want) THEN "replace"
  ELSE IF tf # Recorded(want) THEN "update"
  ELSE "clean"

-----------------------------------------------------------------------------
(* Creating.                                                               *)

\* The layers of a configuration: toRenderRequest.
Base(w) ==
  IF Set(w, "config") THEN Parsed[w.config]
  ELSE IF Set(w, "template") THEN [p \in {<<"base">>} |-> Scalar(w.template)]
  ELSE EmptyDocument
Typed(w) == [p \in {<<a>> : a \in {b \in SizeAttrs : Set(w, b)}} |-> Scalar(w[p[1]])]
Overrides(w) == IF Set(w, "config_overrides") THEN Parsed[w.config_overrides] ELSE EmptyDocument

Document(w) == Render(Base(w), Typed(w), Overrides(w))
Template(w) == IF Set(w, "template") THEN Templates[w.template] ELSE EmptyDocument

\* The size a resolved document has, Lima's own where it has none.
SizeIn(doc, a) ==
  LET node == Leaf(doc, <<a>>) IN IF node = Silent THEN Default[a] ELSE ParseSize(node.value)

Instance(doc) ==
  [doc |-> doc, memory |-> SizeIn(doc, "memory"), disk |-> SizeIn(doc, "disk"), running |-> TRUE]

\* The instance limactl creates from the rendered document.  One that sets nothing
\* is refused.
Created ==
  [w \in {w \in Wishes : ConfiguresAnything(Document(w))} |->
     Instance(Resolve(Document(w), Template(w)))]

Instances ==
  [doc : {EmptyDocument} \cup {Created[w].doc : w \in DOMAIN Created},
   memory : 1..MaxInt, disk : 1..MaxInt, running : BOOLEAN]

ASSUME GoneAssumption == Gone \notin Instances

\* A name that is taken is refused too.
Create ==
  /\ Idle /\ Plan = "create"
  /\ vm = Gone /\ want \in DOMAIN Created
  /\ vm' = Created[want]
  /\ tf' = Recorded(want)
  /\ UNCHANGED <<want, pc, acts>>

\* The first half of a replacement; what follows is a create.
Replace ==
  /\ Idle /\ Plan = "replace"
  /\ vm' = Gone /\ tf' = Gone
  /\ UNCHANGED <<want, pc, acts>>

-----------------------------------------------------------------------------
(* Updating.                                                               *)

\* resizeRequest: the sizes that plan and state do not agree on, in bytes.
Asked ==
  {a \in SizeAttrs :
     /\ Set(want, a)
     /\ Set(tf.settings, a) => ParseSize(want[a]) # ParseSize(tf.settings[a])}

\* filterToActualChanges.
FilterToActualChanges(asked) == {a \in asked : ParseSize(want[a]) # vm[a]}

Needed == FilterToActualChanges(Asked)

\* An update renders the document again when all is done; where that is refused it
\* fails, and state stays as it was.
Rendered == IF want \in DOMAIN Created THEN Recorded(want) ELSE tf

\* Nothing to change in the instance, which is started if it is down.
Update ==
  /\ Idle /\ Plan = "update" /\ Needed = {}
  /\ vm' = [vm EXCEPT !.running = TRUE]
  /\ tf' = Rendered
  /\ UNCHANGED <<want, pc, acts>>

Stop ==
  /\ Idle /\ Plan = "update" /\ Needed # {}
  /\ vm' = [vm EXCEPT !.running = FALSE]
  /\ pc' = "edit"
  /\ UNCHANGED <<want, tf, acts>>

\* editArgs refuses a size the flags cannot carry, Lima a smaller disk.
Editable ==
  /\ \A a \in Needed : GiBFlagValue[ParseSize(want[a])] # Refused
  /\ "disk" \in Needed => GiBFlagValue[ParseSize(want.disk)] >= vm.disk

Edit ==
  /\ pc = "edit" /\ Editable
  /\ vm' = [vm EXCEPT
       !.memory = IF "memory" \in Needed THEN GiBFlagValue[ParseSize(want.memory)] ELSE @,
       !.disk = IF "disk" \in Needed THEN GiBFlagValue[ParseSize(want.disk)] ELSE @,
       !.running = TRUE]
  /\ tf' = Rendered
  /\ pc' = "idle"
  /\ UNCHANGED <<want, acts>>

\* The instance stays down, and state as it was.
EditRefused ==
  /\ pc = "edit" /\ ~Editable
  /\ pc' = "idle"
  /\ UNCHANGED <<want, tf, vm, acts>>

-----------------------------------------------------------------------------
(* Reading.                                                                *)

\* Mutant: what Lima reports is recorded in one spelling.
ObservedSizeCanonical(configured, bytes) ==
  IF configured = Null \/ bytes <= 0 THEN configured ELSE FormatSize(bytes)

\* The spelling is kept while it means what Lima reports.
ObservedSize(configured, bytes) ==
  IF configured = Null \/ bytes <= 0 THEN configured
  ELSE IF ParseSize(configured) = bytes THEN configured
  ELSE FormatSize(bytes)

\* applyObservedConfig.
Refreshed ==
  [settings |-> [tf.settings EXCEPT !.memory = ObservedSize(@, vm.memory),
                                    !.disk = ObservedSize(@, vm.disk)],
   start |-> vm.running]

Refresh ==
  /\ Idle /\ tf # Gone
  /\ tf' = Refreshed
  /\ UNCHANGED <<want, vm, pc, acts>>

\* What made the instance is not recorded anywhere and stays unset.
ImportState ==
  /\ Idle /\ tf = Gone /\ vm # Gone
  /\ acts > 0 /\ acts' = acts - 1
  /\ tf' = [settings |-> [a \in SizeAttrs \cup TextAttrs |->
                            IF a \in SizeAttrs THEN FormatSize(vm[a]) ELSE Null],
            start |-> vm.running]
  /\ UNCHANGED <<want, vm, pc>>

-----------------------------------------------------------------------------
(* Users.                                                                  *)

ChangeWant ==
  /\ Idle
  /\ acts > 0 /\ acts' = acts - 1
  /\ want' \in {w \in Wishes : Valid(w)} \ {want}
  /\ UNCHANGED <<tf, vm, pc>>

\* limactl stop, start and edit.
User ==
  /\ Idle /\ vm # Gone
  /\ acts > 0 /\ acts' = acts - 1
  /\ \/ vm' = [vm EXCEPT !.running = ~@]
     \/ \E n \in Observable : vm' = [vm EXCEPT !.memory = n] /\ n # vm.memory
     \/ \E n \in Observable : vm' = [vm EXCEPT !.disk = n] /\ n > vm.disk
  /\ UNCHANGED <<want, tf, pc>>

-----------------------------------------------------------------------------

\* Before the first apply, with an instance to import or without.
Init ==
  /\ want \in {w \in Wishes : Valid(w)}
  /\ tf = Gone
  /\ vm \in {Gone} \cup {[doc |-> EmptyDocument, memory |-> n, disk |-> m, running |-> TRUE]
                           : n \in Observable, m \in {Default.disk}}
  /\ pc = "idle"
  /\ acts = MaxActs

Apply == Create \/ Replace \/ Update \/ Stop
Change == Edit \/ EditRefused

Next == Apply \/ Change \/ Refresh \/ ImportState \/ ChangeWant \/ User

Spec == Init /\ [][Next]_vars

(***************************************************************************)
(* Updates run to their end; the user applies while there is something to  *)
(* apply, and every apply begins with a refresh.                           *)
(***************************************************************************)
FairSpec == Spec /\ WF_vars(Change) /\ WF_vars(Apply) /\ SF_vars(Refresh)

-----------------------------------------------------------------------------
(* Properties.                                                             *)

\* Whatever document an instance has was rendered from a configuration, or is
\* nobody's; sizes are positive and fit an integer, and an update that has stopped
\* its instance still has one to start.
TypeOK ==
  /\ want \in Wishes /\ Valid(want)
  /\ tf \in States \cup {Gone}
  /\ vm \in Instances \cup {Gone}
  /\ tf # Gone => vm # Gone
  /\ pc \in {"idle", "edit"}
  /\ pc = "edit" => tf # Gone /\ ~vm.running
  /\ acts \in 0..MaxActs

\* In an instance that was just created every setting has the value of the last
\* layer that says anything about it, a removal included, though the template's
\* layer is merged in last (config.go:253-276, docs/resources/instance.md:56-83).
LastLayerWins ==
  [][tf = Gone /\ vm = Gone /\ vm' # Gone =>
       \A p \in Paths :
         Leaf(vm'.doc, p)
           = Expected(Template(want), <<Base(want), Typed(want), Overrides(want)>>, p)]_vars

\* A running instance is stopped only for a size that is not, in bytes, the one
\* it has: not for another spelling, nor for a value state does not know, as
\* after an import (lifecycle.go:622-629, instance_resource.go:1123-1126).  What
\* it then gets is that size to the byte or, if a flag cannot carry it, no
\* change: never the nearest one (sizes.go:91-93).
OnlyExactEdits ==
  [][/\ Idle /\ pc' = "edit" =>
          \E a \in SizeAttrs : Set(want, a) /\ ParseSize(want[a]) # vm[a]
     /\ pc = "edit" =>
          \A a \in SizeAttrs : vm'[a] # vm[a] => Set(want, a) /\ vm'[a] = ParseSize(want[a])]_vars

\* While state is what the user wrote, a refresh changes it exactly if the
\* instance is down or has another size: it hides no drift behind a rounded size
\* and makes none of a spelling (models.go:314-329, sizes.go:57-61).
RefreshShowsDrift ==
  Idle /\ tf = Recorded(want) =>
    (Refreshed = tf
       <=> /\ vm.running
           /\ \A a \in SizeAttrs : Set(want, a) => vm[a] = ParseSize(want[a]))

\* The plan is clean, rightly.
Clean ==
  /\ Idle /\ Plan = "clean" /\ vm.running
  /\ \A a \in SizeAttrs : Set(want, a) => vm[a] = ParseSize(want[a])

\* A whole number of MantissaBits bits, times a power of two.
Carried(bytes) == \E k \in 0..IntBits : bytes % 2 ^ k = 0 /\ bytes \div 2 ^ k < 2 ^ MantissaBits

\* What only the user can resolve: a disk that would shrink, a size the flags
\* cannot carry, an instance that is to be imported, and a document that sets
\* nothing, with which no create and no update succeeds.
NeedsUser ==
  \/ tf # Gone /\ Set(want, "disk") /\ ParseSize(want.disk) < vm.disk
  \/ tf # Gone /\ \E a \in SizeAttrs :
       /\ Set(want, a) /\ ParseSize(want[a]) # vm[a]
       /\ ~Carried(ParseSize(want[a]))
  \/ tf = Gone /\ vm # Gone
  \/ want \notin DOMAIN Created /\ Plan # "clean"

\* However sizes are spelled, changed, imported and edited by others, applying
\* again ends with a clean plan and exactly the sizes that were asked for, never
\* with one that shows a change for ever (plan_modifiers.go:15-27).
Converges == <>[]Clean \/ <>[]NeedsUser

=============================================================================
