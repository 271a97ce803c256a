# Verification of terraform-provider-lima

TLA+ models of the provider's own logic, checked with TLC on small instances,
and proofs with TLAPS of every safety property those runs check. The provider drives
[Lima](https://lima-vm.io) virtual machines by running `limactl`; everything it
knows and does goes through that command, one process at a time per step, while
Terraform calls it from several goroutines and users run `limactl` beside it.

## The system

| Component | Code | State it keeps | Operations | Works with |
|---|---|---|---|---|
| Keyed mutex | `internal/lima/locks.go` | a map from keys to entries (a one-token channel and a reference count) | `Lock`, the unlock it returns | every service call |
| Instance service | `internal/lima/lifecycle.go` | `sharedReady`; everything else is in the Lima home | `Create`, `EnsureRunning`, `EnsureStopped`, `Resize`, `SetProtection`, `Delete`, the polls they end with | the keyed mutex, the client |
| limactl client | `internal/lima/exec_client.go`, `commands.go`, `errors.go` | none | one method per command, and the classification of how it exits | `limactl`, contexts |
| Polling | `internal/lima/poll.go` | none | `Poll` | contexts |
| Declared entries | `lifecycle.go` (`mergeMounts` ...), `internal/provider/models.go` (`reconcileDeclaredEntries` ...) | the list in Terraform state, the list Lima resolved | merge, compare, reconcile | `Resize`, `Read` |
| Instance resource | `internal/provider/instance_resource.go`, `models.go` | Terraform state of one instance | `Create`, `Read`, `Update`, `Delete`, import | the instance service, Terraform core |
| Disk service, disk resource | `internal/lima/disk.go`, `internal/provider/disk_resource.go` | disks of the home, Terraform state | `Create`, `Resize`, `Delete` | the keyed mutex; instances attach disks |
| Sweep | `internal/lima/sweep.go` | a report | `Sweep` | both services |
| Rendering and sizes | `config.go`, `sizes.go` | none | `Render`, `mergeMaps`, `ParseSize`, `FormatSize`, `GiBFlagValue` | the resource (create, plan, refresh), `editArgs`, Lima's own merge |
| Plan modifiers and validation | `plan_modifiers.go`, `validators.go`, `validateInstanceConfig` | none | accept, replace, refuse | Terraform core |
| Versions, data sources, provider start-up | `version.go`, `*_data_source.go`, `provider.go` | none that changes | one-shot reads | |

What is hard in it:

- **Concurrency.** Terraform applies resources in parallel. Calls on one
  instance exclude each other by a keyed lock whose entries are created and
  dropped on the fly, with waiters that may be cancelled. The first create of a
  home is serialised against all others by a second lock, taken before the
  instance's.
- **Failure in the middle.** A call is a sequence of commands. Any may fail with
  or without its effect, and a deadline may kill any of them. `create` may fail
  after registering, `start` may fail although the VM runs, an edit may fail
  after the VM was stopped for it.
- **Answers that are stale.** A call inspects and then acts; lists are merged
  with what Terraform remembers of them; users change the instance between two
  applies.
- **One value, several spellings.** A size is text for Terraform, bytes for Lima
  and a floating-point number for a flag of limactl; a document is text for
  Terraform and a tree for the provider, and a template is merged into it after
  the provider is done with it.
- **Time.** Every wait is a poll under a context; the file system lags behind
  `create` and `delete`.

What makes each component correct:

- *Keyed mutex*: mutual exclusion per key; every waiter is served or leaves;
  nothing is left in the map.
- *Instance service*: a nil error means that everything asked for is so; an
  error tells the truth about what was done (what was registered, whether an
  edit is in effect); commands are only run in the states Lima accepts; a
  running VM is not stopped and a protected one not deleted without reason;
  every call returns and gives its locks back.
- *Declared entries*: after an update Lima has every declared entry once, none
  that is not declared any more, and everybody else's as they were; the next
  plan is clean.
- *Resource*: Terraform state says what is in effect, whichever call failed.
- *Disks*: no disk in use is deleted or resized.
- *Sweep*: what it leaves it names, and it never touches the default home.
- *Settings*: the last layer of a configuration that says something wins; a VM
  is stopped only for a size it does not have and gets it to the byte; any
  spelling is stable.

The hazards behind these properties are listed, with their lines, in
`PROJECT.json`.

## Modules

| Module | Models | Instances |
|---|---|---|
| `KeyedLock` | what the mutex promises: `holder[k]`, `Acquire`, `Release` | |
| `KeyedMutex` | `locks.go`, statement by statement | `MCKeyedMutex` |
| `KeyedMutexProofs` | theorems about `KeyedMutex` | |
| `LimaHome` | what each `limactl` command may do to an instance and how it may exit | |
| `Contract` | what a call of the service promises: the instance it leaves and the error it returns | |
| `AtomicService` | what the service promises to concurrent callers: each call happens at one instant | |
| `Lifecycle` | `lima.Service`, on top of `KeyedLock` and `LimaHome`; keeps `Contract`, implements `AtomicService` | `MCLifecycle`, `MCReturns`, `MCUsers` |
| `LifecycleSafety` | theorems about `Lifecycle`: types, locks, the shared home | |
| `LifecycleContract` | theorems about `Lifecycle`: every call keeps its contract; leftovers, first use, restarts, stops, deletions; the calls are atomic | |
| `InstanceResource` | the handlers of `lima_instance` and Terraform around them, on top of `Contract` | `MCInstanceResource` |
| `InstanceResourceProofs` | theorems about `InstanceResource` | |
| `DeclaredEntries` | merge and reconciliation of mounts and port forwards | `MCDeclaredEntries` |
| `DeclaredEntriesProofs` | theorems about `DeclaredEntries` | |
| `DiskResource` | `DiskService` and the handlers of `lima_disk`, on top of `KeyedLock` | `MCDiskResource` |
| `DiskResourceProofs` | theorems about `DiskResource` | |
| `Sweep` | `sweep.go`, on top of `Contract` | `MCSweep` |
| `SweepProofs` | theorems about `Sweep` | |
| `Sizes` | parsing, formatting and rounding of sizes | |
| `Rendering` | merging a configuration's layers, and Lima's merge with the template; a reference definition, path by path | |
| `Settings` | documents and sizes of one `lima_instance` through plan, create, edit, refresh and import, on top of `Sizes` and `Rendering` | `MCSettings` |
| `SettingsProofs` | theorems about `Sizes`, `Rendering` and `Settings` | |

### KeyedMutex

A step is one critical section of `m.mu` or one channel operation, which is how
finely goroutines interleave there. `locks` is the map, `token[e]` says that
entry `e`'s channel is full, `refs[e]` is its count; `pc`, `key` and `ent` are
where a goroutine is in `Lock` and what its closures captured; `ctxDone` is its
context. `Refuse` is the early return, `Join` and `Create` the lookup, `Acquire`
and `Abandon` the two branches of the `select`, `ReturnToken` and `Unlocked` the
two halves of the unlock function, with `DropRef` the `release` closure. When
both branches of the select are ready either may be taken, as in Go. Entries
are addresses, used again once no goroutine has them: a stale closure acting on
a new entry would be seen. `sync.Once` is not modelled: a goroutine unlocks once.

### LimaHome

`limactl` is not in the repository. Each command is an operator that gives the
set of outcomes `[vm, exit]` it may have on one instance. What it refuses is
what the repository's stateful fake (`internal/testutil/fake_limactl.go`)
refuses and its CLI contract documents; the error classes are those of
`ExecClient`. A fault is a failure the instance does not explain (`FaultKinds`);
each run says which may happen. `list_empty` is a listing that fails with
nothing on stdout, which `Inspect` takes for absence.

Data is abstracted to what the service branches on: a status, the protection
flag and a configuration that is one value. `creating` and `deleting` are what
Lima shows while the file system catches up.

### Lifecycle

One action per command, lock operation or access to `sharedReady`, named for the
operation and the step (`CreateRecheck`, `StartDegraded`, `EditRun`). Local
computation belongs to the step before it. `call` holds the arguments,
`err` the error to return, `registered` is `CreateResult.Registered`, `editing`
says that a resize is past its comparison and wraps start errors. A resize that
asks for no change (`Resize` with nothing set, `EnsureRunning`, `EnsureStopped`)
is the call `run`. `start_*` and `stop_*` steps are `startLocked` and
`stopLocked`, entered from several calls, and `AfterStart`, `AfterStop` say where
they return to. Deferred functions run in the code's order: `Unlock`, then
`SetupMark` and `SetupUnlock` for a create that holds the home.

A context may be done at any step (`Expire`), or kill a command with its effect
done (`Ends`); after that no command starts. Validation, optional in the code, always runs in
the model: a validation that succeeds is one that is skipped. `before` and
`maker` are history for the properties: the instance when the call got its lock,
and the create that registered it.

The mutex is taken from `KeyedLock`, which `KeyedMutex` is shown to implement.

### Contract

The abstract specification of the service: `Promised(c, v, w, e, registered,
late)` says whether a call `c` that found the instance `v` may leave `w` and
return `e`, one operator per operation, read from `lifecycle.go`. `Lifecycle`'s
invariant `ContractKept` says that every call does, when it is about to give its
lock back, for all failures, deadlines and interleavings of the run; so a model
of a caller can take a call for one step. It holds where inspections tell the
truth and no other user interferes during the call, and is as exact as that
allows: a success has one outcome, each error only those it can come with. What
`late` admits is what a killed command leaves open.

### AtomicService

`Contract` is about one call. What it means for goroutines that call at the same
time is `AtomicService`: a call begins, at one instant does to its instance all that
its answer says (`Perform`, anything `Promised` allows), and returns; or its context
ends while it waits for its turn, and nothing was done (`Refuse`). `Lifecycle`
implements it under the mapping `Found`, `Answered`: while a call is at work under
its instance's lock, the instance is as the call found it, and the command that
brings the call to its last step is the instant. A create that is refused its
instance's lock while it holds the home's answers a step before it returns, so it
too performs, and leaves the instance as it was.

### InstanceResource

One resource, its instance and Terraform. `want` is the user's configuration,
`tf` the state, `vm` the instance. A step is one call of the service and what the
handler computes up to the next: `Create` and `CreateRecord` (the state of a
failed create); `Unprotect`, `Resize`, `ResizeRecord` (`recordAppliedResize`),
`Protect`, `Get` of `Update`, with its local variable `protection` and
`recordProtection` in `Fails`; `Delete`; `Refresh` for `Read`, `ImportState`. A
call is answered by anything `Contract` promises. `late` is the handler's one
context: once it is done, every call that follows fails without effect, and the
read for a record gives the placeholder.

From Terraform and its plugin framework, which are not in the repository: `Apply`
compares configuration and state and picks a handler; a create that fails with
state written makes the resource tainted, and it is replaced, by a delete and a
create; an `Update` that fails without writing state keeps the prior state.
`config` is what `resizeRequest` compares (cpus, memory, disk), so `Resize` asks
for it only where plan and state differ; the lists, compared with the instance
itself, are in `DeclaredEntries`. A wish may have a flaw that only a handler finds
(`Flaws`): a `blank` one renders to nothing, which `Create` refuses before it calls
the service and `Update` only when everything is done (`Get`); an `unsized` one has a
size that is none, which `Update` refuses between clearing protection and the resize
(`ResizeRefused`) and limactl's validation in a create. A size that is known when it
is validated cannot be one. Neither refusal of `Update` records anything.
`last`, `base` and `ours` are history for the properties; `ours` is an instance that a
create of the resource made, except when the create ran out of time before the
service could tell whether it did. Anything that goes wrong and anything users do beside applying costs
one of `MaxTrouble`.

### DeclaredEntries

One list of one kind: `state` as Terraform remembers it, `resolved` as Lima has
it. `Drift` is anybody else's change, `Refresh` is `Read`, `Update(config)` is
the part of `Update` and `Resize` about the list, for any plan. An entry has an identity
(location; guest port and protocol), the option Lima may choose (mount point;
host port), a flag (writable), and an address (guest and host ip). The loops of
`mergeMounts` that search and remove are sets of positions: each configured entry
takes away the first of its identity that is left, so an identity configured n
times takes the first n (`Left`); the loop that appends is `Picked`, the entries at
the remaining positions in their order. A path's spelling is not modelled:
`samePath` is equality of identities. Read leaves the
lists alone while the instance is creating, broken or unknown, which is a
refresh not taken.

Whether an entry is in effect (`InEffect`) is measured by what it asks for and not by
the comparison of the code (`SameEntry`), which cannot tell an address, or a mount
point that is left open (`Loose`). `DeclaredInEffect` says what is so in spite of
that; what the documentation says beyond it is not so, and listed below.

### DiskResource

Resources for one disk. A disk's handlers are thin, so the service is not split
off: a step is one command or one operation of the disk's lock, `Create...`,
`Resize...` and `Delete...` of `DiskService`, `Get` for the read that ends an
`Update`, and `Refresh`, `ImportState` and the plan around them. `Plan` compares
configuration and state as the schema's plan modifiers do: a changed format
replaces, a smaller size fails the plan. `busy` says that a running instance
holds the disk; `Hold` and `LetGo` are that instance's starts and stops, at any
step, because the disk's lock is not the instance's. `Ends` lets a command fail
for no reason of the disk's, or be killed with its effect done or not. `format`
is what was asked for, and which one Lima stores is a choice. `before` is history
for the properties.

### Sweep

A step is one call the sweep makes: `List`, `Unprotect` and `Delete` of an
instance, `ListDisks`, `DeleteDisk`; `After` is the order of the phases,
`Cancelled` the look at the context before every name, `RefuseDefaultHome` the
first check. A call of `Service` may do what `Contract` promises of it, a call of
`DiskService.Delete` what `DeletesDisk` says. `todo` and `flagged` are the two
listings the sweep works from; `removed` and `failures` its report. Between its
calls users of the home create, protect, start, stop and remove (`User`,
`UserDisk`). `made` and `guarded` are history for the properties: what users put
there, and protected, since. The listing is taken in no particular order. Homes
are the three kinds `refuseDefaultHome` tells apart or must not.

### Sizes, Rendering, Settings

`Sizes` has a written size as tenths and a unit. `ParseSize` cuts off a fraction
of a byte and converts to an integer of `IntBits` bits, whose overflow depends on
the processor (`Overflow`); `GiBFlagValue` compares the size with the nearest
floating-point number of `MantissaBits` bits, which is what formatting and
parsing a float32 amounts to, and refuses where they differ. Float64, in which
`ParseSize` multiplies, is taken to be exact: below 2^50 bytes, a petabyte, the
product's error is less than what is cut off can tell.

`Rendering` has a document as a function from the paths in it to their nodes: a
path is a sequence of keys, and a mapping is a node whose entries are the nodes at
the paths one key longer. The code's recursion over nested maps is then one
definition over paths (`MergeMaps`, `MarkEmptySequencesAsClears`): a path of the
lower document stays unless something on the way to it, in the upper one, is not a
mapping. It is the same tree, and one that can be reasoned about at any depth.
`Resolve` is Lima's merge of the template into a finished document, as
`docs/development/lima-cli-contract.md` (12.11) records it. `Says`, `Leaf` and
`Expected` define the same result one path at a time, without merging anything.
Documents are those of Lima's schema (`InSchema`): where the schema has a mapping a
document has one, null or an empty sequence, and `memory` and `disk` are sizes. Lima
refuses any other, and what it would make of one is recorded nowhere.

`Settings` puts them in the life of one instance whose limactl works: `Valid` is
what validation lets through; `Plan` is Terraform's comparison with
`DiskGrowOnly` and `ReplaceOnRealChange`; `Create` renders and resolves; `Asked`
is `resizeRequest`, `FilterToActualChanges` its second filter; `Stop` and `Edit`
or `EditRefused` are the halves of a resize, because a size no flag can carry, or
a disk Lima will not shrink, is refused only once the VM is stopped; `Refreshed`
keeps a spelling while it means what Lima reports; `ImportState` records one
spelling. An update renders again at its end (`Rendered`): a document that sets
nothing, which after an import may be declared without a replacement, fails there on
every apply and is never written to state. `User` edits and stops the instance. Failures and the other attributes
are `InstanceResource`'s.

## Runs

| Run | Shows | Bounds |
|---|---|---|
| `keyed_mutex` | type invariant, mutual exclusion, entries alive while referred to, tokens conserved, no leak; implements `KeyedLock`; every waiter leaves its wait | 3 goroutines, 2 keys, 3 entries |
| `lifecycle` | results and errors tell the truth, of leftovers too; inspections stay true until acted upon; the calls are atomic (implements `AtomicService`); no needless stop, no unasked restart, no deletion of the protected | 2 goroutines, 1 instance, 2 configurations, every call, every fault except of listings, deadlines at any step |
| `returns` | every call returns; first-use initialisation never twice at once; the home's lock does not serialise later creates | 2 goroutines, 2 instances, creates, stop and delete, a boot that breaks, deadlines |
| `users` | every call returns by its deadline whatever users do and however often listings fail | 1 goroutine, 1 instance, users that create, start, stop, delete |
| `instance_resource` | what took effect is in state, whichever call failed next to it; what differs shows in the next plan; success means a clean plan; no instance of a create that could be told of it is forgotten; applying again converges | 1 resource, 2 configurations, every start and protect, every flaw, 2 failures, deadlines, outside changes or changes of configuration |
| `declared_entries` | an update leaves every declared entry once, in effect if the list is edited or the entry is one the code compares whole, none that is not declared any more, everybody else's as they were; no needless edit, clean plan | lists of up to two entries over two identities, one shared with the template, and one inherited entry |
| `disks` | results tell the truth, and a disk in use refuses only what would change it; applying again converges | 2 resources, one of which may have the disk in state at first, 2 sizes, 1 format, 2 failures, deadlines, starts of instances, imports or changes of configuration |
| `sweep` | what a sweep leaves, it names; every refusal has a cause outside the sweep; the default home is untouched however it is spelled | 2 instances, a disk on each, in every state; 2 failures, deadlines or acts of users; a home left out, spelled with a dot, and another |
| `settings` | the last layer wins through Lima's merge; a VM is stopped only for a size it does not have, and gets exactly what was asked; a refresh shows exactly the drift there is; applying again converges | 1 instance; 6 sources under 7 kinds of override or a size, and 21 pairs of sizes on one of them; 2 changes of mind, imports or outside edits; `Kilo` = 4, 4 bits of mantissa, 12 bits of integer |
| `leftover`, `protection_unrecorded`, `disk_import` | violations, see below | as the run of the same module |

Why these bounds are enough to be interesting: three goroutines give a holder, a
waiter and one that arrives or is cancelled while the entry changes hands, and
with fewer entries than a goroutine could need addresses are reused. Calls on
different instances share only `sharedReady`, the home's lock and the keypair,
which is what `returns` has two instances for: two creates pass the first
check of `sharedReady` together, and one is held up by the other; on one
instance two goroutines are enough for one to act between another's inspection
and command. Two configurations make a difference or none. Two entries over two
identities, one of them inherited, give every combination of declared before,
declared now, inherited and drifted that a merge distinguishes for an entry,
next to another one. A resource meets two troubles: an update starts from any
state and any wish, so one makes it fail, and another falls within its handling
(a failed read, a deadline) or after it. (`instance_resource` is the largest run:
151,000 states, two and a half minutes.) A disk's two troubles are a killed resize and an
instance that takes the disk before the retry; a second resource, which only a
mistake or an import gives the same disk, is what its lock is for. A sweep's two troubles are enough for an instance to be
protected after the listing and for its disk to be refused after that. With
`Kilo` = 4 a GiB is 64 bytes, and 4 bits of mantissa give sizes of each kind a
flag distinguishes: exact, rounded down, rounded up, and halfway between two; a
size of each kind, one that overflows and one below a GiB are among the wishes.
Nothing else is a counter, so no other bound cuts a behaviour off.

In `lifecycle` and `returns` listings do not fail and no user interferes: with
either, what the service was told is not true, and the properties could not
hold. `users` has both, for what still must.

### Fairness

`KeyedMutex!FairSpec`: a goroutine that can run does (weak fairness of its
steps, unlocking included: every caller defers its unlock), and a goroutine
waiting on a channel is not passed over for ever (strong fairness of `Acquire`:
the runtime wakes a channel's waiters in the order they came). Nobody is obliged
to call or to be cancelled. `Lifecycle!FairSpec`: goroutines run, every command
ends, the file system catches up, and a lock that is free again and again is
acquired (`WaiterServed` is what earns this). `DeadlineSpec` adds that contexts
expire: the resource gives every operation a deadline
(`instance_resource.go:556-561`).

`InstanceResource!FairSpec`: handlers run to their end, which is `CallsReturn`;
the user who has something to apply applies (weak fairness of `Apply`), with a
refresh again and again (strong fairness of `Refresh`: every plan begins with
one). Users' acts and failures have no fairness and are bounded: convergence is
about what happens after the last of them. `DiskResource!FairSpec` is the same
for disks, with the lock's strong fairness; that an instance lets the disk go is
not assumed. `Settings!FairSpec` is the same for documents and sizes. The sweep has
no fairness: its properties are about what it did when it ends.

### Violations

Three statements of the repository's documentation and comments that the code does
not keep; each run checks one statement and finds the counterexample.

- `leftover`: "if `limactl create` fails after Lima has already registered the
  instance, the provider writes it to Terraform state". Not when it failed
  because its context ended: the check for a leftover runs under the same
  context.
- `protection_unrecorded`: "recordProtection writes it into state on the way out"
  (`instance_resource.go:716-721`). Not on the two ways out that are the handler's
  own refusals: an update that clears protection and whose configuration then renders
  to nothing (804-808) leaves state claiming the protection. The other one (749-753)
  needs a size that was unknown when it was validated, so the run leaves it out.
- `disk_import`: "a matching configuration plans clean". Not one that sets the
  format: import leaves it unset, and the change from unset to set replaces, so
  the plan deletes the disk that was imported.

Disagreements met while modelling that no run has, because each is visible in
one comparison or one call:

- `lifecycle.go:201`: when another user creates the instance after the collision
  check, `Create` returns the collision together with `Registered`, and the
  resource records an instance that is not its own.
- `lifecycle.go:769`: the comparison before an edit takes a mount point that the
  configuration leaves open for equal to any. One that drifted is reported by every
  refresh and skipped by every update, though `lifecycle.go:661-662` says that "a mount
  that drifted is simply restored by the next apply" (and so
  `docs/resources/instance.md:378-382`). `DeclaredInEffect` leaves such an entry out
  where the update has nothing else to edit.
- `lifecycle.go:784-803`: the comparison leaves out `guest_ip` and `host_ip`. A change
  of these alone is recorded and not made, though `docs/resources/instance.md:150`
  says that changing `port_forwards` "is applied in place". `DeclaredInEffect` leaves
  this out in the same way.
- `lifecycle.go:668`: a previously configured mount that Lima no longer has is skipped
  and the edit is made, for the reason given at `lifecycle.go:651-662`;
  `docs/development/lima-cli-contract.md:713-716` says that then "the provider refuses
  the in-place edit and directs the user to `terraform apply -replace=...` rather than
  guessing". `EntriesAsDeclared` says what the edit comes to.
- `plan_modifiers.go:119`: the text of `config` is compared and nothing normalises it,
  so another spelling of the same document replaces the instance;
  `docs/resources/instance.md:136` says "stored normalised, so whitespace and key-order
  changes do not produce a diff".
- `sweep.go:85-88` says "unprotect unconditionally rather than only when
  Protected is set"; line 89 asks whether it is set. `RefusalsExplained` says
  what holds instead.
- Going from `template` to `config` changes neither between two known values, so
  nothing is replaced, though the documentation says it forces a new instance.
- A disk that is taken out of the configuration and put back smaller passes
  `DiskGrowOnly`; Lima refuses it, after the VM was stopped. So does a size that
  no flag can carry: `editArgs` is first asked after the stop.
- A size in `config_overrides` over another one that is typed: the next apply
  that finds them different edits the instance to the typed one.
- A document that sets nothing is refused when it is rendered, which for a
  replacement is after the old instance was deleted, and for an imported instance at
  the end of every update, so that no apply ever succeeds. It is a case of `NeedsUser`
  in `Settings` and `InstanceResource`.

The passing runs say what does hold: a leftover is reported while the deadline is
not over (`LeftoverReported`), protection is recorded whichever call fails
(`EffectRecorded`), what an update edits is in effect (`DeclaredInEffect`), and what
an entry pins is stable (`PinnedStays`). One leftover is reported and still cannot be removed: a create
that runs out of time after protecting the instance leaves a tainted resource,
whose destroy and next apply both begin with a delete that the protection
refuses. It is a case of `NeedsUser`.

## Proofs

Every theorem holds for every value of its module's constants that satisfies the
module's assumptions: any goroutines, instances, configurations, lists, faults and
amounts of trouble. Each safety property and each refinement of a passing run is the
statement of a theorem. So are the type invariants of `Lifecycle`, `DiskResource` and `Sweep`,
which no run repeats. In each module the invariant was first checked with TLC on
the run's instance, then proved.

`KeyedMutexProofs` proves, for every number of goroutines, keys and entries,
the type invariant, the four safety invariants of `keyed_mutex`, and that
`KeyedMutex` implements `KeyedLock`. Assumed: the set of goroutines is finite,
`NoProc` and `NoEntry` are not members of their sets.

Mutual exclusion is not inductive. It holds because both holders are on the
entry the map has for the key (`LiveEntry`) and that entry has one token
(`TokenConserved`). `LiveEntry` in turn needs the count to be exact: the map
entry is deleted when `refs` drops to zero, which must mean that nobody else
refers to it. So the inductive invariant says that `refs[e]` is the cardinality
of the set of goroutines that refer to `e`, that different keys have different
entries, that a token and a holder exclude each other and one of them is there.
The proof has one step per action, and cardinality facts as lemmas (adding and
removing a referrer). The refinement shows that `Acquire` and `ReturnToken` are
the abstract `Acquire` and `Release` and that every other step leaves `holder`
alone.

The service takes two modules, the second on top of the first.

`LifecycleSafety` proves `TypeOK` and `HomeLockPassedThrough`, whatever limactl
answers and whoever else uses the home. `SafeInv` says at which steps a goroutine
holds which lock and at which it cannot have anything to report; `sharedReady`,
once set, keeps creates from going through the home's lock. What the second
module builds on is the framing of a command: one step changes its own goroutine,
its own instance, and nobody else's lock (`CommandFrame`).

`LifecycleContract` proves `ContractKept` and `InspectionStillTrue`. `ContractKept`
speaks only of the end of a call; `CallInv` follows a call there, from the instance
it found when it took its lock to the instance there is now, one predicate per
operation and step (`Local`). A command of the call leads from one `Local` to the
next (`CommandKeeps`, one lemma per step); the file system catching up and a context
ending leave `Local` alone (`LocalSettled`, `LocalLate`); every other call is on
another instance, because the lock of this one is taken (`LocksApart`). All
theorems of this module have the hypothesis `Undisturbed`: no user
acts and no listing fails. It is what `Contract` presupposes, the runs `lifecycle`
and `returns` satisfy it, and without it the contract is not kept: a listing that
fails without output makes the service believe that an instance is gone.

Its second half proves the rest of `lifecycle` and `returns`. `LeftoverReported`
needs to know who made an instance until the create that did returns (`MakerInv`).
`OneInitialisation` needs that without a keypair a create holds the home's lock
until it has made one (`KeypairInv`). `RestartOnlyAfterEdit`, `NoNeedlessStop` and
`OnlyUnprotectedDeleted` are about steps, and follow from `CallInv` by which step
can change an instance at all (`WhoChanges`).

Its last theorem, `CallsAreAtomic`, is the refinement of `AtomicService`, step by
step. A command that does not end its call changes an instance only behind that
call's lock, where `Found` does not look; one that does is `Perform`, with
`ContractKept`'s invariant as its evidence, and shows its effect on no other instance
(`CommandAtomic`). Taking the lock records the instance as it is, so nothing seems to
happen (`LockAtomic`); giving it back is `Return` or, for a create that holds the
home's lock too, goes unnoticed (`OwnAtomic`). `FoundFacts` is what carries it: an
instance is shown as other than it is only while the one call that has its lock is
at work. The file system's settling is seen only on an instance nobody works on
(`BesideAtomic`).

`InstanceResourceProofs` proves the type invariant and the four safety properties of
`instance_resource`, for every answer `Contract` allows; lemmas about `Promised` say
what each error of each call leaves behind. `UpdateInv` follows an update that
nobody disturbs, handler step by handler step: what state still says of the
instance, what the instance has by now, and what the local variable `protection`
stands for; where the handler refuses, nothing is said of the protection in state, and
`NothingHidden` holds because state keeps the old one, which differs from the wish
wherever the update changed it. `OursInv` follows an instance that a create left behind until it is
recorded. Assumed: the acts of users are the five modelled, and `Gone` is neither a
configuration nor a state.

`DiskResourceProofs` proves the type invariant and the contract of `DiskService`,
for any number of resources that have the same disk. `DiskInv` is `CallInv` for
disks, with a difference: an instance may take or let go of the disk at any step, so
nothing a call learned of that survives its next command. Assumed: there is one
lock key, the disk's, and sizes are positive.

`DeclaredEntriesProofs` proves all five properties of `declared_entries`, for lists
of any length and any change made outside Terraform. The lemmas about `Picked` are
the core: positions have ranks from one to how many they are (a pigeonhole
argument, no induction), so what is picked at two sets of positions that correspond
in order is the same (`SamePicked`). An update that keeps the entries at positions
`K` then keeps, in order, every subset of them, which is `OthersKept`; counting an
identity's positions gives `EntriesAsDeclared`. `DeclaredIsInEffect` needs that the
merged list begins with the declared one, so that an edit fills it in and a comparison
that finds nothing to edit has compared every entry of it. The other two rest on
`PrefixInv`: while the list is settled Lima has the declared entries first, in the
order they are declared. Assumed: what may be configured, and what the template contributes,
are lists of entries, and Lima leaves nothing in an entry open.

`SweepProofs` proves the type invariant and all properties of the run `sweep` for any instances,
disks, attachments, first states of the home and amount of trouble. Assumed: an
instance and a disk have different names, `NoName` names no instance, each disk
is attached to an instance (`SweepAssumption`), and the calls of the service
keep `Contract`, of which two lemmas take what a sweep relies on: a delete that
returns nil leaves nothing listed, and an unprotect that returns nil leaves the
instance unprotected.

None of the properties is inductive: they speak of the end of a sweep or of one
refusal. `CoverInv` follows the two listings on the way there: whatever was in
the home when its kind was listed is gone, has a failure, or is still to come,
until a user puts it there anew. `ProtectionInv` says why an instance still to
come may be protected: the listing said so and it has not been tried yet, a user
protected it since, or unprotecting it failed. `PhaseInv` keeps instances and
disks apart: by the time disks are listed every instance that was there and is
not gone has a failure, which is what explains a disk in use. `HomeInv` says
that the phases which change anything are reached only in a home the sweep may
touch. There is one lemma per action; a user's acts and what the file system
catches up with share one (`InstanceChangeIInv`), since all that matters is that
they list nothing and protect nothing that is not accounted for.

`SettingsProofs` proves the three safety properties of `settings` and its type
invariant, for any documents, templates and texts, paths of any depth, and units,
integers and flags of any width. Sizes: the unit that `FormatSize` chooses divides,
so what it writes is parsed to the same bytes (`FormatRoundTrips`), from which
`RefreshesShowDrift` follows, and a flag carries what was asked for or is refused
(`FlagIsExact`), from which `EditsAreExact` does. Documents: what one says of a path
is one node of it, the first that is no mapping (`Says`). `MergeSays`, `MarkSays` and
`ResolveLeaf` say what each of the three operations does to that; together they are
`LayersResolve`, about any three layers and any path, of which `TheLastLayerWins` is
the case of an instance being created. `TypeOK` is inductive as it stands; what needs
an argument is that an instance has sizes at all, which is the same `LayersResolve`
and the schema. Assumed: the wishes are configurations, Lima's defaults and the sizes
others choose fit an integer, the texts and templates are documents of the schema
(`DocumentsAssumption`), the keys looked at are keys, and `Gone` is neither a state
nor an instance.

Only model-checked:

- liveness (`WaiterServed`, `CallsReturn`, `Converges`): the provers do not reason
  about fairness. That `AtomicService`'s calls also return is `CallsReturn`;
- which sizes a flag refuses. The proofs need only that it never rounds silently;
  that it carries every size of `MantissaBits` bits (`Carried`) is part of
  `Converges`, and the provers know too little of powers of two for more.

## Not modelled

- Construction of command lines, marshalling of documents and messages; parsing
  of JSON and of stderr: text. What an exit is classified as is in `LimaHome`.
- Validators of single strings, plain mode, socket-path lengths, data sources,
  provider start-up, version check: no state, or read once.
- Homes of a sweep that are relative or lead through symbolic links, and disks
  whose lock outlived its holder.
- A complete `config` that names a `base:` of its own and is then overridden by
  a null: what Lima makes of the two together is not recorded anywhere.
- `VerifyTemplate`: an advisory answer about images.
- Polling intervals: a poll is a sequence of inspections.
- A listing that fails without output makes `Read` drop an instance that is
  there (`exec_client.go:258-271`); the properties of `InstanceResource` are
  about inspections that tell the truth. `verifyAdoptedTemplate` only warns.
- Attached disks in a resize: compared and replaced as a whole, one more part of
  what makes two configurations differ.
- More than one provider process on a home is a user of the home (`User`).

## Plan

Done, in the order of importance: the mutex and its proofs, the service and its
contract, the resource on top of it, the declared entries, the disks, the sweep,
documents and sizes; proofs of every safety property of all of them; the service's
calls as atomic ones.

What would come next: a resource whose update is interleaved with the calls of
another provider process, which the provider does not claim to handle; the service's
contract in a home that users change between a call's commands, where each promise
would have to say what the user did.
