# Verification of the Cluster API provider for Vultr

The provider is a Kubernetes controller manager. It reconciles `VultrCluster`,
`VultrMachine` and `VultrBareMetalMachine` objects against the Vultr API: a load
balancer per cluster, a VM or a bare metal server per machine. Reconciles are
level-triggered, run on informer caches that lag, talk to two remote systems
whose calls may fail with or without effect, and may be cut short by a crash at
any point. Whether a server is leaked, made twice or deleted by mistake depends
on the order of a few remote calls; that is what these modules are about.

## Inventory

| Part | State | Operations | Hard behaviour | What makes it correct |
|---|---|---|---|---|
| VultrMachine controller (`internal/controller/vultrmachine_controller.go`, `cloud/services/instance.go`, `cloud/scope/machine.go`) | the object (finalizer, provider ID, conditions, status), the VM, load balancer membership | `Reconcile`, `reconcileNormal`, `findOrCreateInstance`, `reconcileDelete`, `PatchObject`, `Close` | lost create answers, VMs without tags, stale reads, 404s that are not true, a listing that lags, three patches per `Close`, pauses, restarts | one VM per machine, none left behind, no foreign VM touched, provisioned means recorded and joined, waits end |
| VultrBareMetalMachine controller (`internal/controller/vultrbaremetalmachine_controller.go`, `cloud/services/baremetal.go`, `cloud/scope/baremetal_machine.go`) | the same, with a VPC attachment | the same, `EnsureBareMetalVPC`, `RemoveLoadBalancerMember` | no early patch of the provider ID, `Close` in a context that may have timed out, an asynchronous attachment, leaving the balancer before the delete | the same; provisioned means attached and joined, and stays |
| VultrCluster controller (`internal/controller/vultrcluster_controller.go`, `cloud/services/loadbalancer.go`, `cloud/scope/cluster.go`) | the object (finalizer, load balancer ID in spec and in status, endpoint), the load balancer | `Reconcile`, `reconcileNormal`, `reconcileDelete`, `Close` | an ID recorded in two patches, no adoption by label, stale reads, `clusterctl move` drops the status | no load balancer made or left behind that no fault accounts for, a stable endpoint, spec and status agree |
| Load balancer members (`cloud/services/loadbalancer.go`) | the member list in Vultr | `EnsureLoadBalancerMember`, `RemoveLoadBalancerMember` | the whole list is read, changed and written back, by two controllers | no member lost for good, no removed one left in |
| Ownership (`instanceOwnedByMachine`, `api/v1beta2/tags.go`) | labels and tags of servers | matching | equal names in several clusters, missing tags | only own servers match |
| Cloud-config (`appendToUserDataCloudConfig`, `cloud/services/cloudconfig.go`) | none | put commands into a document | index arithmetic, indentation, headers, documents without `runcmd` | the commands run first and nothing is lost |
| Provider IDs, bootstrap data, SSH keys | none | string functions, reads | | |
| Manager (`cmd/main.go`) | process | start, leader election | restart | |

The controllers interact only through Kubernetes objects and the Vultr account.
The VultrCluster controller writes the load balancer's ID to the status of the
VultrCluster; a control plane machine waits for it and joins the balancer. The
two machine controllers share the balancer's member list. The machine
controllers watch their own objects, Machines, VultrClusters and Clusters; the
VultrCluster controller watches its own objects and Clusters that are unpaused.
Each controller has one worker (default options) and leader election leaves one
active manager (`config/manager/manager.yaml`).

## Modules

`PatchHelper` - the life of a Kubernetes object (live, deleting, removed by its
finalizer, removed without one) and the merge patch.

`MachineLifecycle` - the abstract specification of a machine controller. Its
state is the phase of each object and the set of servers that a listing can show
for it. A server is made only when there is no other and the object was not let
go; the object is let go only when there is none.

`VultrMachine` - the VultrMachine controller. An action is one remote call and
the local code up to the next; between two actions anything else may happen.

| Code | Actions |
|---|---|
| `Reconcile`: the read, early returns, pausing | `Skip`, `BeginPaused`, `PatchPaused`, `BeginNormal`, `BeginDelete` |
| `findOrCreateInstance` | `GetInstance`, `FindInstance`, `CreateInstance` |
| `reconcileNormal` | `PatchObject`, `GetLoadBalancer`, `UpdateLoadBalancer` (operators `Found`, `Proceed`, `Reported`) |
| `reconcileDelete` | `DeleteInstance`, `FindRemaining`, `DeleteRemaining` |
| `Close` | `PatchConditions`, `PatchMetadata`, `PatchStatus` |
| controller-runtime: requeue, restart | `Finish`, `Crash` |
| Kubernetes, Cluster API, Vultr, the user | `CacheSync`, `Event`, `OwnerAdvances`, `ClusterAppears`, `ClusterReady`, `ClusterLost`, `Pause`, `Unpause`, `DeleteObject`, `LoadBalancerActive`, `InstanceActive`, `InstanceOdd`, `InstanceLost`, `ListCatchesUp` |

The worker record `w` holds what a reconcile keeps on its stack: the object as
read (`base`, the patch helper's copy), the copy it changes (`mem`), the VM in
hand, the members it read. A patch sends only what differs between `base` and
`mem`. `provisioned` stands for `status.ready` and
`status.initialization.provisioned`, which this controller sets together.

`VultrMachineLifecycle` - the refinement mapping from `VultrMachine` to
`MachineLifecycle`: `phase` is the object's phase, `held` are the machine's
listed VMs (`Own`).

`VultrBareMetalMachine` - the bare metal controller, in the same style, with the
same mapping to `MachineLifecycle`. Here `ready` and `provisioned` are two
fields, because a terminal failure resets only the first. The account may also
hold servers of machines of other managers (`Foreign`). `other` is the
VultrMachine controller between its Get and its Update of the member list, and
the history `lb.undone` holds the servers that such an update took out of, or put
back into, the list behind this controller's back.

| Code | Actions |
|---|---|
| `Reconcile` | `Skip`, `BeginPaused`, `PatchPaused`, `BeginNormal`, `BeginDelete` |
| `findOrCreateServer` | `GetServer`, `FindServer`, `CreateServer` |
| `EnsureBareMetalVPC` | `ListVPC`, `AttachVPC` |
| `EnsureLoadBalancerMember` | `GetLoadBalancer`, `UpdateLoadBalancer` |
| `RemoveLoadBalancerMember` | `GetForRemoval`, `RemoveMember` |
| `reconcileDelete` | `DeleteServer`, `FindRemaining`, `DeleteRemaining` |
| `Close`, requeue, the reconcile's deadline, restart | `PatchConditions`, `PatchMetadata`, `PatchStatus`, `Finish`, `TimeOut`, `Crash` |
| outside | as for `VultrMachine`, and `VPCAttached`; the VultrMachine controller on the member list: `OtherGet`, `OtherUpdate` |

`VultrCluster` - the VultrCluster controller:

| Code | Actions |
|---|---|
| `Reconcile` | `Skip`, `BeginNormal`, `BeginDelete` |
| `reconcileNormal` | `GetLoadBalancer`, `CreateLoadBalancer` (operators `Recorded`, `WaitForIP`, `Ready`) |
| `reconcileDelete` | `GetForDelete`, `DeleteLoadBalancer` |
| `Close`, requeue, restart | `PatchConditions`, `PatchMetadata`, `PatchStatus`, `Finish`, `Crash` |
| outside | `CacheSync`, `Event`, `OwnerSet`, `Pause`, `Unpause`, `DeleteObject`, `Move`, `LoadBalancerGetsIP`, `LoadBalancerLost` |

A reconcile reads the cached object (`Fetch`), and nothing makes it wait until the
cache shows its own last patches. A read that is `Outdated` in what decides the
reconcile, the phase or the IDs, is remembered in `w.stale` for the properties
and counted against `MaxStale`.

`LoadBalancerMembers` - both machine controllers on one member list. A machine
is the ID of its server with what has become of it (`Lives`); an action is one
Get or one Update of the whole list: `GetToAdd`, `Add`, `GetToRemove`, `Remove`.
`DeleteVM` is the deletion of a VM, which leaves the list alone. `TerminalFailure`
takes a machine out of reconciliation. The history variable `stale` says that
some list was written that had changed since it was read.

`UserData` - the two functions that put the provider's commands into the
bootstrap data, on documents of lines, beside how cloud-init reads a document
(`IsCloudConfig`, and `Under`: the lines numbered in `ItemsOf`, in order). An item
is two spaces in (`Item`) or at another depth (`Shifted`); the items of one list
must be `Aligned`, or the document is no YAML. The behaviours only enumerate
documents.

`MCVultrMachine`, `MCVultrBareMetalMachine`, `MCVultrCluster`, `MCUserData` - the
instances for TLC. `VultrMachineProofs`, `VultrMachineSafetyProofs`,
`VultrMachineLifecycleProofs`, `VultrBareMetalMachineProofs`,
`VultrClusterProofs`, `LoadBalancerMembersProofs`, `UserDataProofs` - the theorems.

Operators whose comment begins with "Mutant" are wrong variants of the
definition after them, used to show that a property can fail.

### Abstractions

- The pages of one listing are read in one step. The listing is complete for
  what was created and may lag behind what was deleted.
- The informer cache jumps to the latest version; an object may be read at any
  earlier cached version as long as the cache has not caught up. With
  `SyncedReads`, which the liveness runs of the machine modules use to stay
  small (and `vm_foreign`, which needs no other), a reconcile starts only from an up-to-date cache.
- A failed call is a *fault*: it may or may not have had its effect where the
  code cannot tell. An untrue 404, a deadline and a crash are faults too.
- The condition patch locks the cached version and is retried by the patch
  helper until the cache is up to date; giving up earlier is a fault.
- A failure to build the API client or to read from the cache is an error
  before anything happened, equal to a later `Event`.
- CPU, RAM, storage, addresses, messages and events are left out, and so are
  status patches that carry nothing else. `GetInstanceAddress` never returns an
  error. The VultrCluster's defaults and the load balancer's subscription status
  are left out, and `ResourcePowerStatus` is never set, so only the address
  decides.
- A VM's tags are set in a step of its own inside the create, so a failed create
  may leave a VM without tags. A bare metal server's tags are part of the create
  request, so a server always has them.
- In `VultrBareMetalMachine` the other controller reads the member list and
  writes it back later, with a VM added. That it takes no server out by itself,
  and how both controllers fare with many machines, is the subject of
  `LoadBalancerMembers`.
- The watch on `Cluster` has a predicate that lets through pausing, unpausing and
  the infrastructure becoming ready. These are the changes of the Cluster that
  the models make (`InfraChanges`), and a reconcile reads nothing else of it.
- An unused load balancer ID is as good as another, so a create takes one fixed
  free ID (`FreeID`).
- `splitCloudConfigHeader` accepts every line that begins with the header. The
  model has one header line, which stands for the header followed by blanks or a
  comment; `#cloud-config-archive` and the like are left out.
- In `UserData` a line is one of a few kinds; YAML inside a line is left out.
  What is kept of the indentation is whether an item is two spaces in.
  A line that "mentions" `runcmd:` stands for any text that contains the word.

## Runs

Bounds: `MaxFaults` faults, `MaxStale` reconciles of the cluster controller from an
outdated read, `MaxMishaps` events out of band, `MaxPauses` pauses.
A property of one machine is at stake between one fault and the recovery from
it; two faults include a fault during the recovery. Two IDs suffice for one
machine: the second is the duplicate a property would find (in `vm_liveness` and
`bm_liveness` it is the other machine's server, and no reconcile is ever short of
an ID: it would never complete). IDs are
symmetric in the safety runs of the machine modules.

| Run | Instance | Shows |
|---|---|---|
| `vm_faults` | one control plane machine that waits for bootstrap data and load balancer, stale reads, 2 faults, 1 mishap | `AtMostOneInstance`, `FinalizedLeavesNoInstance`, `ProvisionedHasProviderID`, `ProvisionedIsMember`, `TerminalIsSticky`, `NeverRecreated`, `ImplementsLifecycle` and the types |
| `vm_liveness` | one control plane machine from nothing, fresh reads, 1 fault, 1 pause, beside the VM of a machine of the same cluster that is gone | `OwnInstanceOnly`, `DestroysOnlyOwn`, `ProvisioningCompletes`, `DeletionCompletes` |
| `bm_faults` | one bare metal control plane machine with a VPC, a VM behind the balancer and another that joins, stale reads, 1 fault, 1 mishap | `ProvisionedIsConnected`, `ImplementsLifecycle`, `LeavesLoadBalancerFirst`, `ProvisionedIsStable`, `TerminalIsSticky` and the types |
| `bm_liveness` | the same machine from nothing, fresh reads, 1 fault, 1 pause, beside the server of a namesake in another manager's cluster | `OwnServerOnly`, `DestroysOnlyOwn`, `ProvisionedGetsProviderID`, `ProvisioningCompletes`, `DeletionCompletes` |
| `vc_faults` | 4 load balancers, one of which the user may have named; 1 outdated read, 1 fault, 1 mishap, 1 pause | `OneMorePerFault`, `LeavesOnePerFault`, `OneLoadBalancer`, `EndpointStable`, `NeverRecreated`, `ProvisioningCompletes`, `UndisturbedDeletionCompletes` and the types |
| `lb_members` | 2 VMs and 2 servers, 1 fault | `ListIsRight`, `OwnMembersKept`, `MembersComeBack` and the types |
| `user_data` | every well-formed document of up to 8 lines, 2 commands | `BareMetalRunsFirst`, `InstanceRunsFirst` |
| `user_data_header` | the same documents | violated: a cloud-config that ends with its header gets no commands |
| `vm_gone` | 1 machine, no fault | violated: an object deleted before its first patch leaves a VM |
| `vm_foreign` | equal names in two clusters, 1 fault | violated: an untagged VM is adopted across clusters |
| `vc_moved` | no faults, 1 move | violated: deletion trusts an empty status reference |
| `vc_deletion_stuck` | 1 fault | violated: a load balancer that is already gone blocks deletion for ever |

`EarlySpec` and `LateSpec` begin when the cluster is ready, `StartedSpec` when the
balancer is up but its ID is not in the cache. `NeighbourSpec`, with the VM of a
machine that is gone, and `BesideSpec`, with the namesake's server, begin before
the owner reference is set. One machine at work beside the VM of another is
enough for the ownership check of a VM: it is the listing, and no step of the
other machine, that could mix them up; the theorems `RecordsOnlyOwn` and
`DestroysOwn` cover several machines at work and stale reads. In `bm_faults` the
second VM is what lets the other controller read the list before the server
joins or leaves and write it after. In `vc_faults` four IDs are the named one,
the cluster's own and one each for the fault and the outdated read, so no create
is short of an ID. In `lb_members` two
machines per controller are the machine that is worked on and another of the
same controller, whose membership a write could lose. In `user_data` five lines
hold a header, both keys and an item under each, and eight let a text without
`runcmd:` be cut in every way: a text that is too short, one that is cut in its
first line that is not blank, and one that begins with six blank lines and is
cut after them, before one more line or two.

The VultrCluster controller does not look for a load balancer it does not know
and does not lock its spec patch. So a lost create answer, a crash before
`Close`, or a reconcile from a read that does not show the last `Close` yet makes
another load balancer, and the last of these may write a second endpoint. What
the code does guarantee is bounded by that: `OneMorePerFault` and
`LeavesOnePerFault` allow one load balancer for each such event and no more, and
`OneLoadBalancer`, `EndpointStable` and `NeverRecreated` except a reconcile from
an outdated read (`w.stale`), as `NeverRecreated` of the VultrMachine controller
does. `EndpointStable` also excepts an object whose names such a reconcile has
set apart: the next one follows the ID in the spec. `Undisturbed` (no fault, no
mishap so far) is left in one liveness property alone, because
`vc_deletion_stuck` shows what a failed call does to a deletion; outdated reads
are allowed there.

The largest runs: `bm_faults` with 1.7 million distinct states takes about three
minutes, `bm_liveness` with 250,000 and `vm_liveness` with 170,000 states about
two minutes each, `vc_faults` with 400,000 states one.

### What the code does without a run of its own

- `SetTerminalFailure` of a VM resets `status.initialization.provisioned`, which
  `api/v1beta2/vultrmachine_types.go:89` says "is never updated after
  provisioning is completed". For bare metal the field stays, which
  `ProvisionedIsStable` checks.
- The comment at `api/v1beta2/conditions.go:42` calls `ServerCreationFailed` and
  `ServerNotFound` terminal; the controller retries both.
- An update of the member list can undo the other controller's: a provisioned
  machine then drops out until it is next reconciled (`MembersComeBack`), and a
  server that was taken out may come back, before it is deleted or after.
  `ProvisionedIsConnected` and `LeavesLoadBalancerFirst` except exactly that
  (`lb.undone`).
- A reconcile of a VultrCluster from an outdated read may make a second load
  balancer and write a second endpoint, without any failure. No doc or comment
  promises otherwise; the properties of `VultrCluster` say what remains.
- A server whose ID was never recorded is deleted from the listing without
  leaving the load balancer first.
- A VM's user data with `runcmd:` in a file before the key, without the key, or
  with a list that is not indented by two spaces, is broken by
  `appendToUserDataCloudConfig`; `InstanceRunsFirst` says exactly when.

### Fairness

The worker runs and takes queued work (controller-runtime serves its queue; with
several machines every one of them is served, hence strong fairness of `Begin`),
the cache and the listing catch up, Cluster API goes on to set owner references
and bootstrap data, the cluster becomes ready, the balancer becomes active and
gets an address, a server becomes active, a requested VPC is attached. Faults,
mishaps, pauses and deletions are never forced, and after the last pause the
properties do not assume that anybody unpauses.

`MembersComeBack` also needs that provisioned machines are reconciled again and
again (strong fairness of `Join`). That is the resync: the manager leaves the
default `SyncPeriod`, the controllers put no predicate on their own objects that
would drop a resync, and `reconcileNormal` calls `EnsureLoadBalancerMember` for a
provisioned machine too.

## Proofs

For every set of machines and IDs, all names and all bounds, from the named
assumptions of the modules (constants have their types, machines of one cluster
have different names, no ID is both a VM's and a server's; the provider has
commands, and none of them looks like a key or a header).

`VultrMachineProofs`:

- `TypeCorrect`: `TypeOK` is invariant. The inductive part is `WorkerOK`: at
  every call that uses one, the worker has a machine and an instance ID.
- `NoDuplicateInstance`: `AtMostOneInstance` is invariant.
- `DeletionLeavesNothing`: `FinalizedLeavesNoInstance` is invariant.
- `ProvisionedIsRecorded`: `ProvisionedHasProviderID` is invariant.

The second and the third need `LifeInv`. Neither property is inductive: a create
is safe because the listing just before it was empty and this worker alone makes
VMs for the machine (`PathInv`: at `create`, `Own(w.m) = {}`), and taking the
finalizer off is safe because only a reconcile that read the object as deleting,
and then an empty listing, does so, and no reconcile that read the object as
live can still be under way when it is gone (`CacheInv` and `PathInv`: the cache
never runs ahead of the object, and a finalized object is no longer cached as
live). That every listed VM of a machine matches in `FindInstanceForMachine`,
with or without its tags, is `OwnMatches`.

`ProvisionedIsRecorded` needs `ProviderInv`: a provider ID that was read or
written stays, and a reconcile reaches the load balancer or the status switch
only with a provider ID on the object, which is what the early `PatchObject` is
for.

`VultrMachineSafetyProofs`:

- `RecordsOnlyOwn` (`OwnInstanceOnly`) and `DestroysOwn` (`DestroysOnlyOwn`), where
  no two machines of the account have the same name (`NamesDiffer`). The
  inductive invariant `IdInv` holds for every naming: each provider ID, stored,
  cached or in a worker's memory, and each VM in hand passes the ownership check
  of its machine (`Ours`), because a VM keeps its label and its tags for life. A
  VM that lost its tags is checked by its name alone, so only different names
  make it the machine's own (`OursIsOwn`); without the hypothesis both
  statements are false, as the run `vm_foreign` shows.
- `NotRecreated` (`NeverRecreated`): at `create` the listing is still empty
  (`ListInv`), so a VM that was recorded meanwhile is not listed, and a reconcile
  that read a provider ID never comes to `create` (`ProviderInv`).
- `ProvisionedJoined` (`ProvisionedIsMember`), for names that differ. The list that
  is written back lacks no member (`MemberInv`), so whoever joined stays, and
  `provisioned` is set, in memory, in the object and in the cache, only after
  the machine's VM was seen on the list or put there (`JoinedInv`).
- `TerminalStays` (`TerminalIsSticky`): a reconcile that may write the Ready
  condition of a live object has not read a terminal failure (`StickyInv`), and
  the condition patch gives way to a reason it has not read.

The lemmas named `...Effect` say once what each group of actions does to the
parts of the state the invariants are about; the invariance proofs cite them
and not the actions.

`VultrMachineLifecycleProofs`: `Refinement`, `Spec => ImplementsLifecycle`. Under
`TypeInv` and `LifeInv` every step is a step of `MachineLifecycle` or a
stutter. A create is `Make` because the machine held nothing and was not let go;
a VM that drops out of the listing is `Lose`, because it was the only one; the
metadata patch is `Release` when it takes the finalizer off, and then the machine
holds nothing; a deletion is `Delete`; everything else leaves phases and listed
VMs alone.

`VultrBareMetalMachineProofs`:

- `BareMetalTyped` (`TypeOK`) and `BareMetalRefinement` (`ImplementsLifecycle`),
  along the argument for VMs. Nothing in it uses the provider ID: it is the
  listing before the create, and the one before the finalizer is taken off, that
  keep the promise, also where `Close` fails or times out and the ID is never
  recorded.
- `ConnectedWhenProvisioned` (`ProvisionedIsConnected`). `IdInv`: provider IDs and
  servers in hand were made for their machine, by tags alone, so no hypothesis on
  names is needed. `MemberInv`: the list the worker writes back lacks no
  server but those that the other controller's writes have undone (`Settled`).
  `ConnectedInv`: what is about to be reported as provisioned is attached and
  joined. A live machine stays connected because the only server an update
  takes out belongs to a machine that is being deleted (`ConnectedKept`).
- `ProvisionedStays` (`ProvisionedIsStable`): the reconcile's copy has `provisioned`
  whenever what it read had it, so the status patch cannot take it back.
- `LeavesFirst` (`LeavesLoadBalancerFirst`): at `delete` the server is off the list,
  or was seen there alone, or the members were never read (`MemberInv`), or a
  list that the other controller read before the removal has put it back: a
  write of that controller marks every server it moves as undone.
- `TerminalStays` (`TerminalIsSticky`), as for VMs.
- `RecordsOnlyOwn` (`OwnServerOnly`) and `DestroysOwn` (`DestroysOnlyOwn`), for every
  naming and in an account shared with other managers: name and cluster UID are
  compared for every server, and machines of one cluster have different names,
  so a server that matches was made for the machine (`MatchesOwn`). This is where
  the two controllers differ: the same statements about VMs need `NamesDiffer`.
  `IdInv` says that every server at hand, one that was found in the listing for
  deletion included, was made for the machine; `LifeInv` that the object is no
  longer live when its server is deleted.

`VultrClusterProofs`:

- `ClusterTyped` (`TypeOK`).
- `NamesAgree` (`OneLoadBalancer`), `EndpointKept` (`EndpointStable`) and
  `NotRecreated` (`NeverRecreated`). `NamesInv` has three parts. `WorkInv`: a
  reconcile records nothing, or the one load balancer that what it read names,
  or a new one when that names none. `SpecInv`: the ID in the spec is never
  taken back, so an outdated copy that has one means an object that has one.
  `FreshInv`: a reconcile that read the object as it was meets it so, but for its
  own patches. The exceptions of the properties are those for which `FreshInv`
  does not hold.
- `MakesAtMostOneMore` (`OneMorePerFault`) and `FinalizerHolds`
  (`LeavesOnePerFault`), for any number of faults, outdated reads and moves. The
  properties are not inductive: a create is within the count only because the
  object then names no load balancer, and one that names none has no more of
  them than were paid for. `OwesInv` says so of the spec, up to the metadata patch of a
  reconcile that has one in hand; `LeavesInv` of the status, which is what
  deletion goes by and a move empties; `GivenInv` keeps the load balancer a user
  named out of the count. `FinalizerInv`: only the end of `reconcileDelete` takes
  the finalizer off.

None of these has a hypothesis on reads.

`LoadBalancerMembersProofs`: `MembersTyped`, `ListRight`, `OwnKept`
(`OwnMembersKept`). The inductive invariant is `MembersInv`: a busy worker has a
machine of its own controller that cannot leave meanwhile (`Busy`); what it read
has all members of its own controller that are to stay (`OwnSeen`), because
nobody else adds them; and of the other controller's members it read none that
has gone since and should have stayed (`OthersSeen`). `OwnKept` follows from
`OwnSeen`, with no assumption on what the other controller writes. `ListRight`
needs no more than that an up-to-date write is the list as it is, with one
machine added or taken out.

`UserDataProofs`: `BareMetalCommandsFirst` (`BareMetalRunsFirst`) and
`InstanceCommandsFirst` (`InstanceRunsFirst`), for documents of any length and any
commands. The inductive invariant is that documents are well-formed
(`OnlyDocuments`); the work is in the operators. A finite set of line numbers has
exactly one increasing list (`Lists`, `OrderedIs`), so what is under a key is known
as soon as some increasing list of its items is (`UnderIs`), and no induction over
documents is needed. What a list says is compared without its indentation
(`Contents`), and that it is one list is a condition of its own (`Aligned`).

- Bare metal: the items of the document that is written are read off its parts
  (`Rewritten`, `RewrittenReads`, `PrependRunsFirst`).
- VM, the first `runcmd:` is the list's key: the items before the cut stay and the
  later ones move by the number of commands (`InsertedItems`,
  `InsertedUnderList`, `InsertedUnderFiles`, `WithList`); the list is then aligned
  exactly when it was two spaces in (`AtTwoSpaces`).
- VM, otherwise: the header is cut, or a torn line is under a key or takes the
  place of what was there, so the document is not the one that was meant
  (`TornIsLost`, `WithoutRunCmd`, `WithoutList`).

The inductive invariants were model-checked on the instances above before they
were proved.

Only model-checked:

- the liveness properties (`ProvisioningCompletes`, `DeletionCompletes`,
  `ProvisionedGetsProviderID`, `UndisturbedDeletionCompletes`, `MembersComeBack`),
  which are out of the prover's reach;
- the five violations, which are counterexamples.

Every other invariant and action property of the runs is stated by a theorem.

## Plan

The modules of the plan are written, and every safety property of a passing run
is proved. What could follow: the text of provider IDs and the paging of
listings, should either change, and a module of the cluster and its machines
together, to follow a load balancer's ID from the VultrCluster to the machines
that wait for it.

## Not modelled

API type declarations, templates and generated code (no behaviour); service and
client constructors (no state; `MachineOnly` is a constant of the machine
modules); the transport that records a response's status (its uses are: what the
services do with a 404 or a 422); the text of provider IDs (the provider writes
no other form than the one it parses); flags, metrics and probes of the manager
(I/O); two active managers (excluded by leader election).
