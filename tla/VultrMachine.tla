---------------------------- MODULE VultrMachine ----------------------------
(***************************************************************************)
(* The VultrMachine controller of the Cluster API provider for Vultr: one  *)
(* worker (MaxConcurrentReconciles is the default, 1) that takes machines  *)
(* from a work queue, reads each from an informer cache, talks to the Vultr*)
(* API one call at a time, and writes the object back with a patch helper  *)
(* that makes up to three separate calls.                                  *)
(*                                                                         *)
(* One action is one remote call (Kubernetes or Vultr) with the local code *)
(* up to the next call; anything else may happen between two calls.        *)
(***************************************************************************)
EXTENDS Naturals, PatchHelper

CONSTANTS
    Machines,       \* VultrMachine objects
    InstanceIDs,    \* IDs the Vultr API can give to instances
    NoID,           \* "" : an empty providerID
    NoMachine,      \* the machine of an idle worker, the maker of no instance
    ControlPlane,   \* the machines for which IsControlPlaneMachine holds
    NameOf,         \* VultrMachine name: label, hostname and name tag of its VM
    ClusterOf,      \* the UID of the machine's Cluster
    MachineOnly,    \* scope.MachineOnly(): the cluster is not a VultrCluster
    SyncedReads,    \* TRUE: reconciles start only from an up-to-date cache
    MaxFaults,      \* bound on failed calls, wrong answers and crashes
    MaxMishaps,     \* bound on what befalls VMs and the VultrCluster out of band
    MaxPauses       \* bound on how often the Cluster is paused

ASSUME ConstantsAssumption ==
    /\ NoID \notin InstanceIDs
    /\ NoMachine \notin Machines
    /\ ControlPlane \subseteq Machines
    /\ MachineOnly \in BOOLEAN
    /\ SyncedReads \in BOOLEAN
    /\ {MaxFaults, MaxMishaps, MaxPauses} \subseteq Nat

(* Machines of one cluster live in one namespace, so their names differ.   *)
ASSUME NamesAssumption ==
    \A m, n \in Machines :
        (NameOf[m] = NameOf[n] /\ ClusterOf[m] = ClusterOf[n]) => m = n

VARIABLES
    obj,      \* the VultrMachine objects in the Kubernetes API server
    cache,    \* the controller's informer cache of obj
    queued,   \* the machines in the controller's work queue
    owner,    \* per machine: what its owner Machine offers so far
    infra,    \* what the controller's cache shows of Cluster and VultrCluster
    inst,     \* the instances in the Vultr account, by ID
    lb,       \* the API server load balancer
    w,        \* the worker: the reconcile in progress
    budget    \* what is left of the bounds

kube   == <<obj, cache, queued>>
gates  == <<owner, infra>>
vultr  == <<inst, lb>>
vars   == <<obj, cache, queued, owner, infra, inst, lb, w, budget>>

-----------------------------------------------------------------------------
(* Types *)

(* The Reasons of the Ready condition; "" is a condition never set.        *)
Reasons == {"", "WaitingForClusterInfrastructure", "WaitingForBootstrapData",
            "WaitingForLoadBalancer", "InstancePending", "InstanceActive",
            "InstanceCreationFailed", "InstanceNotFound", "UnexpectedStatus",
            "Deleting"}

MaybeID == InstanceIDs \cup {NoID}

(* provisioned stands for status.ready and status.initialization.provisioned;*)
(* pausedCond is the Paused condition, "" when it was never set.             *)
Object == [phase : Phases, finalizer : BOOLEAN, providerID : MaybeID,
           reason : Reasons, provisioned : BOOLEAN,
           pausedCond : {"", "False", "True"}]

Statuses == {"pending", "active", "other"}   \* "other": suspended, closed, ...

(* An ID is free until a create takes it. A destroyed VM may still be listed. *)
Instance == [place : {"free", "running", "destroyed", "purged"},
             status : Statuses, maker : Machines \cup {NoMachine},
             tagged : BOOLEAN]

Calls == {"idle", "paused", "get", "list", "create", "persist", "lbGet",
          "lbUpdate", "delete", "delList", "delRemaining", "conditions",
          "metadata", "status", "done"}

(* base is the patch helper's copy of the object as read, mem the copy the  *)
(* reconcile works on; vm and st are the instance in hand and its status.   *)
Worker == [pc : Calls, m : Machines \cup {NoMachine}, base : Object,
           mem : Object, vm : MaybeID, st : Statuses, lbID : BOOLEAN,
           seen : SUBSET InstanceIDs, retry : BOOLEAN]

NewObject == [phase |-> "live", finalizer |-> FALSE, providerID |-> NoID,
              reason |-> "", provisioned |-> FALSE, pausedCond |-> ""]

Idle == [pc |-> "idle", m |-> NoMachine, base |-> NewObject,
         mem |-> NewObject, vm |-> NoID, st |-> "pending", lbID |-> FALSE,
         seen |-> {}, retry |-> FALSE]

FreeInstance == [place |-> "free", status |-> "pending",
                 maker |-> NoMachine, tagged |-> FALSE]

TypeOK ==
    /\ obj \in [Machines -> Object]
    /\ cache \in [Machines -> Object]
    /\ queued \in SUBSET Machines
    /\ owner \in [Machines -> {"none", "linked", "bootstrapped"}]
    /\ infra \in [present : BOOLEAN, lbID : BOOLEAN, ready : BOOLEAN,
                  paused : BOOLEAN]
    /\ inst \in [InstanceIDs -> Instance]
    /\ lb \in [active : BOOLEAN, members : SUBSET InstanceIDs]
    /\ w \in Worker
    /\ budget \in [faults : Nat, mishaps : Nat, pauses : Nat]

Init ==
    /\ obj = [m \in Machines |-> NewObject]
    /\ cache = obj
    /\ queued = Machines
    /\ owner = [m \in Machines |-> "none"]
    /\ infra = [present |-> FALSE, lbID |-> FALSE, ready |-> FALSE,
                paused |-> FALSE]
    /\ inst = [i \in InstanceIDs |-> FreeInstance]
    /\ lb = [active |-> FALSE, members |-> {}]
    /\ w = Idle
    /\ budget = [faults |-> MaxFaults, mishaps |-> MaxMishaps,
                 pauses |-> MaxPauses]

Spend(kind) ==
    /\ budget[kind] > 0
    /\ budget' = [budget EXCEPT ![kind] = @ - 1]

-----------------------------------------------------------------------------
(* Patches *)

(* An object that is being deleted disappears with its last finalizer.      *)
MetadataPatched(o, k) ==
    LET f == Merged(o.finalizer, k.base.finalizer, k.mem.finalizer)
    IN  [o EXCEPT !.finalizer  = f,
                  !.providerID = Merged(@, k.base.providerID, k.mem.providerID),
                  !.phase = IF @ = "deleting" /\ ~f THEN "finalized" ELSE @]

AfterMetadata(k) ==
    IF k.mem.provisioned # k.base.provisioned THEN "status" ELSE "done"

AfterConditions(k) ==
    IF \/ k.mem.finalizer # k.base.finalizer
       \/ k.mem.providerID # k.base.providerID
    THEN "metadata" ELSE AfterMetadata(k)

(* Close: the patch helper's calls in order; those with no change are       *)
(* skipped.                                                                 *)
ClosePC(k) ==
    IF k.mem.reason # k.base.reason THEN "conditions" ELSE AfterConditions(k)

(* The reconcile body returns; retry: with an error or with RequeueAfter.   *)
Returned(k, retry) == [k EXCEPT !.pc = ClosePC(k), !.retry = retry]

SetReadyCondition(k, reason) == [k EXCEPT !.mem.reason = reason]

(* The Ready condition together with status.ready and provisioned.          *)
SetOutcome(k, reason, provisioned) ==
    [SetReadyCondition(k, reason) EXCEPT !.mem.provisioned = provisioned]

SetTerminalFailure(k, reason) == SetOutcome(k, reason, FALSE)

RemoveFinalizer(k) == [k EXCEPT !.mem.finalizer = FALSE]

(* Mutant: no reason is terminal.                                           *)
NothingTerminal(o) == FALSE

(* terminalMachineReasons                                                   *)
Terminal(o) == o.reason = "UnexpectedStatus"

-----------------------------------------------------------------------------
(* The instance in hand: findOrCreateInstance's callers, reconcileNormal.   *)

(* Mutant: the raw status of a pending instance becomes the reason.         *)
ReportedRaw(k) == Returned(SetReadyCondition(k, k.st), k.st = "pending")

(* The final switch on the instance status.                                 *)
Reported(k) ==
    CASE k.st = "pending" ->
            Returned(SetReadyCondition(k, "InstancePending"), TRUE)
      [] k.st = "active" ->
            Returned(SetOutcome(k, "InstanceActive", TRUE), FALSE)
      [] k.st = "other" ->
            Returned(SetTerminalFailure(k, "UnexpectedStatus"), FALSE)

(* Mutant: a load balancer that is not ready is taken for a joined one.     *)
WaitForNothing(k) == Reported(k)

(* Mutant: waits without asking to be called again.                         *)
WaitForWatch(k) ==
    Returned(SetReadyCondition(k, "WaitingForLoadBalancer"), FALSE)

WaitForLoadBalancer(k) ==
    Returned(SetReadyCondition(k, "WaitingForLoadBalancer"), TRUE)

(* After the provider ID is known to be persisted.                          *)
Proceed(k) ==
    IF k.m \notin ControlPlane THEN Reported(k)
    ELSE IF ~k.lbID THEN WaitForLoadBalancer(k)
    ELSE [k EXCEPT !.pc = "lbGet"]

(* Mutant: the provider ID is left to Close.                                *)
FoundUnpersisted(k, i, s) ==
    Proceed([k EXCEPT !.vm = i, !.st = s, !.mem.providerID = i])

(* findOrCreateInstance has returned instance i with status s.              *)
Found(k, i, s) ==
    LET k1 == [k EXCEPT !.vm = i, !.st = s]
    IN  IF k.mem.providerID = i THEN Proceed(k1)
        ELSE [k1 EXCEPT !.mem.providerID = i, !.pc = "persist"]

-----------------------------------------------------------------------------
(* Reconcile: what it does before its first call to Vultr.                  *)

(* Takes m from the queue and reads it from the cache.                      *)
Dequeue(m) ==
    /\ w.pc = "idle"
    /\ m \in queued
    /\ SyncedReads => cache[m] = obj[m]
    /\ queued' = queued \ {m}
    /\ UNCHANGED <<obj, cache, gates, vultr, budget>>

PausedStatus == IF infra.paused THEN "True" ELSE "False"

(* The object is there and has an owner Machine with a Cluster.             *)
Linked(m) == Exists(cache[m]) /\ owner[m] # "none"

Unpaused(m) ==
    Linked(m) /\ ~infra.paused /\ cache[m].pausedCond = PausedStatus

(* The VultrCluster was read, or is not needed.                             *)
ClusterRead(m) ==
    infra.present \/ MachineOnly \/ cache[m].phase = "deleting"

Run(m) == [Idle EXCEPT !.m = m, !.base = cache[m], !.mem = cache[m],
                       !.lbID = infra.lbID]

(* The early returns that change nothing: no object, no owner, paused, no   *)
(* VultrCluster, terminal failure.                                          *)
Skip(m) ==
    /\ Dequeue(m)
    /\ \/ ~Linked(m)
       \/ infra.paused /\ cache[m].pausedCond = PausedStatus
       \/ Unpaused(m) /\ ~ClusterRead(m)
       \/ /\ Unpaused(m) /\ ClusterRead(m)
          /\ cache[m].phase = "live" /\ Terminal(cache[m])
    /\ UNCHANGED w

(* EnsurePausedCondition finds the Paused condition out of date.            *)
BeginPaused(m) ==
    /\ Dequeue(m)
    /\ Linked(m)
    /\ cache[m].pausedCond # PausedStatus
    /\ w' = [Run(m) EXCEPT !.pc = "paused", !.mem.pausedCond = PausedStatus]

(* reconcileNormal up to findOrCreateInstance.                              *)
BeginNormal(m) ==
    /\ Dequeue(m)
    /\ Unpaused(m) /\ ClusterRead(m)
    /\ cache[m].phase = "live" /\ ~Terminal(cache[m])
    /\ LET k == [Run(m) EXCEPT !.mem.finalizer = TRUE]
       IN  w' =
        IF ~infra.ready
        THEN Returned(SetReadyCondition(k, "WaitingForClusterInfrastructure"), FALSE)
        ELSE IF owner[m] # "bootstrapped"
        THEN Returned(SetReadyCondition(k, "WaitingForBootstrapData"), FALSE)
        ELSE [k EXCEPT !.pc = IF k.mem.providerID # NoID THEN "get" ELSE "list"]

(* Mutant: without a provider ID there is taken to be nothing to delete.    *)
BeginDeleteByID(m) ==
    /\ Dequeue(m)
    /\ Unpaused(m)
    /\ cache[m].phase = "deleting"
    /\ LET k == SetReadyCondition(Run(m), "Deleting")
       IN  w' = IF k.mem.providerID # NoID THEN [k EXCEPT !.pc = "delete"]
                ELSE Returned(RemoveFinalizer(k), FALSE)

(* reconcileDelete up to its first call.                                    *)
BeginDelete(m) ==
    /\ Dequeue(m)
    /\ Unpaused(m)
    /\ cache[m].phase = "deleting"
    /\ LET k == SetReadyCondition(Run(m), "Deleting")
       IN  w' = [k EXCEPT !.pc =
                    IF k.mem.providerID # NoID THEN "delete" ELSE "delList"]

-----------------------------------------------------------------------------
(* The calls of one reconcile. Call(c) guards the action that makes call c. *)

Call(c) == w.pc = c

Fault == Spend("faults")

NoFault == UNCHANGED budget

(* The call fails: for this reason, or for one out of sight.                *)
FailsIf(reason) == (reason /\ NoFault) \/ Fault

(* EnsurePausedCondition writes the condition over whatever is there, with  *)
(* an optimistic lock on the cached version; the watch event of its own     *)
(* write brings the machine back.                                           *)
PatchPaused ==
    /\ Call("paused")
    /\ \/ /\ Exists(obj[w.m]) /\ cache[w.m] = obj[w.m]
          /\ obj' = [obj EXCEPT ![w.m].pausedCond = w.mem.pausedCond]
          /\ w' = [w EXCEPT !.pc = "done"]
          /\ NoFault
       \/ /\ FailsIf(~Exists(obj[w.m]))
          /\ w' = [w EXCEPT !.pc = "done", !.retry = TRUE]
          /\ UNCHANGED obj
    /\ UNCHANGED <<cache, queued, gates, vultr>>

(* Mutant: an instance reported missing is looked for, and made, again.     *)
GetOrRecreate ==
    LET id == w.mem.providerID IN
    /\ Call("get")
    /\ \/ /\ inst[id].place = "running" /\ NoFault
          /\ w' = Found(w, id, inst[id].status)
       \/ /\ FailsIf(inst[id].place # "running")
          /\ w' = [w EXCEPT !.pc = "list"]
    /\ UNCHANGED <<kube, gates, vultr>>

(* GetInstance by provider ID. A 404, true or not, is reported as           *)
(* InstanceNotFound and looked at again.                                    *)
GetInstance ==
    LET id == w.mem.providerID IN
    /\ Call("get")
    /\ \/ /\ inst[id].place = "running" /\ NoFault
          /\ w' = Found(w, id, inst[id].status)
       \/ /\ FailsIf(inst[id].place # "running")
          /\ w' = Returned(SetReadyCondition(w, "InstanceNotFound"), TRUE)
       \/ Fault /\ w' = Returned(w, TRUE)
    /\ UNCHANGED <<kube, gates, vultr>>

Listed(i) == inst[i].place \in {"running", "destroyed"}

(* Mutant: without tags nothing is ours.                                    *)
OwnedByTags(i, m) ==
    /\ NameOf[inst[i].maker] = NameOf[m]
    /\ inst[i].tagged /\ ClusterOf[inst[i].maker] = ClusterOf[m]

(* Mutant: the cluster tag alone decides.                                   *)
OwnedByCluster(i, m) == ClusterOf[inst[i].maker] = ClusterOf[m]

(* instanceOwnedByMachine: label and owner tags, or only the label and the  *)
(* hostname when the tag step of the create failed.                         *)
OwnedByMachine(i, m) ==
    /\ NameOf[inst[i].maker] = NameOf[m]
    /\ inst[i].tagged => ClusterOf[inst[i].maker] = ClusterOf[m]

(* FindInstanceForMachine: what the listing, all pages of it, matches.      *)
Matches(m) == {i \in InstanceIDs : Listed(i) /\ OwnedByMachine(i, m)}

(* findOrCreateInstance without a provider ID: adopt the one match, create  *)
(* when there is none; several are an error.                                *)
FindInstance ==
    /\ Call("list")
    /\ \/ /\ Matches(w.m) = {} /\ NoFault
          /\ w' = [w EXCEPT !.pc = "create"]
       \/ \E i \in InstanceIDs :
            /\ Matches(w.m) = {i} /\ NoFault
            /\ w' = Found(w, i, inst[i].status)
       \/ /\ FailsIf(\E i, j \in Matches(w.m) : i # j)
          /\ w' = Returned(w, TRUE)
    /\ UNCHANGED <<kube, gates, vultr>>

Created(i, m, tagged) ==
    inst' = [inst EXCEPT ![i] = [place |-> "running", status |-> "pending",
                                 maker |-> m, tagged |-> tagged]]

CreateFailed(k) ==
    Returned(SetOutcome(k, "InstanceCreationFailed", FALSE), TRUE)

(* CreateInstance. A failed create may have made a VM, and may have made it *)
(* without its tags.                                                        *)
CreateInstance ==
    /\ Call("create")
    /\ \/ \E i \in InstanceIDs :
            /\ inst[i].place = "free"
            /\ \/ /\ Created(i, w.m, TRUE) /\ NoFault
                  /\ w' = Found(w, i, "pending")
               \/ /\ \E tagged \in BOOLEAN : Created(i, w.m, tagged)
                  /\ Fault
                  /\ w' = CreateFailed(w)
       \/ Fault /\ w' = CreateFailed(w) /\ UNCHANGED inst
    /\ UNCHANGED <<kube, gates, lb>>

(* PatchObject: "Persist the ID first so a later error cannot orphan the    *)
(* instance". At this point only metadata and spec differ from base.        *)
PatchObject ==
    /\ Call("persist")
    /\ \/ /\ Exists(obj[w.m]) /\ NoFault
          /\ obj' = [obj EXCEPT ![w.m] = MetadataPatched(@, w)]
          /\ w' = Proceed(w)
       \/ /\ FailsIf(~Exists(obj[w.m]))
          /\ w' = Returned(w, TRUE)
          /\ UNCHANGED obj
    /\ UNCHANGED <<cache, queued, gates, vultr>>

(* EnsureLoadBalancerMember, the read.                                      *)
GetLoadBalancer ==
    /\ Call("lbGet")
    /\ \/ ~lb.active /\ NoFault /\ w' = WaitForLoadBalancer(w)
       \/ /\ lb.active /\ w.vm \in lb.members /\ NoFault
          /\ w' = Reported(w)
       \/ /\ lb.active /\ w.vm \notin lb.members /\ NoFault
          /\ w' = [w EXCEPT !.pc = "lbUpdate", !.seen = lb.members]
       \/ Fault /\ w' = Returned(w, TRUE)
    /\ UNCHANGED <<kube, gates, vultr>>

(* EnsureLoadBalancerMember, the write: the members as read plus this one.  *)
(* A 422 is a load balancer that does not accept members yet.               *)
UpdateLoadBalancer ==
    LET joined == [lb EXCEPT !.members = w.seen \cup {w.vm}] IN
    /\ Call("lbUpdate")
    /\ \/ lb' = joined /\ NoFault /\ w' = Reported(w)
       \/ UNCHANGED lb /\ Fault /\ w' = WaitForLoadBalancer(w)
       \/ lb' \in {lb, joined} /\ Fault /\ w' = Returned(w, TRUE)
    /\ UNCHANGED <<kube, gates, inst>>

Destroyed(i) ==
    inst' = [inst EXCEPT ![i].place = "destroyed"]

(* DeleteInstance by provider ID. A 404 is not believed: the listing that   *)
(* follows decides.                                                         *)
DeleteInstance ==
    LET id == w.mem.providerID IN
    /\ Call("delete")
    /\ \/ /\ inst[id].place = "running" /\ Destroyed(id) /\ NoFault
          /\ w' = [w EXCEPT !.pc = "delList"]
       \/ /\ FailsIf(inst[id].place # "running")
          /\ UNCHANGED inst
          /\ w' = [w EXCEPT !.pc = "delList"]
       \/ /\ UNCHANGED inst \/ (inst[id].place = "running" /\ Destroyed(id))
          /\ Fault /\ w' = Returned(w, TRUE)
    /\ UNCHANGED <<kube, gates, lb>>

(* Mutant: does not come back while the listing lags.                       *)
FindRemainingOnce ==
    /\ Call("delList")
    /\ w' = Returned(IF Matches(w.m) = {} THEN RemoveFinalizer(w) ELSE w, FALSE)
    /\ NoFault
    /\ UNCHANGED <<kube, gates, vultr>>

(* reconcileDelete lists what is left; only an empty list frees the object. *)
FindRemaining ==
    /\ Call("delList")
    /\ \/ /\ Matches(w.m) = {} /\ NoFault
          /\ w' = Returned(RemoveFinalizer(w), FALSE)
       \/ \E i \in InstanceIDs :
            /\ Matches(w.m) = {i} /\ NoFault
            /\ w' = IF i = w.mem.providerID THEN Returned(w, TRUE)
                    ELSE [w EXCEPT !.vm = i, !.pc = "delRemaining"]
       \/ /\ FailsIf(\E i, j \in Matches(w.m) : i # j)
          /\ w' = Returned(w, TRUE)
    /\ UNCHANGED <<kube, gates, vultr>>

(* DeleteInstance on a listed instance that is not the provider ID's; the   *)
(* reconcile comes back whatever the answer.                                *)
DeleteRemaining ==
    /\ Call("delRemaining")
    /\ \/ inst[w.vm].place = "running" /\ Destroyed(w.vm) /\ NoFault
       \/ inst[w.vm].place # "running" /\ UNCHANGED inst /\ NoFault
       \/ UNCHANGED inst /\ Fault
    /\ w' = Returned(w, TRUE)
    /\ UNCHANGED <<kube, gates, lb>>

-----------------------------------------------------------------------------
(* machineScope.Close(): conditions, then metadata and spec, then status.   *)
(* A call that fails does not stop the next; it makes Reconcile return an   *)
(* error.                                                                   *)

(* The three-way merge of the condition patch, on the cached version: it    *)
(* gives way to a reason somebody else has written meanwhile.               *)
ReasonMergeable == cache[w.m].reason \in {w.base.reason, w.mem.reason}

(* The patch locks the cached version, so it goes through once the cache is *)
(* up to date; giving up before that is a fault.                            *)
PatchConditions ==
    LET next(r) == [w EXCEPT !.pc = AfterConditions(w), !.retry = @ \/ r] IN
    /\ Call("conditions")
    /\ \/ /\ Exists(obj[w.m]) /\ cache[w.m] = obj[w.m] /\ ReasonMergeable
          /\ obj' = [obj EXCEPT ![w.m].reason = w.mem.reason]
          /\ \/ NoFault /\ w' = next(FALSE)
             \/ Fault /\ w' = next(TRUE)
       \/ /\ ~Exists(obj[w.m]) \/ ~ReasonMergeable
          /\ NoFault /\ w' = next(TRUE) /\ UNCHANGED obj
       \/ Fault /\ w' = next(TRUE) /\ UNCHANGED obj
    /\ UNCHANGED <<cache, queued, gates, vultr>>

PatchMetadata ==
    LET next(r) == [w EXCEPT !.pc = AfterMetadata(w), !.retry = @ \/ r] IN
    /\ Call("metadata")
    /\ \/ /\ Exists(obj[w.m])
          /\ obj' = [obj EXCEPT ![w.m] = MetadataPatched(@, w)]
          /\ \/ NoFault /\ w' = next(FALSE)
             \/ Fault /\ w' = next(TRUE)
       \/ /\ FailsIf(~Exists(obj[w.m]))
          /\ w' = next(TRUE) /\ UNCHANGED obj
    /\ UNCHANGED <<cache, queued, gates, vultr>>

PatchStatus ==
    LET next(r) == [w EXCEPT !.pc = "done", !.retry = @ \/ r] IN
    /\ Call("status")
    /\ \/ /\ Exists(obj[w.m])
          /\ obj' = [obj EXCEPT ![w.m].provisioned = w.mem.provisioned]
          /\ \/ NoFault /\ w' = next(FALSE)
             \/ Fault /\ w' = next(TRUE)
       \/ /\ FailsIf(~Exists(obj[w.m]))
          /\ w' = next(TRUE) /\ UNCHANGED obj
    /\ UNCHANGED <<cache, queued, gates, vultr>>

(* Reconcile returns to the controller, which queues the machine again on   *)
(* an error or RequeueAfter.                                                *)
Finish ==
    /\ Call("done")
    /\ queued' = IF w.retry THEN queued \cup {w.m} ELSE queued
    /\ w' = Idle
    /\ UNCHANGED <<obj, cache, gates, vultr, budget>>

(* The manager dies between two calls. It comes back with an empty queue    *)
(* and a fresh cache, and its watches announce every object.                *)
Crash ==
    /\ Fault
    /\ w' = Idle
    /\ cache' = obj
    /\ queued' = Machines
    /\ UNCHANGED <<obj, gates, vultr>>

-----------------------------------------------------------------------------
(* The environment: Kubernetes, Cluster API, Vultr and the user.            *)

(* The cache catches up with the API server; For() queues the machine.      *)
CacheSync(m) ==
    /\ cache[m] # obj[m]
    /\ cache' = [cache EXCEPT ![m] = obj[m]]
    /\ queued' = queued \cup {m}
    /\ UNCHANGED <<obj, gates, vultr, w, budget>>

(* A watch event or a resync that changes nothing the controller reads.     *)
Event(m) ==
    /\ m \notin queued
    /\ queued' = queued \cup {m}
    /\ UNCHANGED <<obj, cache, gates, vultr, w, budget>>

(* The Machine controller sets the owner reference, then the bootstrap      *)
(* provider's secret; the watches on VultrMachine and Machine queue m.      *)
OwnerAdvances(m) ==
    /\ owner[m] # "bootstrapped"
    /\ owner' = [owner EXCEPT ![m] = IF @ = "none" THEN "linked"
                                                   ELSE "bootstrapped"]
    /\ queued' = queued \cup {m}
    /\ UNCHANGED <<obj, cache, infra, vultr, w, budget>>

(* What the cache shows of Cluster and VultrCluster changes, and the        *)
(* watches on both queue the machines of the cluster. The one on Cluster    *)
(* has a predicate, ClusterPausedTransitionsOrInfrastructureProvisioned: it *)
(* lets through what changes here (paused, unpaused, ready), and of the     *)
(* rest of the Cluster the reconcile reads nothing.                         *)
InfraChanges(new) ==
    /\ infra' = new
    /\ infra' # infra
    /\ queued' = Machines
    /\ UNCHANGED <<obj, cache, owner, vultr, w>>

ClusterAppears ==
    /\ ~MachineOnly
    /\ \E id \in BOOLEAN :
        InfraChanges([infra EXCEPT !.present = TRUE, !.lbID = @ \/ id])
    /\ UNCHANGED budget

ClusterReady ==
    /\ InfraChanges([infra EXCEPT !.ready = TRUE])
    /\ UNCHANGED budget

ClusterLost ==
    /\ InfraChanges([infra EXCEPT !.present = FALSE, !.lbID = FALSE])
    /\ Spend("mishaps")

Pause ==
    /\ InfraChanges([infra EXCEPT !.paused = TRUE])
    /\ Spend("pauses")

Unpause ==
    /\ InfraChanges([infra EXCEPT !.paused = FALSE])
    /\ UNCHANGED budget

(* kubectl delete, or the Machine controller deleting its infrastructure.   *)
DeleteObject(m) ==
    /\ obj[m].phase = "live"
    /\ obj' = [obj EXCEPT ![m].phase =
                    IF obj[m].finalizer THEN "deleting" ELSE "gone"]
    /\ UNCHANGED <<cache, queued, gates, vultr, w, budget>>

LoadBalancerActive ==
    /\ ~lb.active
    /\ lb' = [lb EXCEPT !.active = TRUE]
    /\ UNCHANGED <<kube, gates, inst, w, budget>>

InstanceChanges(i, new) ==
    /\ inst[i].place = "running"
    /\ inst' = [inst EXCEPT ![i] = new]
    /\ UNCHANGED <<kube, gates, lb, w>>

InstanceActive(i) ==
    /\ inst[i].status # "active"
    /\ InstanceChanges(i, [inst[i] EXCEPT !.status = "active"])
    /\ UNCHANGED budget

InstanceOdd(i) ==
    /\ inst[i].status # "other"
    /\ InstanceChanges(i, [inst[i] EXCEPT !.status = "other"])
    /\ Spend("mishaps")

(* The VM is destroyed behind the controller's back.                        *)
InstanceLost(i) ==
    /\ InstanceChanges(i, [inst[i] EXCEPT !.place = "destroyed"])
    /\ Spend("mishaps")

ListCatchesUp(i) ==
    /\ inst[i].place = "destroyed"
    /\ inst' = [inst EXCEPT ![i].place = "purged"]
    /\ UNCHANGED <<kube, gates, lb, w, budget>>

-----------------------------------------------------------------------------
Begin(m) == Skip(m) \/ BeginPaused(m) \/ BeginNormal(m) \/ BeginDelete(m)

VultrCall ==
    \/ GetInstance \/ FindInstance \/ CreateInstance
    \/ GetLoadBalancer \/ UpdateLoadBalancer
    \/ DeleteInstance \/ FindRemaining \/ DeleteRemaining

KubeCall ==
    \/ PatchPaused \/ PatchObject
    \/ PatchConditions \/ PatchMetadata \/ PatchStatus

WorkerStep == VultrCall \/ KubeCall \/ Finish

Environment ==
    \/ \E m \in Machines : \/ CacheSync(m) \/ Event(m)
                           \/ OwnerAdvances(m) \/ DeleteObject(m)
    \/ ClusterAppears \/ ClusterReady \/ ClusterLost \/ Pause \/ Unpause
    \/ LoadBalancerActive
    \/ \E i \in InstanceIDs : \/ InstanceActive(i) \/ InstanceOdd(i)
                              \/ InstanceLost(i) \/ ListCatchesUp(i)

Next == \/ \E m \in Machines : Begin(m)
        \/ WorkerStep
        \/ Crash
        \/ Environment

Spec == Init /\ [][Next]_vars

(* The worker runs, the queue is served, the cache and the listing catch up, *)
(* and the cluster, its load balancer and the VMs eventually come up. Faults,*)
(* mishaps, pauses and deletions are never forced.                           *)
Fairness ==
    /\ WF_vars(WorkerStep)
    /\ \A m \in Machines : /\ SF_vars(Begin(m))
                           /\ WF_vars(CacheSync(m))
                           /\ WF_vars(OwnerAdvances(m))
    /\ WF_vars(ClusterAppears) /\ WF_vars(ClusterReady)
    /\ WF_vars(LoadBalancerActive)
    /\ \A i \in InstanceIDs : WF_vars(InstanceActive(i)) /\ WF_vars(ListCatchesUp(i))

-----------------------------------------------------------------------------
(* Properties *)

(* What a listing can show of the VMs that were made for machine m.         *)
Own(m) == {i \in InstanceIDs : Listed(i) /\ inst[i].maker = m}

(* A machine never has two VMs in the account, whatever create answers were *)
(* lost, patches failed, reads were stale or restarts came between the      *)
(* listing in FindInstanceForMachine and the create.                        *)
AtMostOneInstance ==
    \A m \in Machines : \A i, j \in Own(m) : i = j

(* When the finalizer has let an object go, no VM made for it is left:      *)
(* reconcileDelete's 404s, the VMs that were never recorded in a providerID *)
(* and the lag of the listing included.                                     *)
FinalizedLeavesNoInstance ==
    \A m \in Machines : obj[m].phase = "finalized" => Own(m) = {}

(* No VM outlives an object that was deleted before our finalizer was on it *)
(* and that the worker has finished with: what the comment on               *)
(* MachineFinalizer says of every VultrMachine.                             *)
GoneLeavesNoInstance ==
    \A m \in Machines : (obj[m].phase = "gone" /\ w.m # m) => Own(m) = {}

(* An object that says it is provisioned has a provider ID: the early       *)
(* PatchObject makes this true although spec and status are two patches.    *)
ProvisionedHasProviderID ==
    \A m \in Machines :
        obj[m].provisioned => obj[m].providerID # NoID

(* The provider ID of a machine is a VM that was made for it, never another *)
(* machine's VM taken over by FindInstanceForMachine.                       *)
OwnInstanceOnly ==
    \A m \in Machines : \A i \in InstanceIDs :
        obj[m].providerID = i => inst[i].maker = m

(* The controller destroys only VMs of the machine it is reconciling, and   *)
(* only when that machine's object is being deleted or has gone.            *)
DestroysOnlyOwn ==
    [][\A i \in InstanceIDs :
          (inst[i].place = "running" /\ inst'[i].place = "destroyed" /\ w' # w)
          => inst[i].maker = w.m /\ obj[w.m].phase # "live"]_vars

(* A provisioned control plane machine has had a VM put behind the API      *)
(* server load balancer: a balancer that is not active, a 422 or a failed   *)
(* call of EnsureLoadBalancerMember is never mistaken for success.          *)
ProvisionedIsMember ==
    \A m \in ControlPlane : obj[m].provisioned =>
        \E i \in lb.members : inst[i].maker = m

(* A terminal failure stays the machine's reason until it is deleted: even  *)
(* a reconcile that started from a stale read does not overwrite it.        *)
TerminalIsSticky ==
    [][\A m \in Machines :
          (/\ obj[m].phase = "live" /\ obj'[m].phase = "live"
           /\ obj[m].reason = "UnexpectedStatus")
          => obj'[m].reason = "UnexpectedStatus"]_vars

(* A recorded VM is replaced in one case only: it is gone from the listing, *)
(* and the reconcile read the object before the VM was recorded. A 404 by   *)
(* itself, true or not, leads to InstanceNotFound and never to a create.    *)
NeverRecreated ==
    [][\A i \in InstanceIDs :
          (inst[i].place = "free" /\ inst'[i].place # "free")
          => LET known == obj[inst'[i].maker].providerID IN
             known # NoID => ~Listed(known) /\ w.base.providerID = NoID]_vars

(* Once an object with our finalizer is being deleted it goes away, unless  *)
(* the cluster is paused from some time on.                                 *)
DeletionCompletes ==
    \A m \in Machines :
        [](obj[m].phase = "deleting" =>
             <>(obj[m].phase = "finalized" \/ infra.paused))

(* Unless it is deleted or the cluster paused, a machine whose VM meets no  *)
(* mishap ends up provisioned: every waiting return of reconcileNormal is   *)
(* woken by a watch or comes back by itself.                                *)
ProvisioningCompletes ==
    \A m \in Machines :
        <>[](\/ obj[m].provisioned \/ obj[m].phase # "live" \/ infra.paused
             \/ budget.mishaps # MaxMishaps)
=============================================================================
