----------------------- MODULE VultrBareMetalMachine ------------------------
(***************************************************************************)
(* The VultrBareMetalMachine controller: one worker, as in VultrMachine.   *)
(* What differs is modelled here: the provider ID is written by Close and  *)
(* not earlier, servers are found by their tags alone, a VPC is attached   *)
(* before the machine joins the load balancer, deletion takes it out of the*)
(* load balancer, a terminal failure leaves provisioned alone, and Close   *)
(* runs in the reconcile's own context, which may have timed out.          *)
(*                                                                         *)
(* One action is one remote call with the local code up to the next call.  *)
(***************************************************************************)
EXTENDS Naturals, PatchHelper

CONSTANTS
    Machines,       \* VultrBareMetalMachine objects
    Foreign,        \* machines of other managers that use the same account
    ServerIDs,      \* IDs the Vultr API can give to bare metal servers
    OtherMembers,   \* VMs that the VultrMachine controller puts behind the balancer
    NoID,           \* "" : an empty providerID
    NoMachine,      \* the machine of an idle worker, the maker of no server
    ControlPlane,   \* the machines for which IsControlPlane() holds
    WantsVPC,       \* the machines with spec.vpcID
    NameOf,         \* VultrBareMetalMachine name, the name tag of its server
    ClusterOf,      \* the UID of the machine's Cluster, the other tag
    MachineOnly,    \* scope.MachineOnly(): the cluster is not a VultrCluster
    SyncedReads,    \* TRUE: reconciles start only from an up-to-date cache
    MaxFaults,      \* bound on failed calls, wrong answers, timeouts and crashes
    MaxMishaps,     \* bound on what befalls servers and VultrCluster out of band
    MaxPauses       \* bound on how often the Cluster is paused

ASSUME ConstantsAssumption ==
    /\ NoID \notin ServerIDs
    /\ NoMachine \notin Machines \cup Foreign
    /\ Foreign \cap Machines = {}
    /\ ControlPlane \subseteq Machines /\ WantsVPC \subseteq Machines
    /\ OtherMembers \cap (ServerIDs \cup {NoID}) = {}
    /\ MachineOnly \in BOOLEAN
    /\ SyncedReads \in BOOLEAN
    /\ {MaxFaults, MaxMishaps, MaxPauses} \subseteq Nat

(* Machines of one cluster live in one namespace, so their names differ.   *)
ASSUME NamesAssumption ==
    \A m, n \in Machines \cup Foreign :
        (NameOf[m] = NameOf[n] /\ ClusterOf[m] = ClusterOf[n]) => m = n

VARIABLES
    obj,      \* the VultrBareMetalMachine objects in the API server
    cache,    \* the controller's informer cache of obj
    queued,   \* the machines in the controller's work queue
    owner,    \* per machine: what its owner Machine offers so far
    infra,    \* what the controller's cache shows of Cluster and VultrCluster
    srv,      \* the bare metal servers in the Vultr account, by ID
    lb,       \* the API server load balancer
    other,    \* the VultrMachine controller between its Get and its Update of lb
    w,        \* the worker: the reconcile in progress
    budget    \* what is left of the bounds

kube   == <<obj, cache, queued>>
gates  == <<owner, infra, other>>
vultr  == <<srv, lb>>
vars   == <<obj, cache, queued, owner, infra, srv, lb, other, w, budget>>

-----------------------------------------------------------------------------
(* Types *)

(* The Reasons of the Ready condition; "" is a condition never set.        *)
Reasons == {"", "WaitingForClusterInfrastructure", "WaitingForBootstrapData",
            "ServerPending", "VPCAttachRequested", "WaitingForLoadBalancer",
            "ServerActive", "Deleting", "ServerCreationFailed",
            "ServerNotFound", "UnexpectedStatus", "VPCAttachFailed"}

(* terminalBareMetalReasons                                                 *)
TerminalReasons == {"UnexpectedStatus", "VPCAttachFailed"}

MaybeID == ServerIDs \cup {NoID}

(* provisioned is status.initialization.provisioned.                        *)
Object == [phase : Phases, finalizer : BOOLEAN, providerID : MaybeID,
           reason : Reasons, ready : BOOLEAN, provisioned : BOOLEAN,
           pausedCond : {"", "False", "True"}]

Statuses == {"pending", "active", "other"}

(* The create request carries the tags, so a server always has its maker's. *)
Server == [place : {"free", "running", "destroyed", "purged"},
           status : Statuses, maker : Machines \cup Foreign \cup {NoMachine},
           vpc : {"none", "requested", "attached"}]

Calls == {"idle", "paused", "get", "list", "create", "vpcList", "vpcAttach",
          "lbGet", "lbUpdate", "rmGet", "rmUpdate", "delete", "delList",
          "delRemaining", "conditions", "metadata", "status", "done"}

Members == SUBSET (ServerIDs \cup OtherMembers)

(* undone is history: the servers whose membership a write of the           *)
(* VultrMachine controller, of a list read before, has changed, and this    *)
(* controller has not written since.                                        *)
Balancer == [active : BOOLEAN, members : Members, undone : SUBSET ServerIDs]

(* list is what the VultrMachine controller will write.                     *)
OtherWorker == [busy : BOOLEAN, list : Members]

OtherIdle == [busy |-> FALSE, list |-> {}]

(* base is the patch helper's copy of the object as read, mem the copy the  *)
(* reconcile works on, id the server in hand, seen the members as read.     *)
Worker == [pc : Calls, m : Machines \cup {NoMachine}, base : Object,
           mem : Object, id : MaybeID, lbID : BOOLEAN, seen : Members,
           retry : BOOLEAN]

NewObject == [phase |-> "live", finalizer |-> FALSE, providerID |-> NoID,
              reason |-> "", ready |-> FALSE, provisioned |-> FALSE,
              pausedCond |-> ""]

Idle == [pc |-> "idle", m |-> NoMachine, base |-> NewObject,
         mem |-> NewObject, id |-> NoID, lbID |-> FALSE, seen |-> {},
         retry |-> FALSE]

FreeServer == [place |-> "free", status |-> "pending", maker |-> NoMachine,
               vpc |-> "none"]

ForeignServer(m) == [place |-> "running", status |-> "active", maker |-> m,
                     vpc |-> "none"]

TypeOK ==
    /\ obj \in [Machines -> Object]
    /\ cache \in [Machines -> Object]
    /\ queued \in SUBSET Machines
    /\ owner \in [Machines -> {"none", "linked", "bootstrapped"}]
    /\ infra \in [present : BOOLEAN, lbID : BOOLEAN, ready : BOOLEAN,
                  paused : BOOLEAN]
    /\ srv \in [ServerIDs -> Server]
    /\ lb \in Balancer
    /\ other \in OtherWorker
    /\ w \in Worker
    /\ budget \in [faults : Nat, mishaps : Nat, pauses : Nat]

Init ==
    /\ obj = [m \in Machines |-> NewObject]
    /\ cache = obj
    /\ queued = Machines
    /\ owner = [m \in Machines |-> "none"]
    /\ infra = [present |-> FALSE, lbID |-> FALSE, ready |-> FALSE,
                paused |-> FALSE]
    /\ srv \in [ServerIDs -> {FreeServer} \cup {ForeignServer(m) : m \in Foreign}]
    /\ lb = [active |-> FALSE, members |-> {}, undone |-> {}]
    /\ other = OtherIdle
    /\ w = Idle
    /\ budget = [faults |-> MaxFaults, mishaps |-> MaxMishaps,
                 pauses |-> MaxPauses]

Spend(kind) ==
    /\ budget[kind] > 0
    /\ budget' = [budget EXCEPT ![kind] = @ - 1]

Call(c) == w.pc = c

Fault == Spend("faults")

NoFault == UNCHANGED budget

(* The call fails: for this reason, or for one out of sight.                *)
FailsIf(reason) == (reason /\ NoFault) \/ Fault

-----------------------------------------------------------------------------
(* Close: conditions, then metadata and spec, then status; a call with no   *)
(* change is skipped, one that fails does not stop the next.                *)

MetadataPatched(o, k) ==
    LET f == Merged(o.finalizer, k.base.finalizer, k.mem.finalizer)
    IN  [o EXCEPT !.finalizer  = f,
                  !.providerID = Merged(@, k.base.providerID, k.mem.providerID),
                  !.phase = IF @ = "deleting" /\ ~f THEN "finalized" ELSE @]

StatusPatched(o, k) ==
    [o EXCEPT !.ready = Merged(@, k.base.ready, k.mem.ready),
              !.provisioned = Merged(@, k.base.provisioned, k.mem.provisioned)]

AfterMetadata(k) ==
    IF \/ k.mem.ready # k.base.ready
       \/ k.mem.provisioned # k.base.provisioned
    THEN "status" ELSE "done"

AfterConditions(k) ==
    IF \/ k.mem.finalizer # k.base.finalizer
       \/ k.mem.providerID # k.base.providerID
    THEN "metadata" ELSE AfterMetadata(k)

ClosePC(k) ==
    IF k.mem.reason # k.base.reason THEN "conditions" ELSE AfterConditions(k)

(* The reconcile body returns; retry: with an error or with RequeueAfter.   *)
Returned(k, retry) == [k EXCEPT !.pc = ClosePC(k), !.retry = retry]

(* The three-way merge of the condition patch gives way to a reason that    *)
(* somebody else has written meanwhile. The patch locks the cached version, *)
(* so it goes through once the cache is up to date.                         *)
ReasonMergeable == cache[w.m].reason \in {w.base.reason, w.mem.reason}

PatchConditions ==
    LET next(r) == [w EXCEPT !.pc = AfterConditions(w), !.retry = @ \/ r] IN
    /\ Call("conditions")
    /\ \/ /\ Exists(obj[w.m]) /\ cache[w.m] = obj[w.m] /\ ReasonMergeable
          /\ obj' = [obj EXCEPT ![w.m].reason = w.mem.reason]
          /\ \/ NoFault /\ w' = next(FALSE)
             \/ Fault /\ w' = next(TRUE)
       \/ /\ FailsIf(~Exists(obj[w.m]) \/ ~ReasonMergeable)
          /\ w' = next(TRUE) /\ UNCHANGED obj
    /\ UNCHANGED <<cache, queued, gates, vultr>>

(* One of the other two patches: patched is the object after it.            *)
PatchCall(patched, next) ==
    /\ \/ /\ Exists(obj[w.m])
          /\ obj' = [obj EXCEPT ![w.m] = patched]
          /\ \/ NoFault /\ w' = [w EXCEPT !.pc = next]
             \/ Fault /\ w' = [w EXCEPT !.pc = next, !.retry = TRUE]
       \/ /\ FailsIf(~Exists(obj[w.m]))
          /\ w' = [w EXCEPT !.pc = next, !.retry = TRUE]
          /\ UNCHANGED obj
    /\ UNCHANGED <<cache, queued, gates, vultr>>

PatchMetadata ==
    Call("metadata") /\ PatchCall(MetadataPatched(obj[w.m], w), AfterMetadata(w))

PatchStatus == Call("status") /\ PatchCall(StatusPatched(obj[w.m], w), "done")

-----------------------------------------------------------------------------
(* What the scope writes into the copy in memory.                           *)

SetReadyCondition(k, reason) == [k EXCEPT !.mem.reason = reason]

(* Mutant: provisioned is taken back as well.                               *)
SetTerminalFailureAll(k, reason) ==
    [SetReadyCondition(k, reason) EXCEPT !.mem.ready = FALSE,
                                         !.mem.provisioned = FALSE]

SetTerminalFailure(k, reason) ==
    [SetReadyCondition(k, reason) EXCEPT !.mem.ready = FALSE]

(* Mutant: a VPC failure is tried again.                                    *)
TerminalStatus(o) == o.reason = "UnexpectedStatus"

HasTerminalFailure(o) == o.reason \in TerminalReasons

RemoveFinalizer(k) == [k EXCEPT !.mem.finalizer = FALSE]

(* The return of a reconcile that waits and asks to be called again.        *)
Waiting(k, reason) == Returned(SetReadyCondition(k, reason), TRUE)

-----------------------------------------------------------------------------
(* reconcileNormal after findOrCreateServer.                                *)

(* Mutant: the raw status becomes the reason.                               *)
ActivatedRaw(k) ==
    Returned([SetReadyCondition(k, "active") EXCEPT !.mem.ready = TRUE], FALSE)

Activated(k) ==
    Returned([SetReadyCondition(k, "ServerActive") EXCEPT
                  !.mem.ready = TRUE, !.mem.provisioned = TRUE], FALSE)

(* The control plane joins the load balancer, once its ID is known.         *)
Join(k) ==
    IF k.m \notin ControlPlane THEN Activated(k)
    ELSE IF k.lbID THEN [k EXCEPT !.pc = "lbGet"]
    ELSE Waiting(k, "WaitingForLoadBalancer")

(* Mutant: the VPC is left to a later reconcile.                            *)
AttachLater(k) == Join(k)

(* An active server: attach the VPC if the spec names one, then join.       *)
Attach(k) ==
    IF k.m \in WantsVPC THEN [k EXCEPT !.pc = "vpcList"] ELSE Join(k)

(* Mutant: only a server that was just made is recorded.                    *)
FoundNew(k, i, s) ==
    LET k1 == [k EXCEPT !.id = i] IN
    CASE s = "pending" ->
            Waiting([k1 EXCEPT !.mem.providerID = i], "ServerPending")
      [] s = "active"  -> Attach(k1)
      [] s = "other"   -> Returned(SetTerminalFailure(k1, "UnexpectedStatus"), FALSE)

(* findOrCreateServer has returned server i with status s. Its ID goes into *)
(* the copy in memory; Close will write it.                                 *)
Found(k, i, s) ==
    LET k1 == [k EXCEPT !.id = i, !.mem.providerID = i] IN
    CASE s = "pending" -> Waiting(k1, "ServerPending")
      [] s = "active"  -> Attach(k1)
      [] s = "other"   -> Returned(SetTerminalFailure(k1, "UnexpectedStatus"), FALSE)

-----------------------------------------------------------------------------
(* Reconcile up to its first remote call.                                   *)

(* Takes m from the queue and reads it from the cache.                      *)
Dequeue(m) ==
    /\ Call("idle")
    /\ m \in queued
    /\ SyncedReads => cache[m] = obj[m]
    /\ queued' = queued \ {m}
    /\ UNCHANGED <<obj, cache, gates, vultr, budget>>

PausedStatus == IF infra.paused THEN "True" ELSE "False"

(* The object is there and has an owner Machine with a Cluster.             *)
Linked(m) == Exists(cache[m]) /\ owner[m] # "none"

Unpaused(m) ==
    Linked(m) /\ ~infra.paused /\ cache[m].pausedCond = PausedStatus

(* The VultrCluster was read, or is not needed.                             *)
ClusterRead(m) ==
    infra.present \/ MachineOnly \/ cache[m].phase = "deleting"

Run(m) == [Idle EXCEPT !.m = m, !.base = cache[m], !.mem = cache[m],
                       !.lbID = infra.lbID]

(* The early returns that change nothing.                                   *)
Skip(m) ==
    /\ Dequeue(m)
    /\ \/ ~Linked(m)
       \/ infra.paused /\ cache[m].pausedCond = PausedStatus
       \/ Unpaused(m) /\ ~ClusterRead(m)
       \/ /\ Unpaused(m) /\ ClusterRead(m)
          /\ cache[m].phase = "live" /\ HasTerminalFailure(cache[m])
    /\ UNCHANGED w

(* EnsurePausedCondition finds the Paused condition out of date.            *)
BeginPaused(m) ==
    /\ Dequeue(m)
    /\ Linked(m)
    /\ cache[m].pausedCond # PausedStatus
    /\ w' = [Run(m) EXCEPT !.pc = "paused", !.mem.pausedCond = PausedStatus]

PatchPaused ==
    /\ Call("paused")
    /\ \/ /\ Exists(obj[w.m]) /\ cache[w.m] = obj[w.m]
          /\ obj' = [obj EXCEPT ![w.m].pausedCond = w.mem.pausedCond]
          /\ w' = [w EXCEPT !.pc = "done"]
          /\ NoFault
       \/ /\ FailsIf(~Exists(obj[w.m]))
          /\ w' = [w EXCEPT !.pc = "done", !.retry = TRUE]
          /\ UNCHANGED obj
    /\ UNCHANGED <<cache, queued, gates, vultr>>

(* reconcileNormal up to findOrCreateServer.                                *)
BeginNormal(m) ==
    /\ Dequeue(m)
    /\ Unpaused(m) /\ ClusterRead(m)
    /\ cache[m].phase = "live" /\ ~HasTerminalFailure(cache[m])
    /\ LET k == [Run(m) EXCEPT !.mem.finalizer = TRUE]
       IN  w' =
        IF ~infra.ready
        THEN Returned(SetReadyCondition(k, "WaitingForClusterInfrastructure"), FALSE)
        ELSE IF owner[m] # "bootstrapped"
        THEN Returned(SetReadyCondition(k, "WaitingForBootstrapData"), FALSE)
        ELSE [k EXCEPT !.pc =
                IF k.mem.providerID # NoID THEN "get" ELSE "list"]

(* Mutant: what has no provider ID has no server.                           *)
BeginDeleteByID(m) ==
    /\ Dequeue(m)
    /\ Unpaused(m)
    /\ cache[m].phase = "deleting"
    /\ LET k == SetReadyCondition([Run(m) EXCEPT !.id = cache[m].providerID],
                                  "Deleting")
       IN  w' = IF k.id # NoID THEN [k EXCEPT !.pc = "delete"]
                ELSE Returned(RemoveFinalizer(k), FALSE)

(* reconcileDelete: out of the load balancer, delete by ID, list.           *)
BeginDelete(m) ==
    /\ Dequeue(m)
    /\ Unpaused(m)
    /\ cache[m].phase = "deleting"
    /\ LET k == SetReadyCondition([Run(m) EXCEPT !.id = cache[m].providerID],
                                  "Deleting")
       IN  w' = [k EXCEPT !.pc =
                    IF k.id = NoID THEN "delList"
                    ELSE IF m \in ControlPlane /\ k.lbID THEN "rmGet"
                    ELSE "delete"]

-----------------------------------------------------------------------------
(* findOrCreateServer *)

(* GetBareMetalServer by provider ID. A 404, true or not, is reported and   *)
(* looked at again.                                                         *)
GetServer ==
    LET id == w.mem.providerID IN
    /\ Call("get")
    /\ \/ /\ srv[id].place = "running" /\ NoFault
          /\ w' = Found(w, id, srv[id].status)
       \/ /\ FailsIf(srv[id].place # "running")
          /\ w' = Waiting(w, "ServerNotFound")
       \/ Fault /\ w' = Returned(w, TRUE)
    /\ UNCHANGED <<kube, gates, vultr>>

(* A deleted server may still be listed.                                    *)
Listed(i) == srv[i].place \in {"running", "destroyed"}

(* Mutant: the name tag is enough.                                          *)
TagsOwnedByName(i, m) == NameOf[srv[i].maker] = NameOf[m]

(* TagsOwnedByMachine: the name tag and the cluster UID tag.                *)
TagsOwnedByMachine(i, m) ==
    /\ NameOf[srv[i].maker] = NameOf[m]
    /\ ClusterOf[srv[i].maker] = ClusterOf[m]

(* FindBareMetalServerByTags: what the listing, all pages of it, matches.   *)
Matches(m) == {i \in ServerIDs : Listed(i) /\ TagsOwnedByMachine(i, m)}

(* Adopt the one match, create when there is none; several are an error.    *)
FindServer ==
    /\ Call("list")
    /\ \/ /\ Matches(w.m) = {} /\ NoFault
          /\ w' = [w EXCEPT !.pc = "create"]
       \/ \E i \in ServerIDs :
            /\ Matches(w.m) = {i} /\ NoFault
            /\ w' = Found(w, i, srv[i].status)
       \/ /\ FailsIf(\E i, j \in Matches(w.m) : i # j)
          /\ w' = Returned(w, TRUE)
    /\ UNCHANGED <<kube, gates, vultr>>

Created(i) ==
    /\ srv[i].place = "free"
    /\ srv' = [srv EXCEPT ![i] = [place |-> "running", status |-> "pending",
                                  maker |-> w.m, vpc |-> "none"]]

(* Bootstrap data, cloud-config, SSH keys and the create itself may fail;   *)
(* a failed create may have made a server.                                  *)
CreateServer ==
    /\ Call("create")
    /\ \/ \E i \in ServerIDs :
            Created(i) /\ NoFault /\ w' = Found(w, i, "pending")
       \/ /\ UNCHANGED srv \/ \E i \in ServerIDs : Created(i)
          /\ Fault
          /\ w' = Waiting(w, "ServerCreationFailed")
    /\ UNCHANGED <<kube, gates, lb>>

-----------------------------------------------------------------------------
(* EnsureBareMetalVPC *)

(* IsTerminalVPCAttachError tells a plan without VPC networking, a terminal *)
(* failure, from an error that is tried again.                              *)
VPCFails ==
    \/ Fault /\ w' = Returned(w, TRUE)
    \/ /\ Spend("mishaps")
       /\ w' = Returned(SetTerminalFailure(w, "VPCAttachFailed"), FALSE)

ListVPC ==
    /\ Call("vpcList")
    /\ \/ /\ srv[w.id].vpc = "attached" /\ NoFault
          /\ w' = Join(w)
       \/ /\ srv[w.id].vpc # "attached" /\ NoFault
          /\ w' = [w EXCEPT !.pc = "vpcAttach"]
       \/ VPCFails
    /\ UNCHANGED <<kube, gates, vultr>>

(* Mutant: waits for the attachment without asking to be called again.      *)
AttachRequestedOnce(k) ==
    Returned(SetReadyCondition(k, "VPCAttachRequested"), FALSE)

AttachRequested(k) == Waiting(k, "VPCAttachRequested")

(* The attachment is asynchronous; an attach that failed may have been made. *)
AttachVPC ==
    LET requested ==
          [srv EXCEPT ![w.id].vpc = IF @ = "none" THEN "requested" ELSE @] IN
    /\ Call("vpcAttach")
    /\ \/ srv' = requested /\ NoFault /\ w' = AttachRequested(w)
       \/ UNCHANGED srv /\ VPCFails
       \/ srv' = requested /\ Fault /\ w' = Returned(w, TRUE)
    /\ UNCHANGED <<kube, gates, lb>>

-----------------------------------------------------------------------------
(* The load balancer: EnsureLoadBalancerMember, RemoveLoadBalancerMember.   *)

GetLoadBalancer ==
    /\ Call("lbGet")
    /\ \/ /\ ~lb.active /\ NoFault
          /\ w' = Waiting(w, "WaitingForLoadBalancer")
       \/ /\ lb.active /\ w.id \in lb.members /\ NoFault
          /\ w' = Activated(w)
       \/ /\ lb.active /\ w.id \notin lb.members /\ NoFault
          /\ w' = [w EXCEPT !.pc = "lbUpdate", !.seen = lb.members]
       \/ Fault /\ w' = Returned(w, TRUE)
    /\ UNCHANGED <<kube, gates, vultr>>

(* The load balancer once this controller has written the whole list.       *)
MembersWritten(list) ==
    [lb EXCEPT !.members = list, !.undone = @ \ {w.id}]

(* The members as read plus this one. A 422 is a load balancer that does    *)
(* not accept members yet.                                                  *)
UpdateLoadBalancer ==
    LET joined == MembersWritten(w.seen \cup {w.id}) IN
    /\ Call("lbUpdate")
    /\ \/ lb' = joined /\ NoFault /\ w' = Activated(w)
       \/ UNCHANGED lb /\ Fault /\ w' = Waiting(w, "WaitingForLoadBalancer")
       \/ lb' \in {lb, joined} /\ Fault /\ w' = Returned(w, TRUE)
    /\ UNCHANGED <<kube, gates, srv>>

(* A load balancer that is not found, does not have the server or has no    *)
(* other member is left as it is.                                           *)
GetForRemoval ==
    /\ Call("rmGet")
    /\ \/ /\ NoFault
          /\ w' = [w EXCEPT !.seen = lb.members, !.pc =
                     IF w.id \in lb.members /\ lb.members # {w.id}
                     THEN "rmUpdate" ELSE "delete"]
       \/ Fault /\ w' \in {Returned(w, TRUE), [w EXCEPT !.pc = "delete"]}
    /\ UNCHANGED <<kube, gates, vultr>>

(* Mutant: a failed update does not stop the deletion.                      *)
RemoveMemberAnyway ==
    LET left == MembersWritten(w.seen \ {w.id}) IN
    /\ Call("rmUpdate")
    /\ \/ lb' = left /\ NoFault
       \/ lb' \in {lb, left} /\ Fault
    /\ w' = [w EXCEPT !.pc = "delete"]
    /\ UNCHANGED <<kube, gates, srv>>

RemoveMember ==
    LET left == MembersWritten(w.seen \ {w.id}) IN
    /\ Call("rmUpdate")
    /\ \/ lb' = left /\ NoFault /\ w' = [w EXCEPT !.pc = "delete"]
       \/ lb' \in {lb, left} /\ Fault /\ w' = Returned(w, TRUE)
    /\ UNCHANGED <<kube, gates, srv>>

-----------------------------------------------------------------------------
(* reconcileDelete *)

Destroyed(i) ==
    /\ srv[i].place = "running"
    /\ srv' = [srv EXCEPT ![i].place = "destroyed"]

(* DeleteBareMetalServer by provider ID. A 404 is not believed: the listing *)
(* that follows decides.                                                    *)
DeleteServer ==
    /\ Call("delete")
    /\ \/ /\ Destroyed(w.id) /\ NoFault
          /\ w' = [w EXCEPT !.pc = "delList"]
       \/ /\ FailsIf(srv[w.id].place # "running")
          /\ UNCHANGED srv
          /\ w' = [w EXCEPT !.pc = "delList"]
       \/ /\ UNCHANGED srv \/ Destroyed(w.id)
          /\ Fault /\ w' = Returned(w, TRUE)
    /\ UNCHANGED <<kube, gates, lb>>

(* Mutant: does not come back while the listing lags.                       *)
FindRemainingOnce ==
    /\ Call("delList")
    /\ w' = Returned(IF Matches(w.m) = {} THEN RemoveFinalizer(w) ELSE w, FALSE)
    /\ NoFault
    /\ UNCHANGED <<kube, gates, vultr>>

(* Only an empty list frees the object.                                     *)
FindRemaining ==
    /\ Call("delList")
    /\ \/ /\ Matches(w.m) = {} /\ NoFault
          /\ w' = Returned(RemoveFinalizer(w), FALSE)
       \/ \E i \in ServerIDs :
            /\ Matches(w.m) = {i} /\ NoFault
            /\ w' = IF i = w.mem.providerID THEN Returned(w, TRUE)
                    ELSE [w EXCEPT !.id = i, !.pc = "delRemaining"]
       \/ /\ FailsIf(\E i, j \in Matches(w.m) : i # j)
          /\ w' = Returned(w, TRUE)
    /\ UNCHANGED <<kube, gates, vultr>>

(* A listed server that is not the provider ID's; the reconcile comes back  *)
(* whatever the answer.                                                     *)
DeleteRemaining ==
    /\ Call("delRemaining")
    /\ \/ Destroyed(w.id) /\ NoFault
       \/ srv[w.id].place # "running" /\ UNCHANGED srv /\ NoFault
       \/ UNCHANGED srv /\ Fault
    /\ w' = Returned(w, TRUE)
    /\ UNCHANGED <<kube, gates, lb>>

-----------------------------------------------------------------------------
(* How a reconcile ends.                                                    *)

Finish ==
    /\ Call("done")
    /\ queued' = IF w.retry THEN queued \cup {w.m} ELSE queued
    /\ w' = Idle
    /\ UNCHANGED <<obj, cache, gates, vultr, budget>>

(* The reconcile's context expires: the next call fails, and so does every  *)
(* call of Close, which uses the same context.                              *)
TimeOut ==
    /\ ~Call("idle") /\ ~Call("done")
    /\ Fault
    /\ w' = [w EXCEPT !.pc = "done", !.retry = TRUE]
    /\ UNCHANGED <<kube, gates, vultr>>

(* The manager dies between two calls and comes back with an empty queue    *)
(* and a fresh cache; its watches announce every object.                    *)
Crash ==
    /\ Fault
    /\ w' = Idle
    /\ cache' = obj
    /\ queued' = Machines
    /\ UNCHANGED <<obj, gates, vultr>>

-----------------------------------------------------------------------------
(* The environment: Kubernetes, Cluster API, Vultr, the VultrMachine        *)
(* controller and the user.                                                 *)

CacheSync(m) ==
    /\ cache[m] # obj[m]
    /\ cache' = [cache EXCEPT ![m] = obj[m]]
    /\ queued' = queued \cup {m}
    /\ UNCHANGED <<obj, gates, vultr, w, budget>>

(* A watch event or a resync that changes nothing the controller reads.     *)
Event(m) ==
    /\ m \notin queued
    /\ queued' = queued \cup {m}
    /\ UNCHANGED <<obj, cache, gates, vultr, w, budget>>

(* The owner reference, then the bootstrap data secret.                     *)
OwnerAdvances(m) ==
    /\ owner[m] # "bootstrapped"
    /\ owner' = [owner EXCEPT ![m] = IF @ = "none" THEN "linked"
                                                   ELSE "bootstrapped"]
    /\ queued' = queued \cup {m}
    /\ UNCHANGED <<obj, cache, infra, vultr, other, w, budget>>

(* What the cache shows of Cluster and VultrCluster changes, and the        *)
(* watches on both queue the machines of the cluster. The one on Cluster    *)
(* has a predicate, ClusterPausedTransitionsOrInfrastructureProvisioned: it *)
(* lets through what changes here (paused, unpaused, ready), and of the     *)
(* rest of the Cluster the reconcile reads nothing.                         *)
InfraChanges(new) ==
    /\ infra' = new
    /\ infra' # infra
    /\ queued' = Machines
    /\ UNCHANGED <<obj, cache, owner, vultr, other, w>>

ClusterAppears ==
    /\ ~MachineOnly
    /\ \E id \in BOOLEAN :
        InfraChanges([infra EXCEPT !.present = TRUE, !.lbID = @ \/ id])
    /\ UNCHANGED budget

ClusterReady ==
    /\ InfraChanges([infra EXCEPT !.ready = TRUE])
    /\ UNCHANGED budget

ClusterLost ==
    /\ InfraChanges([infra EXCEPT !.present = FALSE, !.lbID = FALSE])
    /\ Spend("mishaps")

Pause ==
    /\ InfraChanges([infra EXCEPT !.paused = TRUE])
    /\ Spend("pauses")

Unpause ==
    /\ InfraChanges([infra EXCEPT !.paused = FALSE])
    /\ UNCHANGED budget

DeleteObject(m) ==
    /\ obj[m].phase = "live"
    /\ obj' = [obj EXCEPT ![m].phase =
                    IF obj[m].finalizer THEN "deleting" ELSE "gone"]
    /\ UNCHANGED <<cache, queued, gates, vultr, w, budget>>

LoadBalancerActive ==
    /\ ~lb.active
    /\ lb' = [lb EXCEPT !.active = TRUE]
    /\ UNCHANGED <<kube, gates, srv, w, budget>>

(* The VultrMachine controller reads the members to add a VM and writes the *)
(* list it makes of them later; it never takes one out. A read that is      *)
(* followed by no write is no step here.                                    *)
OtherGet(v) ==
    /\ ~other.busy
    /\ lb.active /\ v \notin lb.members
    /\ other' = [busy |-> TRUE, list |-> lb.members \cup {v}]
    /\ UNCHANGED <<kube, owner, infra, vultr, w, budget>>

(* Servers that have joined or left since the read are undone.              *)
OtherUpdate ==
    LET changed == (lb.members \ other.list) \cup (other.list \ lb.members) IN
    /\ other.busy
    /\ lb' = [lb EXCEPT !.members = other.list,
                        !.undone = @ \cup (changed \cap ServerIDs)]
    /\ other' = OtherIdle
    /\ UNCHANGED <<kube, owner, infra, srv, w, budget>>

ServerChanges(i, new) ==
    /\ srv[i].place = "running"
    /\ srv' = [srv EXCEPT ![i] = new]
    /\ UNCHANGED <<kube, gates, lb, w>>

ServerActive(i) ==
    /\ srv[i].status # "active"
    /\ ServerChanges(i, [srv[i] EXCEPT !.status = "active"])
    /\ UNCHANGED budget

VPCAttached(i) ==
    /\ srv[i].vpc = "requested"
    /\ ServerChanges(i, [srv[i] EXCEPT !.vpc = "attached"])
    /\ UNCHANGED budget

ServerOdd(i) ==
    /\ srv[i].status # "other"
    /\ ServerChanges(i, [srv[i] EXCEPT !.status = "other"])
    /\ Spend("mishaps")

(* The server is destroyed behind the controller's back.                    *)
ServerLost(i) ==
    /\ ServerChanges(i, [srv[i] EXCEPT !.place = "destroyed"])
    /\ Spend("mishaps")

ListCatchesUp(i) ==
    /\ srv[i].place = "destroyed"
    /\ srv' = [srv EXCEPT ![i].place = "purged"]
    /\ UNCHANGED <<kube, gates, lb, w, budget>>

-----------------------------------------------------------------------------
Begin(m) == Skip(m) \/ BeginPaused(m) \/ BeginNormal(m) \/ BeginDelete(m)

VultrCall ==
    \/ GetServer \/ FindServer \/ CreateServer \/ ListVPC \/ AttachVPC
    \/ GetLoadBalancer \/ UpdateLoadBalancer \/ GetForRemoval \/ RemoveMember
    \/ DeleteServer \/ FindRemaining \/ DeleteRemaining

KubeCall == PatchPaused \/ PatchConditions \/ PatchMetadata \/ PatchStatus

WorkerStep == VultrCall \/ KubeCall \/ Finish

Environment ==
    \/ \E m \in Machines : \/ CacheSync(m) \/ Event(m)
                           \/ OwnerAdvances(m) \/ DeleteObject(m)
    \/ ClusterAppears \/ ClusterReady \/ ClusterLost \/ Pause \/ Unpause
    \/ LoadBalancerActive \/ OtherUpdate
    \/ \E v \in OtherMembers : OtherGet(v)
    \/ \E i \in ServerIDs : \/ ServerActive(i) \/ VPCAttached(i)
                            \/ ServerOdd(i) \/ ServerLost(i)
                            \/ ListCatchesUp(i)

Next == \/ \E m \in Machines : Begin(m)
        \/ WorkerStep
        \/ TimeOut \/ Crash
        \/ Environment

Spec == Init /\ [][Next]_vars

(* As in VultrMachine; a requested VPC is eventually attached.              *)
Fairness ==
    /\ WF_vars(WorkerStep)
    /\ \A m \in Machines : /\ SF_vars(Begin(m))
                           /\ WF_vars(CacheSync(m))
                           /\ WF_vars(OwnerAdvances(m))
    /\ WF_vars(ClusterAppears) /\ WF_vars(ClusterReady)
    /\ WF_vars(LoadBalancerActive)
    /\ \A i \in ServerIDs : /\ WF_vars(ServerActive(i)) /\ WF_vars(VPCAttached(i))
                            /\ WF_vars(ListCatchesUp(i))

FairSpec == Spec /\ Fairness

-----------------------------------------------------------------------------
(* Properties *)

(* What a listing can show of the servers that were made for machine m.     *)
Own(m) == {i \in ServerIDs : Listed(i) /\ srv[i].maker = m}

Lifecycle == INSTANCE MachineLifecycle WITH
    Servers <- ServerIDs,
    phase <- [m \in Machines |-> obj[m].phase],
    held <- [m \in Machines |-> Own(m)]

(* The bare metal controller keeps the promise of MachineLifecycle: one     *)
(* server per machine, and none left when the finalizer lets the object go, *)
(* although the provider ID is written only by Close, which a timeout, a    *)
(* restart or a failed patch may keep from running.                         *)
ImplementsLifecycle == Lifecycle!Spec

(* A live machine that says it is provisioned has had a server that is      *)
(* attached to the VPC of its spec and, for the control plane, behind the   *)
(* load balancer: no waiting return, 422 or failed call is mistaken for     *)
(* success, whichever of the patches of Close got through. It is behind it  *)
(* still, unless the VultrMachine controller has written a list that it     *)
(* read before the server joined.                                           *)
ProvisionedIsConnected ==
    \A m \in Machines : (obj[m].provisioned /\ obj[m].phase = "live") =>
        \E i \in ServerIDs :
            /\ srv[i].maker = m
            /\ m \in WantsVPC => srv[i].vpc = "attached"
            /\ m \in ControlPlane => i \in lb.members \cup lb.undone

(* The provider ID of a machine is a server that was made for it, in every  *)
(* account that machines, and clusters with equal names, share: the tags    *)
(* that FindBareMetalServerByTags compares tell them apart.                 *)
OwnServerOnly ==
    \A m \in Machines : \A i \in ServerIDs :
        obj[m].providerID = i => srv[i].maker = m

(* The controller destroys only servers of the machine it is reconciling,   *)
(* and only when that machine's object is being deleted or has gone.        *)
DestroysOnlyOwn ==
    [][\A i \in ServerIDs :
          (srv[i].place = "running" /\ srv'[i].place = "destroyed" /\ w' # w)
          => srv[i].maker = w.m /\ obj[w.m].phase # "live"]_vars

(* A server deleted by its ID is no longer a backend of the load balancer,  *)
(* unless RemoveLoadBalancerMember saw it alone there, or saw no list, or   *)
(* the VultrMachine controller has put it back since, by writing a list     *)
(* that it had read before the removal.                                     *)
LeavesLoadBalancerFirst ==
    [][\A i \in ServerIDs :
          (/\ w.pc = "delete" /\ w.m \in ControlPlane /\ w' # w
           /\ srv[i].place = "running" /\ srv'[i].place = "destroyed"
           /\ i \in lb.members \ lb.undone)
          => w.seen \in {{}, {i}}]_vars

(* status.initialization "is never updated after provisioning is            *)
(* completed": not by a terminal failure, nor by a reconcile that began     *)
(* from a stale read.                                                       *)
ProvisionedIsStable ==
    [][\A m \in Machines : obj[m].provisioned => obj'[m].provisioned]_vars

(* A terminal failure stays the machine's reason until it is deleted: even  *)
(* a reconcile that started from a stale read does not overwrite it.        *)
TerminalIsSticky ==
    [][\A m \in Machines :
          (/\ obj[m].phase = "live" /\ obj'[m].phase = "live"
           /\ obj[m].reason \in {"UnexpectedStatus", "VPCAttachFailed"})
          => obj'[m].reason = obj[m].reason]_vars

(* A provisioned machine ends up with its provider ID, by which Cluster API *)
(* knows its node: spec and status are two patches, and the reconcile comes *)
(* back for the one that failed.                                            *)
ProvisionedGetsProviderID ==
    \A m \in Machines :
        [](obj[m].provisioned =>
             <>(\/ obj[m].providerID # NoID \/ obj[m].phase # "live"
                \/ infra.paused \/ budget.mishaps # MaxMishaps))

(* Once an object with our finalizer is being deleted it goes away, unless  *)
(* the cluster is paused from some time on.                                 *)
DeletionCompletes ==
    \A m \in Machines :
        [](obj[m].phase = "deleting" =>
             <>(obj[m].phase = "finalized" \/ infra.paused))

(* Unless it is deleted, paused or meets a mishap, a machine ends up        *)
(* provisioned: every waiting return is woken by a watch or comes back by   *)
(* itself, and a server made by a lost create is adopted.                   *)
ProvisioningCompletes ==
    \A m \in Machines :
        <>[](\/ obj[m].provisioned \/ obj[m].phase # "live" \/ infra.paused
             \/ budget.mishaps # MaxMishaps)
=============================================================================
