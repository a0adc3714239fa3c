---------------------------- MODULE VultrCluster ----------------------------
(***************************************************************************)
(* The VultrCluster controller: it gives a cluster its API server load     *)
(* balancer, writes the balancer's ID to spec and status and its address   *)
(* to the control plane endpoint, and deletes the balancer with the        *)
(* cluster. One object and the one worker that reconciles it.              *)
(*                                                                         *)
(* One action is one remote call with the local code up to the next one.   *)
(***************************************************************************)
EXTENDS Naturals, FiniteSets, PatchHelper

CONSTANTS
    LoadBalancers,  \* IDs the Vultr API can give to load balancers
    NoLB,           \* "" : no ID, no endpoint
    GivenLBs,       \* those a user may have named in the spec beforehand
    MaxFaults,      \* bound on failed calls, wrong answers and crashes
    MaxStale,       \* bound on reconciles that start from an outdated cache
    MaxMishaps,     \* bound on balancers lost out of band and on moves
    MaxPauses       \* bound on how often the Cluster is paused

ASSUME ConstantsAssumption ==
    /\ NoLB \notin LoadBalancers
    /\ GivenLBs \subseteq LoadBalancers
    /\ {MaxFaults, MaxStale, MaxMishaps, MaxPauses} \subseteq Nat

VARIABLES
    obj,      \* the VultrCluster object in the Kubernetes API server
    cache,    \* the controller's informer cache of obj
    queued,   \* whether the object is in the controller's work queue
    owned,    \* whether the Cluster controller has set the owner reference
    paused,   \* annotations.IsPaused, as the cache shows it
    lbs,      \* the load balancers in the Vultr account, by ID
    w,        \* the worker: the reconcile in progress
    budget    \* what is left of the bounds

vars == <<obj, cache, queued, owned, paused, lbs, w, budget>>

-----------------------------------------------------------------------------
(* Types *)

MaybeLB == LoadBalancers \cup {NoLB}

(* The Reasons of the LoadBalancerReady condition.                          *)
Reasons == {"", "ErrorFetchingLoadBalancer", "ErrorCreatingLoadBalancer",
            "WaitingForIP", "LoadBalancerReady"}

(* specID is spec.network.apiServerLoadbalancers.ID, statusID the resource  *)
(* ID of the status reference; endpoint is the balancer whose address       *)
(* spec.controlPlaneEndpoint holds. The object has its defaults, and the    *)
(* subscription status is left out.                                         *)
Object == [phase : Phases, finalizer : BOOLEAN, specID : MaybeLB,
           endpoint : MaybeLB, statusID : MaybeLB, provisioned : BOOLEAN,
           reason : Reasons]

(* made: by this controller, for this cluster.                              *)
LoadBalancer == [place : {"free", "live", "deleted"}, ip : BOOLEAN,
                 made : BOOLEAN]

Calls == {"idle", "get", "create", "delGet", "delete", "conditions",
          "metadata", "status", "done"}

(* base is the patch helper's copy of the object as read, mem the copy the  *)
(* reconcile works on; vlbID is the load balancer it looks for. stale       *)
(* remembers, for the properties alone, that the read was outdated.         *)
Worker == [pc : Calls, base : Object, mem : Object, vlbID : MaybeLB,
           retry : BOOLEAN, stale : BOOLEAN]

NewObject(given) ==
    [phase |-> "live", finalizer |-> FALSE, specID |-> given,
     endpoint |-> NoLB, statusID |-> NoLB, provisioned |-> FALSE,
     reason |-> ""]

Idle == [pc |-> "idle", base |-> NewObject(NoLB), mem |-> NewObject(NoLB),
         vlbID |-> NoLB, retry |-> FALSE, stale |-> FALSE]

TypeOK ==
    /\ obj \in Object
    /\ cache \in Object
    /\ {queued, owned, paused} \subseteq BOOLEAN
    /\ lbs \in [LoadBalancers -> LoadBalancer]
    /\ w \in Worker
    /\ budget \in [faults : Nat, stale : Nat, mishaps : Nat, pauses : Nat]

Init ==
    /\ \E given \in GivenLBs \cup {NoLB} :
        /\ obj = NewObject(given)
        /\ lbs = [i \in LoadBalancers |->
                    [place |-> IF i = given THEN "live" ELSE "free",
                     ip |-> i = given, made |-> FALSE]]
    /\ cache = obj
    /\ queued = TRUE
    /\ owned = FALSE
    /\ paused = FALSE
    /\ w = Idle
    /\ budget = [faults |-> MaxFaults, stale |-> MaxStale,
                 mishaps |-> MaxMishaps, pauses |-> MaxPauses]

Spend(kind) ==
    /\ budget[kind] > 0
    /\ budget' = [budget EXCEPT ![kind] = @ - 1]

Fault == Spend("faults")

NoFault == UNCHANGED budget

-----------------------------------------------------------------------------
(* Patches: Close makes up to three calls, for conditions, for metadata and *)
(* spec, and for status, and skips those that change nothing.               *)

MetadataPatched(o, k) ==
    LET f == Merged(o.finalizer, k.base.finalizer, k.mem.finalizer)
    IN  [o EXCEPT !.finalizer = f,
                  !.specID    = Merged(@, k.base.specID, k.mem.specID),
                  !.endpoint  = Merged(@, k.base.endpoint, k.mem.endpoint),
                  !.phase     = IF @ = "deleting" /\ ~f THEN "finalized" ELSE @]

StatusPatched(o, k) ==
    [o EXCEPT !.statusID = Merged(@, k.base.statusID, k.mem.statusID),
              !.provisioned = Merged(@, k.base.provisioned, k.mem.provisioned)]

AfterMetadata(k) ==
    IF \/ k.mem.statusID # k.base.statusID
       \/ k.mem.provisioned # k.base.provisioned
    THEN "status" ELSE "done"

AfterConditions(k) ==
    IF \/ k.mem.finalizer # k.base.finalizer
       \/ k.mem.specID # k.base.specID
       \/ k.mem.endpoint # k.base.endpoint
    THEN "metadata" ELSE AfterMetadata(k)

ClosePC(k) ==
    IF k.mem.reason # k.base.reason THEN "conditions" ELSE AfterConditions(k)

(* The reconcile body returns; retry: with an error or with RequeueAfter.   *)
Returned(k, retry) == [k EXCEPT !.pc = ClosePC(k), !.retry = retry]

(* Mutant: the text of the error becomes the Reason.                        *)
FailedRaw(k, reason) ==
    Returned([k EXCEPT !.mem.reason = "load balancer not found"], TRUE)

(* An error is returned with the LoadBalancerReady condition set.           *)
Failed(k, reason) == Returned([k EXCEPT !.mem.reason = reason], TRUE)

RemoveFinalizer(k) == [k EXCEPT !.mem.finalizer = FALSE]

(* Mutant: waits for the address without asking to be called again.         *)
WaitForWatch(k) ==
    Returned([k EXCEPT !.mem.provisioned = FALSE,
                       !.mem.reason = "WaitingForIP"], FALSE)

WaitForIP(k) ==
    Returned([k EXCEPT !.mem.provisioned = FALSE,
                       !.mem.reason = "WaitingForIP"], TRUE)

Ready(k, id) ==
    Returned([k EXCEPT !.mem.endpoint = id, !.mem.provisioned = TRUE,
                       !.mem.reason = "LoadBalancerReady"], FALSE)

(* Mutant: the balancer is recorded only once it has an address.            *)
RecordedLate(k, id, ip) ==
    IF ip THEN Ready([k EXCEPT !.mem.statusID = id, !.mem.specID = id], id)
          ELSE WaitForIP(k)

(* Mutant: the balancer is recorded in the spec alone.                      *)
RecordedInSpec(k, id, ip) ==
    LET k1 == [k EXCEPT !.mem.specID = id]
    IN  IF ip THEN Ready(k1, id) ELSE WaitForIP(k1)

(* Mutant: the balancer is recorded in the status alone.                    *)
RecordedInStatus(k, id, ip) ==
    LET k1 == [k EXCEPT !.mem.statusID = id]
    IN  IF ip THEN Ready(k1, id) ELSE WaitForIP(k1)

(* reconcileNormal has load balancer id in hand, with or without an address.*)
Recorded(k, id, ip) ==
    LET k1 == [k EXCEPT !.mem.statusID = id, !.mem.specID = id]
    IN  IF ip THEN Ready(k1, id) ELSE WaitForIP(k1)

-----------------------------------------------------------------------------
(* Reconcile: what it does before its first call to Vultr.                  *)

(* What the object says of load balancers.                                  *)
Names(o) == <<o.specID, o.statusID, o.endpoint>>

(* The cache, which r.Get reads, lags behind in what decides a reconcile.   *)
Outdated == cache.phase # obj.phase \/ Names(cache) # Names(obj)

Dequeue ==
    /\ w.pc = "idle"
    /\ queued
    /\ queued' = FALSE
    /\ UNCHANGED <<obj, cache, owned, paused, lbs>>

(* The object is there, has an owner Cluster and is not paused.             *)
Reconcilable == Exists(cache) /\ owned /\ ~paused

Run == [Idle EXCEPT !.base = cache, !.mem = cache, !.stale = Outdated]

(* The early returns: no object, no owner, paused.                          *)
Skip ==
    /\ Dequeue
    /\ ~Reconcilable
    /\ UNCHANGED <<w, budget>>

(* The read of a reconcile that goes on; nothing makes it wait for the      *)
(* cache.                                                                   *)
Fetch ==
    /\ Dequeue
    /\ Reconcilable
    /\ IF Outdated THEN Spend("stale") ELSE UNCHANGED budget

(* reconcileNormal up to its first call: an ID in the spec comes before the *)
(* one in the status.                                                       *)
BeginNormal ==
    /\ Fetch
    /\ cache.phase = "live"
    /\ LET id == IF cache.specID # NoLB THEN cache.specID ELSE cache.statusID
       IN  w' = [Run EXCEPT !.mem.finalizer = TRUE, !.vlbID = id,
                            !.pc = IF id = NoLB THEN "create" ELSE "get"]

(* reconcileDelete up to its first call: the ID in the status alone counts, *)
(* and without one there is nothing to delete.                              *)
BeginDelete ==
    /\ Fetch
    /\ cache.phase = "deleting"
    /\ w' = IF cache.statusID = NoLB THEN Returned(RemoveFinalizer(Run), FALSE)
            ELSE [Run EXCEPT !.vlbID = cache.statusID, !.pc = "delGet"]

-----------------------------------------------------------------------------
(* The calls of one reconcile.                                              *)

Call(c) == w.pc = c

Live(i) == lbs[i].place = "live"

(* Mutant: a load balancer that is not found is made again.                 *)
GetOrRecreate ==
    /\ Call("get")
    /\ \/ /\ Live(w.vlbID) /\ NoFault
          /\ w' = Recorded(w, w.vlbID, lbs[w.vlbID].ip)
       \/ ~Live(w.vlbID) /\ NoFault /\ w' = [w EXCEPT !.pc = "create"]
    /\ UNCHANGED <<obj, cache, queued, owned, paused, lbs>>

(* GetLoadBalancer: every error, a 404 too, is the reconcile's error.       *)
GetLoadBalancer ==
    /\ Call("get")
    /\ \/ /\ Live(w.vlbID) /\ NoFault
          /\ w' = Recorded(w, w.vlbID, lbs[w.vlbID].ip)
       \/ ~Live(w.vlbID) /\ NoFault /\ w' = Failed(w, "ErrorFetchingLoadBalancer")
       \/ Fault /\ w' = Failed(w, "ErrorFetchingLoadBalancer")
    /\ UNCHANGED <<obj, cache, queued, owned, paused, lbs>>

(* Unused IDs are interchangeable: which one is given out does not matter.  *)
FreeID == CHOOSE i \in LoadBalancers : lbs[i].place = "free"

(* CreateLoadBalancer. A failed create may have made a load balancer; no    *)
(* later listing looks for it.                                              *)
CreateLoadBalancer ==
    /\ Call("create")
    /\ \/ \E i \in LoadBalancers, ip \in BOOLEAN :
            /\ lbs[i].place = "free" /\ i = FreeID
            /\ lbs' = [lbs EXCEPT ![i] = [place |-> "live", ip |-> ip,
                                          made |-> TRUE]]
            /\ \/ NoFault /\ w' = Recorded(w, i, ip)
               \/ Fault /\ w' = Failed(w, "ErrorCreatingLoadBalancer")
       \/ UNCHANGED lbs /\ Fault /\ w' = Failed(w, "ErrorCreatingLoadBalancer")
    /\ UNCHANGED <<obj, cache, queued, owned, paused>>

(* GetLoadBalancer in reconcileDelete: an error, a 404 too, ends it.        *)
GetForDelete ==
    /\ Call("delGet")
    /\ \/ Live(w.vlbID) /\ NoFault /\ w' = [w EXCEPT !.pc = "delete"]
       \/ ~Live(w.vlbID) /\ NoFault /\ w' = Returned(w, TRUE)
       \/ Fault /\ w' = Returned(w, TRUE)
    /\ UNCHANGED <<obj, cache, queued, owned, paused, lbs>>

(* Mutant: the finalizer is left to the reconcile that finds nothing.       *)
DeleteAndComeBack ==
    /\ Call("delete")
    /\ NoFault \/ Fault
    /\ lbs' = [lbs EXCEPT ![w.vlbID].place = "deleted"]
    /\ w' = Returned(w, TRUE)
    /\ UNCHANGED <<obj, cache, queued, owned, paused>>

DeleteLoadBalancer ==
    LET deleted == [lbs EXCEPT ![w.vlbID].place = "deleted"] IN
    /\ Call("delete")
    /\ \/ /\ Live(w.vlbID) /\ NoFault
          /\ lbs' = deleted
          /\ w' = Returned(RemoveFinalizer(w), FALSE)
       \/ ~Live(w.vlbID) /\ NoFault /\ UNCHANGED lbs /\ w' = Returned(w, TRUE)
       \/ Fault /\ lbs' \in {lbs, deleted} /\ w' = Returned(w, TRUE)
    /\ UNCHANGED <<obj, cache, queued, owned, paused>>

(* The three-way merge of the condition patch, on the cached version.       *)
ReasonMergeable == cache.reason \in {w.base.reason, w.mem.reason}

(* The patch locks the cached version, so it goes through once the cache is *)
(* up to date; giving up before that is a fault.                            *)
PatchConditions ==
    LET next(r) == [w EXCEPT !.pc = AfterConditions(w), !.retry = @ \/ r] IN
    /\ Call("conditions")
    /\ \/ /\ Exists(obj) /\ cache = obj /\ ReasonMergeable
          /\ obj' = [obj EXCEPT !.reason = w.mem.reason]
          /\ \/ NoFault /\ w' = next(FALSE)
             \/ Fault /\ w' = next(TRUE)
       \/ /\ ~Exists(obj) \/ ~ReasonMergeable
          /\ NoFault /\ w' = next(TRUE) /\ UNCHANGED obj
       \/ Fault /\ w' = next(TRUE) /\ UNCHANGED obj
    /\ UNCHANGED <<cache, queued, owned, paused, lbs>>

(* A patch that is not locked; patched is what it makes of the object.      *)
PatchCall(patched, pc) ==
    LET next(r) == [w EXCEPT !.pc = pc, !.retry = @ \/ r] IN
    /\ \/ /\ Exists(obj)
          /\ obj' = patched
          /\ \/ NoFault /\ w' = next(FALSE)
             \/ Fault /\ w' = next(TRUE)
       \/ /\ ~Exists(obj) /\ NoFault
          /\ w' = next(TRUE) /\ UNCHANGED obj
       \/ Fault /\ w' = next(TRUE) /\ UNCHANGED obj
    /\ UNCHANGED <<cache, queued, owned, paused, lbs>>

PatchMetadata ==
    Call("metadata") /\ PatchCall(MetadataPatched(obj, w), AfterMetadata(w))

PatchStatus ==
    Call("status") /\ PatchCall(StatusPatched(obj, w), "done")

Finish ==
    /\ Call("done")
    /\ queued' = (queued \/ w.retry)
    /\ w' = Idle
    /\ UNCHANGED <<obj, cache, owned, paused, lbs, budget>>

(* The manager dies between two calls and comes back with a fresh cache.    *)
Crash ==
    /\ Fault
    /\ w' = Idle
    /\ cache' = obj
    /\ queued' = TRUE
    /\ UNCHANGED <<obj, owned, paused, lbs>>

-----------------------------------------------------------------------------
(* The environment: Kubernetes, Cluster API, Vultr and the user.            *)

CacheSync ==
    /\ cache # obj
    /\ cache' = obj
    /\ queued' = TRUE
    /\ UNCHANGED <<obj, owned, paused, lbs, w, budget>>

(* A watch event or a resync that changes nothing the controller reads.     *)
Event ==
    /\ ~queued
    /\ queued' = TRUE
    /\ UNCHANGED <<obj, cache, owned, paused, lbs, w, budget>>

(* The Cluster controller sets the owner reference.                         *)
OwnerSet ==
    /\ ~owned
    /\ owned' = TRUE
    /\ queued' = TRUE
    /\ UNCHANGED <<obj, cache, paused, lbs, w, budget>>

Pause ==
    /\ ~paused
    /\ Spend("pauses")
    /\ paused' = TRUE
    /\ UNCHANGED <<obj, cache, queued, owned, lbs, w>>

(* The watch on Cluster lets exactly this event through.                    *)
Unpause ==
    /\ paused
    /\ paused' = FALSE
    /\ queued' = TRUE
    /\ UNCHANGED <<obj, cache, owned, lbs, w, budget>>

DeleteObject ==
    /\ obj.phase = "live"
    /\ obj' = [obj EXCEPT !.phase = IF obj.finalizer THEN "deleting" ELSE "gone"]
    /\ UNCHANGED <<cache, queued, owned, paused, lbs, w, budget>>

(* clusterctl move: the paused object is made anew, without its status, in  *)
(* another management cluster.                                              *)
Move ==
    /\ paused /\ w.pc = "idle" /\ obj.phase = "live"
    /\ Spend("mishaps")
    /\ obj' = [obj EXCEPT !.statusID = NoLB, !.provisioned = FALSE,
                          !.reason = ""]
    /\ cache' = obj'
    /\ queued' = TRUE
    /\ UNCHANGED <<owned, paused, lbs, w>>

LoadBalancerGetsIP(i) ==
    /\ Live(i) /\ ~lbs[i].ip
    /\ lbs' = [lbs EXCEPT ![i].ip = TRUE]
    /\ UNCHANGED <<obj, cache, queued, owned, paused, w, budget>>

(* The load balancer is deleted behind the controller's back.               *)
LoadBalancerLost(i) ==
    /\ Live(i)
    /\ Spend("mishaps")
    /\ lbs' = [lbs EXCEPT ![i].place = "deleted"]
    /\ UNCHANGED <<obj, cache, queued, owned, paused, w>>

-----------------------------------------------------------------------------
Begin == Skip \/ BeginNormal \/ BeginDelete

WorkerStep ==
    \/ GetLoadBalancer \/ CreateLoadBalancer
    \/ GetForDelete \/ DeleteLoadBalancer
    \/ PatchConditions \/ PatchMetadata \/ PatchStatus \/ Finish

Environment ==
    \/ CacheSync \/ Event \/ OwnerSet \/ Pause \/ Unpause \/ DeleteObject \/ Move
    \/ \E i \in LoadBalancers : LoadBalancerGetsIP(i) \/ LoadBalancerLost(i)

Next == Begin \/ WorkerStep \/ Crash \/ Environment

Spec == Init /\ [][Next]_vars

(* The worker runs, the queue is served, the cache catches up, the owner    *)
(* reference is set and a load balancer gets its address. Faults, mishaps,  *)
(* pauses and deletions are never forced.                                   *)
Fairness ==
    /\ WF_vars(WorkerStep) /\ WF_vars(Begin)
    /\ WF_vars(CacheSync) /\ WF_vars(OwnerSet)
    /\ \A i \in LoadBalancers : WF_vars(LoadBalancerGetsIP(i))

FairSpec == Spec /\ Fairness

-----------------------------------------------------------------------------
(* Properties *)

OneName(o) == \A i, j \in {o.specID, o.statusID, o.endpoint} \ {NoLB} : i = j

(* Spec, status and endpoint are not made to name two load balancers,       *)
(* although two patches write them, each of which may fail, and the manager *)
(* may die between them: machines (which take the status reference first),  *)
(* this controller (which takes the spec) and the clients of the endpoint   *)
(* all mean the same one. Only a reconcile that read an outdated object can *)
(* set them apart: it makes a load balancer for an object that has one.     *)
OneLoadBalancer == [][OneName(obj) /\ ~w.stale => OneName(obj)']_vars

(* The control plane endpoint, once written, is not changed: the cluster's  *)
(* certificates and kubeconfigs carry it. The exceptions are a reconcile    *)
(* from an outdated read, and the one after it that brings the names it set *)
(* apart together again.                                                    *)
EndpointStable ==
    [][obj.endpoint # NoLB /\ OneName(obj) /\ ~w.stale
       => obj'.endpoint = obj.endpoint]_vars

(* A load balancer is made only for an object that knows of none, or was    *)
(* read before it did: one that is missing is an error of GetLoadBalancer,  *)
(* never a reason for another.                                              *)
NeverRecreated ==
    [][\A i \in LoadBalancers :
          (lbs[i].place = "free" /\ lbs'[i].place = "live")
          => w.stale \/ (obj.specID = NoLB /\ obj.statusID = NoLB)]_vars

MadeAndLive == {i \in LoadBalancers : Live(i) /\ lbs[i].made}

(* What has happened so far: failed calls and crashes, outdated reads, and  *)
(* moves and losses.                                                        *)
Faults == MaxFaults - budget.faults

StaleReads == MaxStale - budget.stale

Mishaps == MaxMishaps - budget.mishaps

(* The cluster pays for one load balancer, and for at most one more for     *)
(* each failed call, crash or outdated read. Nothing looks for a load       *)
(* balancer by its label, so these do cost one; pauses, waits, retries,     *)
(* deletions and moves do not make the controller forget what it created.   *)
OneMorePerFault == Cardinality(MadeAndLive) <= 1 + Faults + StaleReads

(* When ClusterFinalizer has let the object go, the load balancer that was  *)
(* made for it is gone: what the comment on ClusterFinalizer says.          *)
FinalizedLeavesNoLoadBalancer == obj.phase = "finalized" => MadeAndLive = {}

(* What holds instead: the object leaves at most one load balancer behind   *)
(* for each failed call, crash, outdated read, move or loss of one, and     *)
(* none otherwise, although deletion trusts the status reference alone.     *)
LeavesOnePerFault ==
    obj.phase = "finalized" =>
        Cardinality(MadeAndLive) <= Faults + StaleReads + Mishaps

(* Unless it is deleted, paused, moved or loses its load balancer, a        *)
(* cluster ends up provisioned with an endpoint: every waiting return of    *)
(* reconcileNormal is woken by a watch or comes back by itself, and a       *)
(* failed patch of the spec is made up for.                                 *)
ProvisioningCompletes ==
    <>[](\/ obj.provisioned /\ obj.endpoint # NoLB
         \/ obj.phase # "live" \/ paused \/ Mishaps # 0)

(* "You can delete the workload cluster": an object with our finalizer that *)
(* is being deleted goes away, unless it is paused from some time on.       *)
DeletionCompletes ==
    [](obj.phase = "deleting" => <>(obj.phase = "finalized" \/ paused))

(* No call has failed, and nothing happened out of band, so far.            *)
Undisturbed == Faults = 0 /\ Mishaps = 0

(* The same as long as no call fails and the load balancer is not lost,     *)
(* outdated reads included.                                                 *)
UndisturbedDeletionCompletes ==
    [](obj.phase = "deleting" =>
         <>(obj.phase = "finalized" \/ paused \/ ~Undisturbed))
=============================================================================
