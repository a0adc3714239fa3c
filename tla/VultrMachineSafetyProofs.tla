---------------------- MODULE VultrMachineSafetyProofs ----------------------
(* More theorems about VultrMachine: whose VMs a machine records, replaces  *)
(* and destroys, what a provisioned machine has, and what stays terminal.   *)
(* The inductive invariants hold for every naming; what they say about the  *)
(* maker of a VM needs that the names of machines differ across clusters.   *)
EXTENDS VultrMachineProofs

(* The calls about an instance in hand.                                     *)
VMCalls == {"persist", "lbGet", "lbUpdate", "delRemaining"}

(* No two machines of the account have the same name.                       *)
NamesDiffer == \A m, n \in Machines : NameOf[m] = NameOf[n] => m = n

-----------------------------------------------------------------------------
(* Inductive invariants *)

(* A VM that was ever made has a maker.                                     *)
MakerInv ==
    \A i \in InstanceIDs : inst[i].place # "free" => inst[i].maker \in Machines

(* A VM that FindInstanceForMachine takes for one of m, as long as it is    *)
(* listed.                                                                  *)
Ours(i, m) == inst[i].place # "free" /\ OwnedByMachine(i, m)

HasOurs(o, m) == o.providerID # NoID => Ours(o.providerID, m)

(* Every provider ID, stored, cached or in memory, and every VM in hand     *)
(* passes the ownership check of its machine.                               *)
IdInv ==
    /\ \A m \in Machines : HasOurs(obj[m], m) /\ HasOurs(cache[m], m)
    /\ w.pc # "idle" => HasOurs(w.base, w.m) /\ HasOurs(w.mem, w.m)
    /\ w.pc \in VMCalls => Ours(w.vm, w.m)

(* The listing before a create is still true when the create is made.       *)
ListInv == w.pc = "create" => Matches(w.m) = {}

(* The list of members that is written back lacks none.                     *)
MemberInv == w.pc = "lbUpdate" => lb.members \subseteq w.seen

Joined(m) == \E i \in lb.members : Ours(i, m)

(* What the reconcile is about to report as provisioned has joined.         *)
JoinedInv ==
    /\ \A m \in ControlPlane : obj[m].provisioned \/ cache[m].provisioned => Joined(m)
    /\ (w.pc # "idle" /\ w.m \in ControlPlane /\ w.mem.provisioned) => Joined(w.m)

(* A reconcile that may set the Ready condition of a live object has not    *)
(* read a terminal failure.                                                 *)
StickyInv ==
    (w.pc \in NormalCalls \cup CloseCalls /\ w.base.phase = "live")
        => w.base.reason # "UnexpectedStatus"

-----------------------------------------------------------------------------

(* What the steps do, as far as the invariants see it.                      *)

(* A control plane machine is not reported without its load balancer.       *)
LEMMA ProceedProvisioned ==
    ASSUME NEW k \in Worker, k.m \in ControlPlane
    PROVE  Proceed(k).mem.provisioned = k.mem.provisioned
<1>1. [k EXCEPT !.pc = "lbGet"].mem = k.mem
  BY DEF Worker
<1> QED BY <1>1, WaitForLoadBalancerFacts DEF Proceed

(* The same when the instance has just been taken in hand.                  *)
LEMMA FoundProvisioned ==
    ASSUME NEW k \in Worker, k.m \in ControlPlane, NEW i \in InstanceIDs,
           NEW s \in Statuses
    PROVE  Found(k, i, s).mem.provisioned = k.mem.provisioned
<1> DEFINE k1 == [k EXCEPT !.vm = i, !.st = s]
<1>1. k1 \in Worker /\ k1.m = k.m /\ k1.mem = k.mem
  BY DEF Worker, MaybeID
<1>2. Found(k, i, s) = IF k.mem.providerID = i THEN Proceed(k1)
                       ELSE [k1 EXCEPT !.mem.providerID = i, !.pc = "persist"]
  BY DEF Found
<1> HIDE DEF k1
<1>3. CASE k.mem.providerID = i
  BY <1>1, <1>2, <1>3, ProceedProvisioned
<1>4. CASE k.mem.providerID # i
  BY <1>4, FoundFacts
<1> QED BY <1>3, <1>4

(* The instance is taken in hand: by its ID, from the listing, or just made. *)
Takes(i) ==
    \/ w.pc = "get" /\ i = w.mem.providerID /\ inst' = inst
    \/ w.pc = "list" /\ Matches(w.m) = {i} /\ inst' = inst
    \/ w.pc = "create" /\ Created(i, w.m, TRUE)

(* Which instance is in hand after a call to Vultr.                         *)
HandAfterCall ==
    /\ w'.m = w.m /\ w'.base = w.base
    /\ \/ /\ w'.mem.providerID = w.mem.providerID
          /\ w'.pc \in VMCalls =>
                \/ w.pc \in VMCalls /\ w'.vm = w.vm
                \/ Matches(w.m) = {w'.vm} /\ inst' = inst
       \/ \E i \in InstanceIDs : w'.mem.providerID = i /\ w'.vm = i /\ Takes(i)

(* What the call leads to.                                                  *)
NextAfterCall ==
    /\ w.pc \in NormalCalls \cup DeleteCalls
    /\ w'.pc = "create" => Matches(w.m) = {} /\ inst' = inst
    /\ w'.pc = "lbUpdate" => w'.seen = lb.members /\ lb' = lb

(* When it reports a control plane machine as provisioned.                  *)
JoinsAfterCall ==
    (w.m \in ControlPlane /\ w'.mem.provisioned) =>
        \/ w.mem.provisioned
        \/ w.pc = "lbGet" /\ w.vm \in lb.members /\ lb' = lb /\ inst' = inst
        \/ w.pc = "lbUpdate" /\ lb'.members = w.seen \cup {w.vm} /\ inst' = inst

CallEffect == HandAfterCall /\ NextAfterCall /\ JoinsAfterCall

(* A call that ends the reconcile.                                          *)
LEMMA EndsEffect ==
    ASSUME w.pc \in NormalCalls \cup DeleteCalls, w'.pc \in Closing, Same(w, w'),
           w'.mem.provisioned => w.mem.provisioned
    PROVE  CallEffect
  BY DEF CallEffect, HandAfterCall, NextAfterCall, JoinsAfterCall, Same, VMCalls,
     Closing, CloseCalls

(* A call that takes an instance in hand.                                   *)
LEMMA TakesEffect ==
    ASSUME w \in Worker, NEW i \in InstanceIDs, NEW s \in Statuses,
           w' = Found(w, i, s), Takes(i)
    PROVE  CallEffect
<1>1. /\ w'.m = w.m /\ w'.base = w.base /\ w'.vm = i /\ w'.mem.providerID = i
      /\ w'.pc \in Closing \cup {"lbGet", "persist"}
  BY FoundFacts
<1>2. w.m \in ControlPlane => w'.mem.provisioned = w.mem.provisioned
  BY FoundProvisioned
<1>3. w.pc \in NormalCalls
  BY DEF Takes, NormalCalls
<1> QED BY <1>1, <1>2, <1>3 DEF CallEffect, HandAfterCall, NextAfterCall, JoinsAfterCall,
        Closing, CloseCalls

(* The calls to Vultr.                                                      *)
LEMMA VultrCallEffect ==
    ASSUME TypeInv, VultrCall
    PROVE  CallEffect
<1>1. /\ w \in Worker /\ inst \in [InstanceIDs -> Instance]
      /\ lb \in [active : BOOLEAN, members : SUBSET InstanceIDs]
  BY DEF TypeInv, TypeOK
<1>2. ASSUME w.pc \in NormalCalls \cup DeleteCalls, w' = Returned(w, TRUE)
      PROVE  CallEffect
  <2>1. w'.pc \in Closing /\ Same(w, w') /\ w'.mem = w.mem
    BY <1>1, <1>2, ReturnedFacts
  <2> QED BY <1>2, <2>1, EndsEffect
<1>3. ASSUME w.pc \in NormalCalls, w' = WaitForLoadBalancer(w)
      PROVE  CallEffect
  <2>1. w'.pc \in Closing /\ Same(w, w') /\ w'.mem.provisioned = w.mem.provisioned
    BY <1>1, <1>3, WaitForLoadBalancerFacts
  <2> QED BY <1>3, <2>1, EndsEffect
<1>4. CASE GetInstance
  <2>1. w.pc = "get" /\ w.mem.providerID \in InstanceIDs /\ inst' = inst
    BY <1>4 DEF GetInstance, Call, TypeInv, WorkerOK, vultr
  <2>2. CASE w' = Found(w, w.mem.providerID, inst[w.mem.providerID].status)
    <3>1. inst[w.mem.providerID].status \in Statuses
      BY <1>1, <2>1 DEF Instance
    <3> QED BY <1>1, <2>1, <2>2, <3>1, TakesEffect DEF Takes
  <2>3. CASE w' = Returned(SetReadyCondition(w, "InstanceNotFound"), TRUE)
    <3>1. w'.pc \in Closing /\ Same(w, w') /\ w'.mem.provisioned = w.mem.provisioned
      BY <1>1, <2>3, ReturnedReasonFacts DEF Reasons
    <3> QED BY <2>1, <3>1, EndsEffect DEF NormalCalls
  <2> QED BY <1>2, <1>4, <2>1, <2>2, <2>3 DEF GetInstance, NormalCalls
<1>5. CASE FindInstance
  <2>1. w.pc = "list" /\ inst' = inst
    BY <1>5 DEF FindInstance, Call, vultr
  <2>2. CASE Matches(w.m) = {} /\ w' = [w EXCEPT !.pc = "create"]
    <3>1. w'.m = w.m /\ w'.base = w.base /\ w'.mem = w.mem /\ w'.pc = "create"
      BY <1>1, <2>2 DEF Worker
    <3> QED BY <2>1, <2>2, <3>1 DEF CallEffect, HandAfterCall, NextAfterCall,
               JoinsAfterCall, VMCalls, NormalCalls
  <2>3. CASE \E i \in InstanceIDs : Matches(w.m) = {i} /\ w' = Found(w, i, inst[i].status)
    <3>1. PICK i \in InstanceIDs : Matches(w.m) = {i} /\ w' = Found(w, i, inst[i].status)
      BY <2>3
    <3>2. inst[i].status \in Statuses
      BY <1>1 DEF Instance
    <3> QED BY <1>1, <2>1, <3>1, <3>2, TakesEffect DEF Takes
  <2> QED BY <1>2, <1>5, <2>1, <2>2, <2>3 DEF FindInstance, NormalCalls
<1>6. CASE CreateInstance
  <2>1. w.pc = "create"
    BY <1>6 DEF CreateInstance, Call
  <2>2. CASE \E i \in InstanceIDs : Created(i, w.m, TRUE) /\ w' = Found(w, i, "pending")
    <3>1. PICK i \in InstanceIDs : Created(i, w.m, TRUE) /\ w' = Found(w, i, "pending")
      BY <2>2
    <3> QED BY <1>1, <2>1, <3>1, TakesEffect DEF Takes, Statuses
  <2>3. CASE w' = CreateFailed(w)
    <3>1. w'.pc \in Closing /\ Same(w, w') /\ ~w'.mem.provisioned
      BY <1>1, <2>3, CreateFailedFacts
    <3> QED BY <2>1, <3>1, EndsEffect DEF NormalCalls
  <2> QED BY <1>6, <2>2, <2>3 DEF CreateInstance
<1>7. CASE GetLoadBalancer
  <2>1. w.pc = "lbGet" /\ inst' = inst /\ lb' = lb
    BY <1>7 DEF GetLoadBalancer, Call, vultr
  <2>2. CASE w.vm \in lb.members /\ w' = Reported(w)
    <3>1. w'.pc \in Closing /\ Same(w, w')
      BY <1>1, <2>2, ReportedFacts
    <3> QED BY <2>1, <2>2, <3>1 DEF CallEffect, HandAfterCall, NextAfterCall,
               JoinsAfterCall, Same, VMCalls, Closing, CloseCalls, NormalCalls
  <2>3. CASE w' = [w EXCEPT !.pc = "lbUpdate", !.seen = lb.members]
    <3>1. /\ w'.m = w.m /\ w'.base = w.base /\ w'.mem = w.mem /\ w'.vm = w.vm
          /\ w'.pc = "lbUpdate" /\ w'.seen = lb.members
      BY <1>1, <2>3 DEF Worker
    <3> QED BY <2>1, <3>1 DEF CallEffect, HandAfterCall, NextAfterCall,
               JoinsAfterCall, VMCalls, NormalCalls
  <2> QED BY <1>2, <1>3, <1>7, <2>1, <2>2, <2>3 DEF GetLoadBalancer, NormalCalls
<1>8. CASE UpdateLoadBalancer
  <2>1. w.pc = "lbUpdate" /\ inst' = inst
    BY <1>8 DEF UpdateLoadBalancer, Call
  <2>2. CASE /\ lb' = [lb EXCEPT !.members = w.seen \cup {w.vm}]
             /\ w' = Reported(w)
    <3>1. w'.pc \in Closing /\ Same(w, w') /\ lb'.members = w.seen \cup {w.vm}
      BY <1>1, <2>2, ReportedFacts
    <3> QED BY <2>1, <3>1 DEF CallEffect, HandAfterCall, NextAfterCall,
               JoinsAfterCall, Same, VMCalls, Closing, CloseCalls, NormalCalls
  <2> QED BY <1>2, <1>3, <1>8, <2>1, <2>2 DEF UpdateLoadBalancer, NormalCalls
<1>9. ASSUME w.pc \in DeleteCalls, w' = [w EXCEPT !.pc = "delList"]
      PROVE  CallEffect
  <2>1. w'.m = w.m /\ w'.base = w.base /\ w'.mem = w.mem /\ w'.pc = "delList"
    BY <1>1, <1>9 DEF Worker
  <2> QED BY <1>9, <2>1 DEF CallEffect, HandAfterCall, NextAfterCall, JoinsAfterCall,
             VMCalls
<1>10. CASE DeleteInstance
  <2>1. w.pc = "delete"
    BY <1>10 DEF DeleteInstance, Call
  <2> QED BY <1>2, <1>9, <1>10, <2>1 DEF DeleteInstance, DeleteCalls
<1>11. CASE FindRemaining
  <2>1. w.pc = "delList" /\ inst' = inst
    BY <1>11 DEF FindRemaining, Call, vultr
  <2>2. CASE w' = Returned(RemoveFinalizer(w), FALSE)
    <3> DEFINE k == RemoveFinalizer(w)
    <3>1. /\ k \in Worker /\ k.m = w.m /\ k.base = w.base
          /\ k.mem.providerID = w.mem.providerID
          /\ k.mem.provisioned = w.mem.provisioned
      BY <1>1 DEF RemoveFinalizer, Worker, Object
    <3>2. w' = Returned(k, FALSE)
      BY <2>2
    <3> HIDE DEF k
    <3>3. w'.pc \in Closing /\ Same(k, w') /\ w'.mem = k.mem
      BY <3>1, <3>2, ReturnedFacts
    <3> QED BY <2>1, <3>1, <3>3 DEF CallEffect, HandAfterCall, NextAfterCall,
               JoinsAfterCall, Same, VMCalls, Closing, CloseCalls, DeleteCalls
  <2>3. CASE \E i \in InstanceIDs : /\ Matches(w.m) = {i}
                                    /\ w' = [w EXCEPT !.vm = i, !.pc = "delRemaining"]
    <3>1. /\ w'.m = w.m /\ w'.base = w.base /\ w'.mem = w.mem
          /\ w'.pc = "delRemaining" /\ Matches(w.m) = {w'.vm}
      BY <1>1, <2>3 DEF Worker
    <3> QED BY <2>1, <3>1 DEF CallEffect, HandAfterCall, NextAfterCall, JoinsAfterCall,
               DeleteCalls
  <2> QED BY <1>2, <1>11, <2>1, <2>2, <2>3 DEF FindRemaining, DeleteCalls
<1>12. CASE DeleteRemaining
  BY <1>2, <1>12 DEF DeleteRemaining, Call, DeleteCalls
<1> QED BY <1>4, <1>5, <1>6, <1>7, <1>8, <1>10, <1>11, <1>12 DEF VultrCall

(* The object p that a patch makes of o.                                    *)
PatchedTo(o, p) ==
    /\ p.phase = "live" => o.phase = "live"
    /\ p.providerID \in {o.providerID, w.mem.providerID}
    /\ p.provisioned = o.provisioned \/ p.provisioned = w.mem.provisioned
    /\ \/ p.reason = o.reason
       \/ /\ w.pc = "conditions" /\ p.reason = w.mem.reason
          /\ o.reason \in {w.base.reason, w.mem.reason}

(* The calls to the API server.                                             *)
LEMMA KubeCallEffect ==
    ASSUME TypeInv, KubeCall
    PROVE  /\ cache' = cache /\ inst' = inst /\ lb' = lb
           /\ w.m \in Machines /\ w.pc \in CloseCalls \cup {"paused", "persist"}
           /\ w'.m = w.m /\ w'.base = w.base /\ w'.vm = w.vm
           /\ w'.mem.providerID = w.mem.providerID
           /\ w.m \in ControlPlane => w'.mem.provisioned = w.mem.provisioned
           /\ \/ w'.pc \in Closing /\ (w.pc = "paused" => w'.pc = "done")
              \/ w.pc = "persist" /\ w'.pc = "lbGet"
           /\ \/ obj' = obj
              \/ \E p \in Object : obj' = [obj EXCEPT ![w.m] = p] /\ PatchedTo(obj[w.m], p)
<1> DEFINE o == obj[w.m]
<1>1. /\ w \in Worker /\ w.m \in Machines /\ obj \in [Machines -> Object] /\ o \in Object
      /\ w.pc \in CloseCalls \cup {"paused", "persist"}
      /\ cache' = cache /\ inst' = inst /\ lb' = lb
  BY DEF KubeCall, PatchPaused, PatchObject, PatchConditions, PatchMetadata, PatchStatus,
     Call, CloseCalls, TypeInv, TypeOK, WorkerOK, vultr
<1>2. /\ w.mem.reason \in Reasons /\ w.mem.pausedCond \in {"", "False", "True"}
      /\ w.mem.provisioned \in BOOLEAN
  BY <1>1 DEF Worker, Object
<1> DEFINE p1 == [o EXCEPT !.pausedCond = w.mem.pausedCond]
           p2 == [o EXCEPT !.reason = w.mem.reason]
           p3 == MetadataPatched(o, w)
           p4 == [o EXCEPT !.provisioned = w.mem.provisioned]
<1>3. p1 \in Object /\ PatchedTo(o, p1)
  BY <1>1, <1>2 DEF Object, PatchedTo
<1>4. p2 \in Object /\ (w.pc = "conditions" /\ o.reason \in {w.base.reason, w.mem.reason}
                          => PatchedTo(o, p2))
  BY <1>1, <1>2 DEF Object, PatchedTo
<1>5. p3 \in Object /\ PatchedTo(o, p3)
  <2>1. p3 \in Object
    BY <1>1, MetadataPatchedType
  <2>2. /\ p3.phase = "live" => o.phase = "live"
        /\ p3.providerID = Merged(o.providerID, w.base.providerID, w.mem.providerID)
        /\ p3.provisioned = o.provisioned /\ p3.reason = o.reason
    BY <1>1 DEF MetadataPatched, Object
  <2> QED BY <2>1, <2>2 DEF PatchedTo, Merged
<1>6. p4 \in Object /\ PatchedTo(o, p4)
  BY <1>1, <1>2 DEF Object, PatchedTo
<1>7. \/ obj' = obj
      \/ obj' = [obj EXCEPT ![w.m] = p1]
      \/ /\ obj' = [obj EXCEPT ![w.m] = p2] /\ w.pc = "conditions"
         /\ o.reason \in {w.base.reason, w.mem.reason}
      \/ obj' = [obj EXCEPT ![w.m] = p3]
      \/ obj' = [obj EXCEPT ![w.m] = p4]
  BY DEF KubeCall, PatchPaused, PatchObject, PatchConditions, PatchMetadata, PatchStatus,
     Call, ReasonMergeable
<1>8. \/ obj' = obj
      \/ \E p \in Object : obj' = [obj EXCEPT ![w.m] = p] /\ PatchedTo(o, p)
  <2> HIDE DEF o, p1, p2, p3, p4
  <2> QED BY <1>3, <1>4, <1>5, <1>6, <1>7
<1> DEFINE Moves ==
      /\ w'.m = w.m /\ w'.base = w.base /\ w'.vm = w.vm
      /\ w'.mem.providerID = w.mem.providerID
      /\ w.m \in ControlPlane => w'.mem.provisioned = w.mem.provisioned
      /\ \/ w'.pc \in Closing /\ (w.pc = "paused" => w'.pc = "done")
         \/ w.pc = "persist" /\ w'.pc = "lbGet"
<1>9. CASE PatchObject
  <2> SUFFICES Moves
    BY <1>1, <1>8
  <2>1. w.pc = "persist"
    BY <1>9 DEF PatchObject, Call
  <2>2. CASE w' = Proceed(w)
    <3>1. Same(w, w') /\ w'.pc \in Closing \cup {"lbGet"}
      BY <1>1, <2>2, ProceedFacts
    <3>2. w.m \in ControlPlane => w'.mem.provisioned = w.mem.provisioned
      BY <1>1, <2>2, ProceedProvisioned
    <3> QED BY <2>1, <3>1, <3>2 DEF Same
  <2>3. CASE w' = Returned(w, TRUE)
    <3>1. Same(w, w') /\ w'.pc \in Closing /\ w'.mem = w.mem
      BY <1>1, <2>3, ReturnedFacts
    <3> QED BY <2>1, <3>1 DEF Same
  <2> QED BY <1>9, <2>2, <2>3 DEF PatchObject
<1>10. CASE PatchPaused \/ PatchConditions \/ PatchMetadata \/ PatchStatus
  <2> SUFFICES Moves
    BY <1>1, <1>8
  <2>1. AfterConditions(w) \in Closing /\ AfterMetadata(w) \in Closing
    BY DEF AfterConditions, AfterMetadata, Closing, CloseCalls
  <2>2. CASE PatchPaused
    <3>1. \/ w' = [w EXCEPT !.pc = "done"]
          \/ w' = [w EXCEPT !.pc = "done", !.retry = TRUE]
      BY <2>2 DEF PatchPaused
    <3>2. /\ w'.m = w.m /\ w'.base = w.base /\ w'.vm = w.vm /\ w'.mem = w.mem
          /\ w'.pc = "done"
      BY <1>1, <3>1 DEF Worker
    <3> QED BY <3>2 DEF Closing
  <2>3. CASE PatchConditions \/ PatchMetadata \/ PatchStatus
    <3>1. w.pc # "paused"
      BY <2>3 DEF PatchConditions, PatchMetadata, PatchStatus, Call
    <3>2. \E c \in Closing, t \in {w.retry \/ FALSE, w.retry \/ TRUE} :
              w' = [w EXCEPT !.pc = c, !.retry = t]
      BY <2>1, <2>3 DEF PatchConditions, PatchMetadata, PatchStatus, Closing
    <3>3. /\ w'.m = w.m /\ w'.base = w.base /\ w'.vm = w.vm /\ w'.mem = w.mem
          /\ w'.pc \in Closing
      BY <1>1, <3>2 DEF Worker
    <3> QED BY <3>1, <3>3
  <2> QED BY <1>10, <2>2, <2>3
<1> QED BY <1>9, <1>10 DEF KubeCall

(* A step of the environment, or a reconcile that returns at once.          *)
Still == Environment \/ (\E m \in Machines : Skip(m)) \/ UNCHANGED vars

(* These leave the worker and the members alone.                            *)
LEMMA StillEffect ==
    ASSUME TypeInv, Still
    PROVE  w' = w /\ lb'.members = lb.members
<1>1. lb \in [active : BOOLEAN, members : SUBSET InstanceIDs]
  BY DEF TypeInv, TypeOK
<1>2. w' = w
  BY DEF Still, Environment, CacheSync, Event, OwnerAdvances, DeleteObject,
     ClusterAppears, ClusterReady, ClusterLost, Pause, Unpause, InfraChanges,
     LoadBalancerActive, InstanceActive, InstanceOdd, InstanceLost, InstanceChanges,
     ListCatchesUp, Skip, vars
<1>3. lb' = lb \/ lb' = [lb EXCEPT !.active = TRUE]
  BY DEF Still, Environment, CacheSync, Event, OwnerAdvances, DeleteObject,
     ClusterAppears, ClusterReady, ClusterLost, Pause, Unpause, InfraChanges,
     LoadBalancerActive, InstanceActive, InstanceOdd, InstanceLost, InstanceChanges,
     ListCatchesUp, Skip, Dequeue, vars, vultr
<1> QED BY <1>1, <1>2, <1>3

(* A reconcile begins from the cached object.                               *)
LEMMA BeginEffect ==
    ASSUME TypeInv, NEW m \in Machines,
           BeginPaused(m) \/ BeginNormal(m) \/ BeginDelete(m)
    PROVE  /\ obj' = obj /\ cache' = cache /\ inst' = inst /\ lb' = lb /\ w.pc = "idle"
           /\ w'.m = m /\ w'.base = cache[m]
           /\ w'.mem.providerID = cache[m].providerID
           /\ w'.mem.provisioned = cache[m].provisioned
           /\ \/ w'.pc = "paused"
              \/ cache[m].phase = "live" /\ ~Terminal(cache[m])
                 /\ w'.pc \in {"get", "list"} \cup Closing
              \/ cache[m].phase = "deleting" /\ w'.pc \in {"delete", "delList"}
<1> DEFINE r == Run(m)
<1>1. r \in Worker /\ r.m = m /\ r.base = cache[m] /\ r.mem = cache[m] /\ cache[m] \in Object
  BY RunFacts DEF TypeInv, TypeOK
<1> HIDE DEF r
<1>2. obj' = obj /\ cache' = cache /\ inst' = inst /\ lb' = lb /\ w.pc = "idle"
  BY DEF BeginPaused, BeginNormal, BeginDelete, Dequeue, vultr
<1>3. CASE BeginPaused(m)
  <2>1. w' = [r EXCEPT !.pc = "paused", !.mem.pausedCond = PausedStatus]
    BY <1>3 DEF BeginPaused, r
  <2>2. /\ w'.m = m /\ w'.base = cache[m] /\ w'.pc = "paused"
        /\ w'.mem.providerID = cache[m].providerID
        /\ w'.mem.provisioned = cache[m].provisioned
    BY <1>1, <2>1 DEF Worker, Object
  <2> QED BY <1>2, <2>2
<1>4. CASE BeginNormal(m)
  <2> DEFINE k == [r EXCEPT !.mem.finalizer = TRUE]
  <2>1. /\ k \in Worker /\ k.m = m /\ k.base = cache[m]
        /\ k.mem.providerID = cache[m].providerID
        /\ k.mem.provisioned = cache[m].provisioned
    BY <1>1 DEF Worker, Object
  <2>2. cache[m].phase = "live" /\ ~Terminal(cache[m])
    BY <1>4 DEF BeginNormal
  <2> HIDE DEF k
  <2>3. \/ \E reason \in Reasons : w' = Returned(SetReadyCondition(k, reason), FALSE)
        \/ \E c \in {"get", "list"} : w' = [k EXCEPT !.pc = c]
    BY <1>4 DEF BeginNormal, k, r, Reasons
  <2>4. CASE \E reason \in Reasons : w' = Returned(SetReadyCondition(k, reason), FALSE)
    <3>1. w'.pc \in Closing /\ Same(k, w') /\ w'.mem.provisioned = k.mem.provisioned
      BY <2>1, <2>4, ReturnedReasonFacts
    <3> QED BY <1>2, <2>1, <2>2, <3>1 DEF Same
  <2>5. CASE \E c \in {"get", "list"} : w' = [k EXCEPT !.pc = c]
    <3>1. w'.m = k.m /\ w'.base = k.base /\ w'.mem = k.mem /\ w'.pc \in {"get", "list"}
      BY <2>1, <2>5 DEF Worker
    <3> QED BY <1>2, <2>1, <2>2, <3>1
  <2> QED BY <2>3, <2>4, <2>5
<1>5. CASE BeginDelete(m)
  <2> DEFINE k == SetReadyCondition(r, "Deleting")
  <2>1. k \in Worker /\ Same(r, k) /\ k.mem.provisioned = r.mem.provisioned
    BY <1>1, SetReadyConditionFacts DEF Reasons
  <2>2. cache[m].phase = "deleting"
    BY <1>5 DEF BeginDelete
  <2> HIDE DEF k
  <2>3. \E c \in {"delete", "delList"} : w' = [k EXCEPT !.pc = c]
    BY <1>5 DEF BeginDelete, k, r
  <2>4. w'.m = k.m /\ w'.base = k.base /\ w'.mem = k.mem /\ w'.pc \in {"delete", "delList"}
    BY <2>1, <2>3 DEF Worker
  <2> QED BY <1>1, <1>2, <2>1, <2>2, <2>4 DEF Same
<1> QED BY <1>3, <1>4, <1>5

(* What a VM a can become when nobody makes it: b.                          *)
Ages(a, b) ==
    /\ b.maker = a.maker /\ b.tagged = a.tagged
    /\ a.place # "free" /\ b.place # "free"
    /\ b.place \in {"running", "destroyed"} => a.place \in {"running", "destroyed"}

(* A free ID becomes a VM of the worker's machine.                          *)
Makes(i, new) ==
    /\ VultrCall /\ w.pc = "create"
    /\ inst[i].place = "free" /\ new.place = "running" /\ new.maker = w.m

(* A step changes at most one VM; the controller makes one only in its      *)
(* create call.                                                             *)
LEMMA InstanceEffect ==
    ASSUME TypeInv, [Next]_vars
    PROVE  \/ inst' = inst
           \/ \E i \in InstanceIDs, new \in Instance :
                /\ inst' = [inst EXCEPT ![i] = new]
                /\ Ages(inst[i], new) \/ Makes(i, new)
<1>1. inst \in [InstanceIDs -> Instance] /\ w.m \in Machines \cup {NoMachine}
  BY DEF TypeInv, TypeOK, Worker
<1>2. ASSUME NEW i \in InstanceIDs, NEW s \in Statuses
      PROVE  /\ [inst[i] EXCEPT !.status = s] \in Instance
             /\ inst[i].place = "running" => Ages(inst[i], [inst[i] EXCEPT !.status = s])
             /\ [inst[i] EXCEPT !.place = "destroyed"] \in Instance
             /\ inst[i].place = "running"
                    => Ages(inst[i], [inst[i] EXCEPT !.place = "destroyed"])
             /\ [inst[i] EXCEPT !.place = "purged"] \in Instance
             /\ inst[i].place = "destroyed"
                    => Ages(inst[i], [inst[i] EXCEPT !.place = "purged"])
  BY <1>1 DEF Instance, Ages
<1> DEFINE One == \E i \in InstanceIDs, new \in Instance :
                    /\ inst' = [inst EXCEPT ![i] = new]
                    /\ Ages(inst[i], new) \/ Makes(i, new)
<1>3. ASSUME NEW i \in InstanceIDs, inst[i].place = "running", Destroyed(i) PROVE One
  <2>1. inst' = [inst EXCEPT ![i] = [inst[i] EXCEPT !.place = "destroyed"]]
    BY <1>3 DEF Destroyed
  <2> QED BY <1>2, <1>3, <2>1 DEF Statuses
<1>4. CASE CreateInstance
  <2>1. CASE \E i \in InstanceIDs, t \in BOOLEAN :
                inst[i].place = "free" /\ Created(i, w.m, t)
    <3>1. PICK i \in InstanceIDs, t \in BOOLEAN :
                inst[i].place = "free" /\ Created(i, w.m, t)
      BY <2>1
    <3> DEFINE new == [place |-> "running", status |-> "pending", maker |-> w.m,
                       tagged |-> t]
    <3>2. inst' = [inst EXCEPT ![i] = new]
      BY <3>1 DEF Created
    <3>3. new \in Instance /\ new.place = "running" /\ new.maker = w.m
      BY <1>1 DEF Instance, Statuses
    <3> HIDE DEF new
    <3> QED BY <1>4, <3>1, <3>2, <3>3 DEF Makes, VultrCall, CreateInstance, Call
  <2> QED BY <1>4, <2>1 DEF CreateInstance
<1>5. CASE DeleteInstance
  <2>1. w.mem.providerID \in InstanceIDs
    BY <1>5 DEF DeleteInstance, Call, TypeInv, WorkerOK
  <2> QED BY <1>3, <1>5, <2>1 DEF DeleteInstance
<1>6. CASE DeleteRemaining
  <2>1. w.vm \in InstanceIDs
    BY <1>6 DEF DeleteRemaining, Call, TypeInv, WorkerOK
  <2> QED BY <1>3, <1>6, <2>1 DEF DeleteRemaining
<1>7. ASSUME NEW i \in InstanceIDs,
             InstanceActive(i) \/ InstanceOdd(i) \/ InstanceLost(i) \/ ListCatchesUp(i)
      PROVE  One
  <2>1. \/ /\ inst[i].place = "running"
           /\ \/ inst' = [inst EXCEPT ![i] = [inst[i] EXCEPT !.status = "active"]]
              \/ inst' = [inst EXCEPT ![i] = [inst[i] EXCEPT !.status = "other"]]
              \/ inst' = [inst EXCEPT ![i] = [inst[i] EXCEPT !.place = "destroyed"]]
        \/ /\ inst[i].place = "destroyed"
           /\ inst' = [inst EXCEPT ![i] = [inst[i] EXCEPT !.place = "purged"]]
    BY <1>7 DEF InstanceActive, InstanceOdd, InstanceLost, ListCatchesUp, InstanceChanges
  <2> QED BY <1>2, <2>1 DEF Statuses
<1>8. CASE \/ \E m \in Machines : Begin(m)
           \/ GetInstance \/ FindInstance \/ GetLoadBalancer \/ UpdateLoadBalancer
           \/ FindRemaining \/ KubeCall \/ Finish \/ Crash \/ UNCHANGED vars
           \/ \E m \in Machines : \/ CacheSync(m) \/ Event(m)
                                  \/ OwnerAdvances(m) \/ DeleteObject(m)
           \/ ClusterAppears \/ ClusterReady \/ ClusterLost \/ Pause \/ Unpause
           \/ LoadBalancerActive
  <2>1. inst' = inst
    BY <1>8, KubeCallEffect DEF Begin, Skip, BeginPaused, BeginNormal, BeginDelete,
       Dequeue, GetInstance, FindInstance, GetLoadBalancer, UpdateLoadBalancer,
       FindRemaining, Finish, Crash, vars, CacheSync, Event, OwnerAdvances,
       DeleteObject, ClusterAppears, ClusterReady, ClusterLost, Pause, Unpause,
       InfraChanges, LoadBalancerActive, vultr
  <2> QED BY <2>1
<1> QED BY <1>4, <1>5, <1>6, <1>7, <1>8 DEF Next, WorkerStep, VultrCall, Environment

(* How a step changes an object.                                            *)
LEMMA ObjectEffect ==
    ASSUME TypeInv, [Next]_vars, NEW m \in Machines
    PROVE  /\ cache'[m] \in {cache[m], obj[m]}
           /\ obj'[m].phase = "live" => obj[m].phase = "live"
           /\ \/ /\ obj'[m].providerID = obj[m].providerID
                 /\ obj'[m].provisioned = obj[m].provisioned
                 /\ obj'[m].reason = obj[m].reason
              \/ KubeCall /\ m = w.m /\ PatchedTo(obj[m], obj'[m])
<1>1. obj \in [Machines -> Object] /\ cache \in [Machines -> Object]
  BY DEF TypeInv, TypeOK
<1>2. CASE KubeCall
  <2>1. cache' = cache /\ w.m \in Machines
    BY <1>2, KubeCallEffect
  <2>2. CASE obj' = obj
    BY <2>1, <2>2
  <2>3. CASE obj' # obj
    <3>1. PICK p \in Object : obj' = [obj EXCEPT ![w.m] = p] /\ PatchedTo(obj[w.m], p)
      BY <1>2, <2>3, KubeCallEffect
    <3>2. CASE m = w.m
      <4>1. PatchedTo(obj[m], obj'[m])
        BY <1>1, <3>1, <3>2
      <4> QED BY <1>2, <2>1, <3>2, <4>1 DEF PatchedTo
    <3>3. CASE m # w.m
      BY <1>1, <2>1, <3>1, <3>3
    <3> QED BY <3>2, <3>3
  <2> QED BY <2>2, <2>3
<1>3. ASSUME NEW n \in Machines, DeleteObject(n)
      PROVE  /\ cache' = cache
             /\ obj'[m].phase = "live" => obj[m].phase = "live"
             /\ obj'[m].providerID = obj[m].providerID
             /\ obj'[m].provisioned = obj[m].provisioned
             /\ obj'[m].reason = obj[m].reason
  <2>1. PICK x : obj' = [obj EXCEPT ![n] = [obj[n] EXCEPT !.phase = x]]
    BY <1>3 DEF DeleteObject
  <2>2. obj[n] \in Object /\ obj[n].phase = "live" /\ cache' = cache
    BY <1>1, <1>3 DEF DeleteObject
  <2>3. CASE m = n
    BY <1>1, <2>1, <2>2, <2>3 DEF Object
  <2>4. CASE m # n
    BY <1>1, <2>1, <2>2, <2>4
  <2> QED BY <2>3, <2>4
<1>4. ASSUME NEW n \in Machines, CacheSync(n)
      PROVE  obj' = obj /\ cache'[m] \in {cache[m], obj[m]}
  BY <1>1, <1>4 DEF CacheSync
<1>5. CASE \/ \E n \in Machines : Begin(n)
           \/ VultrCall \/ Finish \/ Crash \/ UNCHANGED vars
           \/ \E n \in Machines : Event(n) \/ OwnerAdvances(n)
           \/ ClusterAppears \/ ClusterReady \/ ClusterLost \/ Pause \/ Unpause
           \/ LoadBalancerActive
           \/ \E i \in InstanceIDs : \/ InstanceActive(i) \/ InstanceOdd(i)
                                     \/ InstanceLost(i) \/ ListCatchesUp(i)
  <2>1. obj' = obj /\ (cache' = cache \/ cache' = obj)
    BY <1>5 DEF Begin, Skip, BeginPaused, BeginNormal, BeginDelete, Dequeue, VultrCall,
       GetInstance, FindInstance, CreateInstance, GetLoadBalancer, UpdateLoadBalancer,
       DeleteInstance, FindRemaining, DeleteRemaining, Finish, Crash, vars, Event,
       OwnerAdvances, ClusterAppears, ClusterReady, ClusterLost, Pause, Unpause,
       InfraChanges, LoadBalancerActive, InstanceActive, InstanceOdd, InstanceLost,
       InstanceChanges, ListCatchesUp, kube
  <2> QED BY <2>1
<1> QED BY <1>2, <1>3, <1>4, <1>5 DEF Next, WorkerStep, Environment

(* The members of the load balancer change only by the machine's update.    *)
LEMMA MembersEffect ==
    ASSUME TypeInv, [Next]_vars
    PROVE  \/ lb'.members = lb.members
           \/ w.pc = "lbUpdate" /\ lb'.members = w.seen \cup {w.vm}
<1>1. lb \in [active : BOOLEAN, members : SUBSET InstanceIDs]
  BY DEF TypeInv, TypeOK
<1>2. CASE UpdateLoadBalancer
  <2>1. /\ w.pc = "lbUpdate"
        /\ lb' = lb \/ lb' = [lb EXCEPT !.members = w.seen \cup {w.vm}]
    BY <1>2 DEF UpdateLoadBalancer, Call
  <2> QED BY <1>1, <2>1
<1>3. CASE Still
  BY <1>3, StillEffect
<1>4. CASE \/ \E m \in Machines : BeginPaused(m) \/ BeginNormal(m) \/ BeginDelete(m)
           \/ GetInstance \/ FindInstance \/ CreateInstance \/ GetLoadBalancer
           \/ DeleteInstance \/ FindRemaining \/ DeleteRemaining
           \/ KubeCall \/ Finish \/ Crash
  <2>1. lb' = lb
    BY <1>4, KubeCallEffect, BeginEffect DEF GetInstance, FindInstance, CreateInstance,
       GetLoadBalancer, DeleteInstance, FindRemaining, DeleteRemaining, Finish, Crash,
       vultr
  <2> QED BY <2>1
<1> QED BY <1>2, <1>3, <1>4 DEF Next, Begin, WorkerStep, VultrCall, Still

-----------------------------------------------------------------------------
(* Ownership *)

(* After the step i passes the ownership check of m.                        *)
OursAfter(i, m) ==
    /\ inst'[i].place # "free"
    /\ NameOf[inst'[i].maker] = NameOf[m]
    /\ inst'[i].tagged => ClusterOf[inst'[i].maker] = ClusterOf[m]

(* A VM that was ever made keeps its maker and its tags.                    *)
LEMMA OursKept ==
    ASSUME TypeInv, [Next]_vars, NEW i \in InstanceIDs, NEW m, Ours(i, m)
    PROVE  OursAfter(i, m)
<1>1. inst \in [InstanceIDs -> Instance] /\ inst[i].place # "free"
  BY DEF TypeInv, TypeOK, Ours
<1>2. /\ inst'[i].place # "free" /\ inst'[i].maker = inst[i].maker
      /\ inst'[i].tagged = inst[i].tagged
  BY <1>1, InstanceEffect DEF Ages, Makes
<1> QED BY <1>2 DEF Ours, OwnedByMachine, OursAfter

(* Every VM that was made has its maker.                                    *)
LEMMA MakerStep == TypeInv /\ MakerInv /\ [Next]_vars => MakerInv'
<1> SUFFICES ASSUME TypeInv, MakerInv, [Next]_vars, NEW i \in InstanceIDs,
                    inst'[i].place # "free"
             PROVE  inst'[i].maker \in Machines
  BY DEF MakerInv
<1>1. inst \in [InstanceIDs -> Instance] /\ (w.pc = "create" => w.m \in Machines)
  BY DEF TypeInv, TypeOK, WorkerOK
<1>2. \/ inst'[i] = inst[i]
      \/ Ages(inst[i], inst'[i])
      \/ w.pc = "create" /\ inst'[i].maker = w.m
  BY <1>1, InstanceEffect DEF Makes
<1> QED BY <1>1, <1>2 DEF Ages, MakerInv

(* The VM that is taken in hand passes the ownership check.                 *)
LEMMA TakesOurs ==
    ASSUME TypeInv, IdInv, NEW i \in InstanceIDs, Takes(i), NEW m \in Machines, m = w.m
    PROVE  OursAfter(i, m)
<1>1. inst \in [InstanceIDs -> Instance] /\ w.pc # "idle"
  BY DEF Takes, TypeInv, TypeOK
<1>2. CASE w.pc = "get" /\ i = w.mem.providerID /\ inst' = inst
  <2>1. Ours(i, m)
    BY <1>1, <1>2, ConstantsAssumption DEF IdInv, HasOurs
  <2> QED BY <1>2, <2>1 DEF Ours, OwnedByMachine, OursAfter
<1>3. CASE w.pc = "list" /\ Matches(w.m) = {i} /\ inst' = inst
  <2>1. Ours(i, m)
    BY <1>3 DEF Matches, Listed, Ours
  <2> QED BY <1>3, <2>1 DEF Ours, OwnedByMachine, OursAfter
<1>4. CASE w.pc = "create" /\ Created(i, w.m, TRUE)
  <2>1. inst'[i].place = "running" /\ inst'[i].maker = m
    BY <1>1, <1>4 DEF Created
  <2> QED BY <2>1 DEF Ours, OwnedByMachine, OursAfter
<1> QED BY <1>2, <1>3, <1>4 DEF Takes

(* No VMs and no provider IDs at first.                                     *)
LEMMA OwnershipInit == Init => MakerInv /\ IdInv /\ ListInv
<1> SUFFICES ASSUME Init PROVE MakerInv /\ IdInv /\ ListInv
  OBVIOUS
<1>1. w.pc = "idle"
  BY IdleType DEF Init
<1>2. \A m \in Machines : obj[m].providerID = NoID /\ cache[m].providerID = NoID
  BY DEF Init, NewObject
<1>3. \A i \in InstanceIDs : inst[i].place = "free"
  BY DEF Init, FreeInstance
<1> QED BY <1>1, <1>2, <1>3 DEF MakerInv, IdInv, HasOurs, ListInv, VMCalls

(* A provider ID keeps passing the check.                                   *)
LEMMA OursIDKept ==
    ASSUME TypeInv, [Next]_vars, NEW o \in Object, NEW m, HasOurs(o, m),
           o.providerID # NoID
    PROVE  OursAfter(o.providerID, m)
<1>1. o.providerID \in InstanceIDs /\ Ours(o.providerID, m)
  BY DEF HasOurs, Object, MaybeID
<1> QED BY <1>1, OursKept

(* Every step keeps provider IDs and VMs in hand passing the check.         *)
LEMMA IdStep == TypeInv /\ IdInv /\ [Next]_vars => IdInv'
<1> SUFFICES ASSUME TypeInv, IdInv, [Next]_vars PROVE IdInv'
  OBVIOUS
<1>1. /\ obj \in [Machines -> Object] /\ cache \in [Machines -> Object] /\ w \in Worker
      /\ w.base \in Object /\ w.mem \in Object /\ (w.pc # "idle" => w.m \in Machines)
      /\ (w.pc \in VMCalls => w.vm \in InstanceIDs)
      /\ inst \in [InstanceIDs -> Instance]
  BY DEF TypeInv, TypeOK, WorkerOK, Worker, VMCalls
<1> DEFINE OK(x, m) == x # NoID => OursAfter(x, m)
<1>2. ASSUME NEW m \in Machines
      PROVE  OK(obj[m].providerID, m) /\ OK(cache[m].providerID, m)
  BY <1>1, OursIDKept DEF IdInv
<1>3. ASSUME w.pc # "idle", NEW m \in Machines, m = w.m
      PROVE  /\ OK(w.base.providerID, m) /\ OK(w.mem.providerID, m)
             /\ w.pc \in VMCalls => OursAfter(w.vm, m)
  <2>1. HasOurs(w.base, m) /\ HasOurs(w.mem, m) /\ (w.pc \in VMCalls => Ours(w.vm, m))
    BY <1>3 DEF IdInv
  <2>2. OK(w.base.providerID, m) /\ OK(w.mem.providerID, m)
    BY <1>1, <2>1, OursIDKept
  <2>3. w.pc \in VMCalls => OursAfter(w.vm, m)
    BY <1>1, <2>1, OursKept
  <2> QED BY <2>2, <2>3
<1> HIDE DEF OK
<1>4. ASSUME NEW m \in Machines
      PROVE  OK(obj'[m].providerID, m) /\ OK(cache'[m].providerID, m)
  <2>1. cache'[m] \in {cache[m], obj[m]}
    BY ObjectEffect
  <2>2. \/ obj'[m].providerID = obj[m].providerID
        \/ /\ m = w.m /\ w.pc # "idle"
           /\ obj'[m].providerID \in {obj[m].providerID, w.mem.providerID}
    BY ObjectEffect, KubeCallEffect DEF PatchedTo, CloseCalls
  <2> QED BY <1>2, <1>3, <2>1, <2>2
<1> DEFINE InHand == \A m \in Machines : (w'.pc # "idle" /\ w'.m = m) =>
      /\ OK(w'.base.providerID, m) /\ OK(w'.mem.providerID, m)
      /\ w'.pc \in VMCalls => OK(w'.vm, m)
<1>5. InHand
  <2>1. CASE Finish \/ Crash
    BY <2>1, IdleType DEF Finish, Crash
  <2>2. ASSUME NEW m \in Machines, BeginPaused(m) \/ BeginNormal(m) \/ BeginDelete(m)
        PROVE  InHand
    <3>1. /\ w'.m = m /\ w'.base = cache[m] /\ w'.pc \notin VMCalls
          /\ w'.mem.providerID = cache[m].providerID
      BY <2>2, BeginEffect DEF VMCalls, Closing, CloseCalls
    <3> QED BY <1>2, <3>1
  <2>3. CASE VultrCall
    <3>1. /\ w'.m = w.m /\ w'.base = w.base /\ w.pc # "idle" /\ HandAfterCall
      BY <2>3, VultrCallEffect DEF CallEffect, HandAfterCall, NextAfterCall, NormalCalls,
         DeleteCalls
    <3> SUFFICES ASSUME NEW m \in Machines, w.m = m
                 PROVE  /\ OK(w'.base.providerID, m) /\ OK(w'.mem.providerID, m)
                        /\ w'.pc \in VMCalls => OK(w'.vm, m)
      BY <3>1
    <3>2. OK(w.base.providerID, m) /\ OK(w.mem.providerID, m)
          /\ (w.pc \in VMCalls => OK(w.vm, m))
      BY <1>3, <3>1 DEF OK
    <3>3. CASE /\ w'.mem.providerID = w.mem.providerID
               /\ w'.pc \in VMCalls => w.pc \in VMCalls /\ w'.vm = w.vm
      BY <3>1, <3>2, <3>3
    <3>4. CASE /\ w'.mem.providerID = w.mem.providerID
               /\ Matches(w.m) = {w'.vm} /\ inst' = inst
      <4>1. Ours(w'.vm, m)
        BY <3>4 DEF Matches, Listed, Ours
      <4>2. inst[w'.vm].place # "free" /\ OwnedByMachine(w'.vm, m)
        BY <4>1 DEF Ours
      <4>3. OK(w'.vm, m)
        BY <3>4, <4>2 DEF OK, OursAfter, OwnedByMachine
      <4> QED BY <3>1, <3>2, <3>4, <4>3
    <3>5. CASE \E i \in InstanceIDs : w'.mem.providerID = i /\ w'.vm = i /\ Takes(i)
      <4>1. PICK i \in InstanceIDs : w'.mem.providerID = i /\ w'.vm = i /\ Takes(i)
        BY <3>5
      <4>2. OK(i, m)
        BY <4>1, TakesOurs DEF OK
      <4> QED BY <3>1, <3>2, <4>1, <4>2
    <3> QED BY <3>1, <3>3, <3>4, <3>5 DEF HandAfterCall
  <2>4. CASE KubeCall
    <3>1. /\ w'.m = w.m /\ w'.base = w.base /\ w'.vm = w.vm /\ w.pc # "idle"
          /\ w'.mem.providerID = w.mem.providerID
          /\ w'.pc \in VMCalls => w.pc \in VMCalls
      BY <2>4, KubeCallEffect DEF VMCalls, Closing, CloseCalls
    <3> QED BY <1>3, <3>1 DEF OK
  <2>5. CASE Still
    <3>1. w' = w
      BY <2>5, StillEffect
    <3> QED BY <1>3, <3>1 DEF OK
  <2> QED BY <2>1, <2>2, <2>3, <2>4, <2>5 DEF Next, Begin, WorkerStep, Still
<1>6. TypeInv'
  BY TypeNext
<1>7. /\ w'.pc # "idle" => w'.m \in Machines
      /\ w'.pc \in VMCalls => w'.vm \in InstanceIDs /\ w'.pc # "idle"
  BY <1>6 DEF TypeInv, WorkerOK, VMCalls
<1>8. \A m \in Machines : HasOurs(obj[m], m)' /\ HasOurs(cache[m], m)'
  BY <1>4 DEF OK, OursAfter, HasOurs, Ours, OwnedByMachine
<1>9. w'.pc # "idle" => HasOurs(w.base, w.m)' /\ HasOurs(w.mem, w.m)'
  BY <1>5, <1>7 DEF OK, OursAfter, HasOurs, Ours, OwnedByMachine
<1>10. w'.pc \in VMCalls => Ours(w.vm, w.m)'
  BY <1>5, <1>7, ConstantsAssumption DEF OK, OursAfter, Ours, OwnedByMachine
<1> QED BY <1>8, <1>9, <1>10 DEF IdInv

(* Nobody but the worker makes VMs, so its listing stays empty.             *)
LEMMA ListStep == TypeInv /\ ListInv /\ [Next]_vars => ListInv'
<1> SUFFICES ASSUME TypeInv, ListInv, [Next]_vars, w'.pc = "create"
             PROVE  Matches(w.m)' = {}
  BY DEF ListInv
<1>1. inst \in [InstanceIDs -> Instance]
  BY DEF TypeInv, TypeOK
<1>2. CASE VultrCall
  <2>1. w'.m = w.m /\ Matches(w.m) = {} /\ inst' = inst
    BY <1>2, VultrCallEffect DEF CallEffect, HandAfterCall, NextAfterCall
  <2> QED BY <2>1 DEF Matches, Listed, OwnedByMachine
<1>3. CASE Still /\ ~VultrCall
  <2>1. w' = w /\ Matches(w.m) = {}
    BY <1>3, StillEffect DEF ListInv
  <2>2. \A i \in InstanceIDs : inst'[i] = inst[i] \/ Ages(inst[i], inst'[i])
    BY <1>1, <1>3, InstanceEffect DEF Makes
  <2>3. ASSUME NEW i \in InstanceIDs, inst'[i].place \in {"running", "destroyed"}
        PROVE  /\ Listed(i)
               /\ inst'[i].maker = inst[i].maker /\ inst'[i].tagged = inst[i].tagged
    BY <2>2, <2>3 DEF Ages, Listed
  <2> QED BY <2>1, <2>3 DEF Matches, Listed, OwnedByMachine
<1>4. ASSUME NEW m \in Machines, BeginPaused(m) \/ BeginNormal(m) \/ BeginDelete(m)
      PROVE  FALSE
  BY <1>4, BeginEffect DEF Closing, CloseCalls
<1>5. CASE KubeCall
  BY <1>5, KubeCallEffect DEF Closing, CloseCalls
<1>6. CASE Finish \/ Crash
  BY <1>6, IdleType DEF Finish, Crash
<1> QED BY <1>2, <1>3, <1>4, <1>5, <1>6 DEF Next, Begin, WorkerStep, Still

(* The ownership invariants hold in every reachable state.                  *)
LEMMA OwnershipInvariance == Spec => [](MakerInv /\ IdInv /\ ListInv)
<1>1. TypeInv /\ MakerInv /\ IdInv /\ ListInv /\ [Next]_vars
      => (MakerInv /\ IdInv /\ ListInv)'
  BY MakerStep, IdStep, ListStep
<1> QED BY <1>1, OwnershipInit, TypeInvariance, PTL DEF Spec

(* Where no two machines share a name, what passes the check is the         *)
(* machine's own.                                                           *)
LEMMA OursIsOwn ==
    ASSUME NamesDiffer, MakerInv, NEW i \in InstanceIDs, NEW m \in Machines, Ours(i, m)
    PROVE  inst[i].maker = m
<1>1. inst[i].maker \in Machines /\ NameOf[inst[i].maker] = NameOf[m]
  BY DEF Ours, OwnedByMachine, MakerInv
<1> QED BY <1>1 DEF NamesDiffer

(* Where no two machines of the account share a name, the provider ID of a  *)
(* machine is a VM that was made for it: a lost create, a failed tag step,  *)
(* a stale read or a restart never makes FindInstanceForMachine take over   *)
(* another machine's VM.                                                    *)
THEOREM RecordsOnlyOwn == NamesDiffer => (Spec => []OwnInstanceOnly)
<1> SUFFICES ASSUME NamesDiffer PROVE Spec => []OwnInstanceOnly
  OBVIOUS
<1>1. MakerInv /\ IdInv => OwnInstanceOnly
  <2> SUFFICES ASSUME MakerInv, IdInv, NEW m \in Machines, NEW i \in InstanceIDs,
                      obj[m].providerID = i
               PROVE  inst[i].maker = m
    BY DEF OwnInstanceOnly
  <2>1. Ours(i, m)
    BY ConstantsAssumption DEF IdInv, HasOurs
  <2> QED BY <2>1, OursIsOwn
<1> QED BY <1>1, OwnershipInvariance, PTL

(* Under the same condition the controller destroys only VMs of the machine *)
(* it is reconciling, and only once that machine is no longer live.         *)
THEOREM DestroysOwn == NamesDiffer => (Spec => DestroysOnlyOwn)
<1> SUFFICES ASSUME NamesDiffer PROVE Spec => DestroysOnlyOwn
  OBVIOUS
<1>1. TypeInv /\ LifeInv /\ MakerInv /\ IdInv /\ [Next]_vars
      => (\A i \in InstanceIDs :
            (inst[i].place = "running" /\ inst'[i].place = "destroyed" /\ w' # w)
            => inst[i].maker = w.m /\ obj[w.m].phase # "live")
  <2> SUFFICES ASSUME TypeInv, LifeInv, MakerInv, IdInv, [Next]_vars,
                      NEW i \in InstanceIDs, inst[i].place = "running",
                      inst'[i].place = "destroyed", w' # w
               PROVE  inst[i].maker = w.m /\ obj[w.m].phase # "live"
    OBVIOUS
  <2>1. inst \in [InstanceIDs -> Instance] /\ (w.pc # "idle" => w.m \in Machines)
    BY DEF TypeInv, TypeOK, WorkerOK
  <2>2. /\ w.pc \in {"delete", "delRemaining"}
        /\ w.pc = "delete" => i = w.mem.providerID
        /\ w.pc = "delRemaining" => i = w.vm
    <3>1. CASE DeleteInstance
      BY <2>1, <3>1 DEF DeleteInstance, Call, Destroyed
    <3>2. CASE DeleteRemaining
      BY <2>1, <3>2 DEF DeleteRemaining, Call, Destroyed
    <3>3. CASE CreateInstance
      <4>1. \/ inst' = inst
            \/ \E j \in InstanceIDs, t \in BOOLEAN : Created(j, w.m, t)
        BY <3>3 DEF CreateInstance
      <4> QED BY <2>1, <4>1 DEF Created
    <3>4. CASE Still
      BY <3>4, StillEffect
    <3>5. CASE \/ \E m \in Machines : BeginPaused(m) \/ BeginNormal(m) \/ BeginDelete(m)
               \/ GetInstance \/ FindInstance \/ GetLoadBalancer \/ UpdateLoadBalancer
               \/ FindRemaining \/ KubeCall \/ Finish \/ Crash
      <4>1. inst' = inst
        BY <3>5, BeginEffect, KubeCallEffect DEF GetInstance, FindInstance,
           GetLoadBalancer, UpdateLoadBalancer, FindRemaining, Finish, Crash, vultr
      <4> QED BY <4>1
    <3> QED BY <3>1, <3>2, <3>3, <3>4, <3>5 DEF Next, Begin, WorkerStep, VultrCall, Still
  <2>3. Ours(i, w.m)
    BY <2>2, ConstantsAssumption DEF IdInv, HasOurs, VMCalls
  <2>4. inst[i].maker = w.m
    BY <2>1, <2>2, <2>3, OursIsOwn
  <2>5. obj[w.m].phase # "live"
    BY <2>1, <2>2 DEF LifeInv, PathInv, CacheInv, DeleteCalls
  <2> QED BY <2>4, <2>5
<1> QED BY <1>1, TypeInvariance, LifeInvariance, OwnershipInvariance, PTL
        DEF Spec, DestroysOnlyOwn

(* For every naming, a machine whose VM is on record gets a second one only *)
(* when the first is gone from the listing and the reconcile had read the   *)
(* object before the ID was recorded: a 404 never leads to a create.        *)
THEOREM NotRecreated == Spec => NeverRecreated
<1>1. TypeInv /\ ProvInv /\ IdInv /\ ListInv /\ [Next]_vars
      => (\A i \in InstanceIDs :
            (inst[i].place = "free" /\ inst'[i].place # "free")
            => LET known == obj[inst'[i].maker].providerID IN
               known # NoID => ~Listed(known) /\ w.base.providerID = NoID)
  <2> SUFFICES ASSUME TypeInv, ProvInv, IdInv, ListInv, [Next]_vars,
                      NEW i \in InstanceIDs, inst[i].place = "free",
                      inst'[i].place # "free", obj[inst'[i].maker].providerID # NoID
               PROVE  ~Listed(obj[inst'[i].maker].providerID) /\ w.base.providerID = NoID
    OBVIOUS
  <2>1. inst \in [InstanceIDs -> Instance] /\ obj \in [Machines -> Object]
    BY DEF TypeInv, TypeOK
  <2>2. w.pc = "create" /\ inst'[i].maker = w.m
    BY <2>1, InstanceEffect DEF Ages, Makes
  <2>3. w.m \in Machines /\ Matches(w.m) = {}
    BY <2>2 DEF TypeInv, WorkerOK, ListInv
  <2>4. obj[w.m].providerID \in InstanceIDs /\ Ours(obj[w.m].providerID, w.m)
    BY <2>1, <2>2, <2>3 DEF IdInv, HasOurs, Object, MaybeID
  <2>5. ~Listed(obj[w.m].providerID)
    BY <2>3, <2>4 DEF Matches, Ours
  <2>6. w.base.providerID = NoID
    BY <2>2 DEF ProvInv, ProviderInv
  <2> QED BY <2>2, <2>5, <2>6
<1>2. Spec => []ProvInv
  BY ProvInit, ProvNext, TypeInvariance, PTL DEF Spec
<1> QED BY <1>1, <1>2, TypeInvariance, OwnershipInvariance, PTL DEF Spec, NeverRecreated

-----------------------------------------------------------------------------
(* Load balancer members *)

(* The worker has read no members at first.                                 *)
LEMMA MemberInit == Init => MemberInv
  BY IdleType DEF Init, MemberInv

(* Every step keeps the list that is written back complete.                 *)
LEMMA MemberStep == TypeInv /\ MemberInv /\ [Next]_vars => MemberInv'
<1> SUFFICES ASSUME TypeInv, MemberInv, [Next]_vars PROVE MemberInv'
  OBVIOUS
<1>1. CASE Finish \/ Crash
  BY <1>1, IdleType DEF Finish, Crash, MemberInv
<1>2. ASSUME NEW m \in Machines, BeginPaused(m) \/ BeginNormal(m) \/ BeginDelete(m)
      PROVE  MemberInv'
  <2>1. w'.pc # "lbUpdate"
    BY <1>2, BeginEffect DEF Closing, CloseCalls
  <2> QED BY <2>1 DEF MemberInv
<1>3. CASE VultrCall
  <2>1. w'.pc = "lbUpdate" => w'.seen = lb.members /\ lb' = lb
    BY <1>3, VultrCallEffect DEF CallEffect, NextAfterCall
  <2> QED BY <2>1 DEF MemberInv
<1>4. CASE KubeCall
  <2>1. w'.pc # "lbUpdate"
    BY <1>4, KubeCallEffect DEF Closing, CloseCalls
  <2> QED BY <2>1 DEF MemberInv
<1>5. CASE Still
  <2>1. w' = w /\ lb'.members = lb.members
    BY <1>5, StillEffect
  <2> QED BY <2>1 DEF MemberInv
<1> QED BY <1>1, <1>2, <1>3, <1>4, <1>5 DEF Next, Begin, WorkerStep, Still

(* After the step a VM of m is a member.                                    *)
JoinedAfter(m) == \E i \in lb'.members : OursAfter(i, m)

(* No update of the members takes a machine's VM off the load balancer.     *)
LEMMA JoinedKept ==
    ASSUME TypeInv, MemberInv, [Next]_vars, NEW m, Joined(m)
    PROVE  JoinedAfter(m)
<1>1. PICK i \in lb.members : Ours(i, m)
  BY DEF Joined
<1>2. i \in InstanceIDs
  BY DEF TypeInv, TypeOK
<1>3. i \in lb'.members
  BY MembersEffect DEF MemberInv
<1> QED BY <1>1, <1>2, <1>3, OursKept DEF JoinedAfter

(* A call that reports a control plane machine as provisioned finds its VM  *)
(* among the members, or has just put it there.                             *)
LEMMA ReportsJoined ==
    ASSUME TypeInv, IdInv, VultrCall, w'.mem.provisioned, ~w.mem.provisioned,
           NEW m \in ControlPlane, m = w.m
    PROVE  JoinedAfter(m)
<1>1. /\ inst' = inst /\ w.pc \in VMCalls
      /\ w.vm \in lb'.members
  BY VultrCallEffect DEF CallEffect, JoinsAfterCall, VMCalls
<1>2. Ours(w.vm, m)
  BY <1>1 DEF IdInv
<1>3. OursAfter(w.vm, m)
  BY <1>1, <1>2 DEF Ours, OwnedByMachine, OursAfter
<1> QED BY <1>1, <1>3 DEF JoinedAfter

(* Nothing is provisioned at first.                                         *)
LEMMA JoinedInit == Init => JoinedInv
<1> SUFFICES ASSUME Init PROVE JoinedInv
  OBVIOUS
<1>1. w.pc = "idle"
  BY IdleType DEF Init
<1>2. \A m \in Machines : ~obj[m].provisioned /\ ~cache[m].provisioned
  BY DEF Init, NewObject
<1> QED BY <1>1, <1>2, ConstantsAssumption DEF JoinedInv

(* Every step keeps provisioned control plane machines joined.              *)
LEMMA JoinedStep == TypeInv /\ IdInv /\ MemberInv /\ JoinedInv /\ [Next]_vars => JoinedInv'
<1> SUFFICES ASSUME TypeInv, IdInv, MemberInv, JoinedInv, [Next]_vars PROVE JoinedInv'
  OBVIOUS
<1>1. ASSUME NEW m \in ControlPlane, obj[m].provisioned \/ cache[m].provisioned
      PROVE  JoinedAfter(m)
  BY <1>1, JoinedKept DEF JoinedInv
<1>2. ASSUME w.pc # "idle", NEW m \in ControlPlane, m = w.m, w.mem.provisioned
      PROVE  JoinedAfter(m)
  BY <1>2, JoinedKept DEF JoinedInv
<1>3. ASSUME NEW m \in ControlPlane, obj'[m].provisioned \/ cache'[m].provisioned
      PROVE  JoinedAfter(m)
  <2>1. m \in Machines
    BY ConstantsAssumption
  <2>2. cache'[m] \in {cache[m], obj[m]}
    BY <2>1, ObjectEffect
  <2>3. \/ obj'[m].provisioned = obj[m].provisioned
        \/ m = w.m /\ w.pc # "idle" /\ obj'[m].provisioned = w.mem.provisioned
    BY <2>1, ObjectEffect, KubeCallEffect DEF PatchedTo, CloseCalls
  <2> QED BY <1>1, <1>2, <1>3, <2>2, <2>3
<1> DEFINE Reports == \A m \in ControlPlane :
      (w'.pc # "idle" /\ w'.m = m /\ w'.mem.provisioned) => JoinedAfter(m)
<1>4. Reports
  <2>1. CASE Finish \/ Crash
    BY <2>1, IdleType DEF Finish, Crash
  <2>2. ASSUME NEW m \in Machines, BeginPaused(m) \/ BeginNormal(m) \/ BeginDelete(m)
        PROVE  Reports
    <3>1. w'.m = m /\ w'.mem.provisioned = cache[m].provisioned
      BY <2>2, BeginEffect
    <3> QED BY <1>1, <3>1
  <2>3. CASE VultrCall
    <3>1. w'.m = w.m /\ w.pc # "idle"
      BY <2>3, VultrCallEffect DEF CallEffect, HandAfterCall, NextAfterCall, NormalCalls,
         DeleteCalls
    <3> QED BY <1>2, <2>3, <3>1, ReportsJoined
  <2>4. CASE KubeCall
    <3>1. /\ w'.m = w.m /\ w.pc # "idle"
          /\ w.m \in ControlPlane => w'.mem.provisioned = w.mem.provisioned
      BY <2>4, KubeCallEffect DEF CloseCalls
    <3> QED BY <1>2, <3>1
  <2>5. CASE Still
    <3>1. w' = w
      BY <2>5, StillEffect
    <3> QED BY <1>2, <3>1
  <2> QED BY <2>1, <2>2, <2>3, <2>4, <2>5 DEF Next, Begin, WorkerStep, Still
<1>5. ASSUME NEW m \in ControlPlane, JoinedAfter(m) PROVE Joined(m)'
  BY <1>5 DEF JoinedAfter, OursAfter, Joined, Ours, OwnedByMachine
<1>6. \A m \in ControlPlane : obj'[m].provisioned \/ cache'[m].provisioned => Joined(m)'
  BY <1>3, <1>5
<1>7. (w'.pc # "idle" /\ w'.m \in ControlPlane /\ w'.mem.provisioned) => Joined(w.m)'
  BY <1>4 DEF JoinedAfter, OursAfter, Joined, Ours, OwnedByMachine
<1> QED BY <1>6, <1>7 DEF JoinedInv

(* Where no two machines of the account share a name, a provisioned control *)
(* plane machine has had a VM of its own put behind the load balancer: no   *)
(* inactive balancer, 422, failed call or stale read passes for it.         *)
THEOREM ProvisionedJoined == NamesDiffer => (Spec => []ProvisionedIsMember)
<1> SUFFICES ASSUME NamesDiffer PROVE Spec => []ProvisionedIsMember
  OBVIOUS
<1>1. TypeInv /\ MakerInv /\ JoinedInv => ProvisionedIsMember
  <2> SUFFICES ASSUME TypeInv, MakerInv, JoinedInv, NEW m \in ControlPlane,
                      obj[m].provisioned
               PROVE  \E i \in lb.members : inst[i].maker = m
    BY DEF ProvisionedIsMember
  <2>1. PICK i \in lb.members : Ours(i, m)
    BY DEF JoinedInv, Joined
  <2>2. i \in InstanceIDs /\ m \in Machines
    BY ConstantsAssumption DEF TypeInv, TypeOK
  <2> QED BY <2>1, <2>2, OursIsOwn
<1>2. Spec => []MemberInv
  BY MemberInit, MemberStep, TypeInvariance, PTL DEF Spec
<1>3. Spec => []JoinedInv
  BY <1>2, JoinedInit, JoinedStep, TypeInvariance, OwnershipInvariance, PTL DEF Spec
<1> QED BY <1>1, <1>3, TypeInvariance, OwnershipInvariance, PTL

-----------------------------------------------------------------------------
(* Terminal failures *)

(* No reconcile has read a terminal failure at first.                       *)
LEMMA StickyInit == Init => StickyInv
  BY IdleType DEF Init, StickyInv, NormalCalls, CloseCalls

(* A reconcile that reads a terminal failure of a live object returns at    *)
(* once.                                                                    *)
LEMMA StickyStep == TypeInv /\ LifeInv /\ StickyInv /\ [Next]_vars => StickyInv'
<1> SUFFICES ASSUME TypeInv, LifeInv, StickyInv, [Next]_vars PROVE StickyInv'
  OBVIOUS
<1>1. CASE Finish \/ Crash
  BY <1>1, IdleType DEF Finish, Crash, StickyInv, NormalCalls, CloseCalls
<1>2. ASSUME NEW m \in Machines, BeginPaused(m) \/ BeginNormal(m) \/ BeginDelete(m)
      PROVE  StickyInv'
  <2>1. /\ w'.base = cache[m]
        /\ \/ w'.pc = "paused"
           \/ ~Terminal(cache[m])
           \/ cache[m].phase = "deleting"
    BY <1>2, BeginEffect
  <2> QED BY <2>1 DEF StickyInv, NormalCalls, CloseCalls, Terminal
<1>3. CASE VultrCall
  <2>1. w'.base = w.base /\ w.pc \in NormalCalls \cup DeleteCalls
    BY <1>3, VultrCallEffect DEF CallEffect, HandAfterCall, NextAfterCall
  <2>2. w.pc \in DeleteCalls => w.base.phase # "live"
    BY DEF LifeInv, PathInv
  <2> QED BY <2>1, <2>2 DEF StickyInv
<1>4. CASE KubeCall
  <2>1. /\ w'.base = w.base
        /\ w.pc \in CloseCalls \cup {"persist"} \/ w'.pc = "done"
    BY <1>4, KubeCallEffect
  <2> QED BY <2>1 DEF StickyInv, NormalCalls, CloseCalls
<1>5. CASE Still
  <2>1. w' = w
    BY <1>5, StillEffect
  <2> QED BY <2>1 DEF StickyInv
<1> QED BY <1>1, <1>2, <1>3, <1>4, <1>5 DEF Next, Begin, WorkerStep, Still

(* A terminal failure stays the reason of a live machine: a reconcile that  *)
(* began from a stale read finds, when it patches the condition, a reason   *)
(* that it has not read, and gives way.                                     *)
THEOREM TerminalStays == Spec => TerminalIsSticky
<1>1. TypeInv /\ LifeInv /\ StickyInv /\ [Next]_vars
        => [\A m \in Machines :
              (/\ obj[m].phase = "live" /\ obj'[m].phase = "live"
               /\ obj[m].reason = "UnexpectedStatus")
              => obj'[m].reason = "UnexpectedStatus"]_vars
  <2> SUFFICES ASSUME TypeInv, LifeInv, StickyInv, Next, NEW m \in Machines,
                      obj[m].phase = "live", obj[m].reason = "UnexpectedStatus"
               PROVE  obj'[m].reason = "UnexpectedStatus"
    OBVIOUS
  <2>1. \/ obj'[m].reason = obj[m].reason
        \/ /\ m = w.m /\ w.pc = "conditions" /\ obj'[m].reason = w.mem.reason
           /\ obj[m].reason \in {w.base.reason, w.mem.reason}
    BY ObjectEffect DEF PatchedTo
  <2>2. CASE m = w.m /\ w.pc = "conditions"
    <3>1. w.base.phase # "deleting"
      BY <2>2 DEF LifeInv, PathInv, CacheInv
    <3>2. w.base.reason # "UnexpectedStatus"
      BY <2>2, <3>1 DEF LifeInv, PathInv, Exists, StickyInv, CloseCalls
    <3> QED BY <2>1, <3>2
  <2> QED BY <2>1, <2>2
<1>2. Spec => []StickyInv
  BY StickyInit, StickyStep, TypeInvariance, LifeInvariance, PTL DEF Spec
<1> QED BY <1>1, <1>2, TypeInvariance, LifeInvariance, PTL DEF Spec, TerminalIsSticky

=============================================================================
