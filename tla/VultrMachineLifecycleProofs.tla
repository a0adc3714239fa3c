--------------------- MODULE VultrMachineLifecycleProofs --------------------
(***************************************************************************)
(* The VultrMachine controller implements MachineLifecycle, for all sets   *)
(* of machines and IDs and all bounds. The abstract state is the phase of  *)
(* each object and the set of its listed VMs; LifeInv of                   *)
(* VultrMachineProofs makes every step a step of MachineLifecycle or a     *)
(* stuttering one.                                                         *)
(***************************************************************************)
EXTENDS VultrMachineLifecycle, VultrMachineProofs

LifecycleStep == [Lifecycle!Next]_(Lifecycle!vars)

SamePhases == \A m \in Machines : obj'[m].phase = obj[m].phase

SameInstances == \A m \in Machines : Own(m)' = Own(m)

(* When the manager starts all objects are live and no VM is held.          *)
LEMMA LifecycleInit == Init => Lifecycle!Init
<1> SUFFICES ASSUME Init PROVE Lifecycle!Init
  OBVIOUS
<1>1. \A m \in Machines : obj[m].phase = "live"
  BY DEF Init, NewObject
<1>2. \A m \in Machines : Own(m) = {}
  BY DEF Init, Own, Listed, FreeInstance
<1> QED BY <1>1, <1>2 DEF Lifecycle!Init

(* A step that changes neither phases nor listed VMs.                       *)
LEMMA Stutters == SamePhases /\ SameInstances => LifecycleStep
<1> SUFFICES ASSUME SamePhases, SameInstances PROVE UNCHANGED Lifecycle!vars
  BY DEF LifecycleStep
<1> QED BY DEF SamePhases, SameInstances, Lifecycle!vars

(* VMs that are left alone are listed as before.                            *)
LEMMA InstancesStay == inst' = inst => SameInstances
  BY DEF SameInstances, Own, Listed

(* One VM is destroyed, forgotten or changes its status: its machine, which *)
(* has no other, loses it or keeps it.                                      *)
LEMMA InstanceStep ==
    ASSUME TypeInv, LifeInv, SamePhases, NEW i \in InstanceIDs, NEW new,
           inst' = [inst EXCEPT ![i] = new],
           new.maker = inst[i].maker,
           inst[i].place \in {"running", "destroyed"}
    PROVE  LifecycleStep
<1>1. inst \in [InstanceIDs -> Instance]
  BY DEF TypeInv, TypeOK
<1>2. CASE new.place \in {"running", "destroyed"}
  <2>1. SameInstances
    BY <1>1, <1>2 DEF SameInstances, Own, Listed
  <2> QED BY <2>1, Stutters
<1>3. CASE new.place \notin {"running", "destroyed"} /\ inst[i].maker \notin Machines
  <2>1. SameInstances
    BY <1>1, <1>3 DEF SameInstances, Own, Listed
  <2> QED BY <2>1, Stutters
<1>4. CASE new.place \notin {"running", "destroyed"} /\ inst[i].maker \in Machines
  <2> DEFINE m == inst[i].maker
  <2>1. i \in Own(m)
    BY DEF Own, Listed
  <2>2. Own(m) = {i}
    BY <1>4, <2>1 DEF LifeInv, AtMostOneInstance
  <2>3. ASSUME NEW n \in Machines
        PROVE  Own(n)' = IF n = m THEN {} ELSE Own(n)
    <3>1. Own(n)' = Own(n) \ {i}
      BY <1>1, <1>4 DEF Own, Listed
    <3>2. n # m => i \notin Own(n)
      BY DEF Own
    <3> QED BY <2>2, <3>1, <3>2
  <2>4. Lifecycle!Lose(m)
    BY <1>4, <2>2, <2>3 DEF Lifecycle!Lose, SamePhases
  <2> QED BY <1>4, <2>4 DEF LifecycleStep, Lifecycle!Next
<1> QED BY <1>2, <1>3, <1>4

(* A VM destroyed by the controller stays listed for a while.               *)
LEMMA DestroyedStep ==
    ASSUME TypeInv, LifeInv, SamePhases, NEW i \in InstanceIDs,
           inst[i].place = "running", Destroyed(i)
    PROVE  LifecycleStep
<1> DEFINE new == [inst[i] EXCEPT !.place = "destroyed"]
<1>1. inst' = [inst EXCEPT ![i] = new] /\ inst[i] \in Instance
  BY DEF Destroyed, TypeInv, TypeOK
<1>2. new.maker = inst[i].maker
  BY <1>1 DEF Instance
<1> HIDE DEF new
<1> QED BY <1>1, <1>2, InstanceStep

(* A create, answered or not, makes the only VM of a machine that was not   *)
(* let go.                                                                  *)
LEMMA CreatedStep ==
    ASSUME TypeInv, LifeInv, SamePhases, w.pc = "create",
           NEW i \in InstanceIDs, NEW t \in BOOLEAN,
           inst[i].place = "free", Created(i, w.m, t)
    PROVE  LifecycleStep
<1>1. /\ w.m \in Machines /\ Own(w.m) = {} /\ obj[w.m].phase # "finalized"
      /\ inst \in [InstanceIDs -> Instance]
  BY DEF TypeInv, TypeOK, WorkerOK, LifeInv, PathInv, NormalCalls
<1>2. PICK m \in Machines : m = w.m
  BY <1>1
<1>3. /\ inst'[i].place = "running" /\ inst'[i].maker = m
      /\ \A j \in InstanceIDs : j # i => inst'[j] = inst[j]
  BY <1>1, <1>2 DEF Created
<1>4. ASSUME NEW n \in Machines
      PROVE  Own(n)' = IF n = m THEN {i} ELSE Own(n)
  <2>1. CASE n = m
    <3>1. Own(n) = {}
      BY <1>1, <1>2, <2>1
    <3> QED BY <1>3, <2>1, <3>1 DEF Own, Listed
  <2>2. CASE n # m
    BY <1>3, <2>2 DEF Own, Listed
  <2> QED BY <2>1, <2>2
<1>5. Own(m) = {} /\ obj[m].phase # "finalized"
  BY <1>1, <1>2
<1>6. Lifecycle!Make(m, i)
  BY <1>4, <1>5 DEF Lifecycle!Make, SamePhases
<1> QED BY <1>6 DEF LifecycleStep, Lifecycle!Next

(* Calls to Vultr change no object.                                         *)
LEMMA VultrCallStep ==
    ASSUME TypeInv, LifeInv, VultrCall
    PROVE  LifecycleStep
<1>1. SamePhases
  BY DEF SamePhases, VultrCall, GetInstance, FindInstance, CreateInstance,
     GetLoadBalancer, UpdateLoadBalancer, DeleteInstance, FindRemaining,
     DeleteRemaining, kube
<1>2. CASE inst' = inst
  BY <1>1, <1>2, InstancesStay, Stutters
<1>3. CASE CreateInstance /\ inst' # inst
  <2>1. w.pc = "create" /\ \E i \in InstanceIDs, t \in BOOLEAN :
            inst[i].place = "free" /\ Created(i, w.m, t)
    BY <1>3 DEF CreateInstance, Call
  <2> QED BY <1>1, <2>1, CreatedStep
<1>4. CASE DeleteInstance /\ inst' # inst
  <2>1. /\ w.mem.providerID \in InstanceIDs
        /\ inst[w.mem.providerID].place = "running" /\ Destroyed(w.mem.providerID)
    BY <1>4 DEF DeleteInstance, Call, TypeInv, WorkerOK
  <2> QED BY <1>1, <2>1, DestroyedStep
<1>5. CASE DeleteRemaining /\ inst' # inst
  <2>1. w.vm \in InstanceIDs /\ inst[w.vm].place = "running" /\ Destroyed(w.vm)
    BY <1>5 DEF DeleteRemaining, Call, TypeInv, WorkerOK
  <2> QED BY <1>1, <2>1, DestroyedStep
<1>6. CASE GetInstance \/ FindInstance \/ GetLoadBalancer \/ UpdateLoadBalancer
           \/ FindRemaining
  <2>1. inst' = inst
    BY <1>6 DEF GetInstance, FindInstance, GetLoadBalancer, UpdateLoadBalancer,
       FindRemaining, vultr
  <2> QED BY <1>2, <2>1
<1> QED BY <1>2, <1>3, <1>4, <1>5, <1>6 DEF VultrCall

(* The patch of metadata and spec lets an object go only when the reconcile *)
(* took the finalizer off, after an empty listing.                          *)
LEMMA MetadataStep ==
    ASSUME TypeInv, LifeInv, inst' = inst, Exists(obj[w.m]),
           w.pc \in {"persist", "metadata"},
           obj' = [obj EXCEPT ![w.m] = MetadataPatched(@, w)]
    PROVE  LifecycleStep
<1> DEFINE o == obj[w.m]
           p == MetadataPatched(o, w)
<1>1. /\ w \in Worker /\ w.m \in Machines
      /\ obj \in [Machines -> Object] /\ o \in Object
  BY DEF TypeInv, TypeOK, WorkerOK
<1>2. obj'[w.m] = p /\ \A m \in Machines : m # w.m => obj'[m] = obj[m]
  BY <1>1
<1>3. w.mem.finalizer \in BOOLEAN /\ w.base.finalizer \in BOOLEAN
  BY <1>1 DEF Worker, Object
<1>4. w.mem.finalizer \/ (w.pc = "metadata" /\ Own(w.m) = {})
  BY <1>3 DEF LifeInv, PathInv, NormalCalls, CloseCalls
<1>5. o.phase = "deleting" => o.finalizer
  BY <1>1 DEF LifeInv, CacheInv
<1>6. \/ p.phase = o.phase
      \/ p.phase = "finalized" /\ o.phase = "deleting" /\ ~w.mem.finalizer
  BY <1>1, <1>3, <1>5 DEF MetadataPatched, Merged, Object
<1> HIDE DEF o, p
<1>7. CASE p.phase = o.phase
  <2>1. SamePhases
    BY <1>2, <1>7 DEF SamePhases, o
  <2> QED BY <2>1, InstancesStay, Stutters
<1>8. CASE p.phase = "finalized" /\ o.phase = "deleting" /\ ~w.mem.finalizer
  <2>1. PICK m \in Machines : m = w.m
    BY <1>1
  <2>2. /\ obj[m].phase = "deleting" /\ Own(m) = {}
        /\ \A n \in Machines : obj'[n].phase = IF n = m THEN "finalized" ELSE obj[n].phase
    BY <1>2, <1>4, <1>8, <2>1 DEF o
  <2>3. SameInstances
    BY InstancesStay
  <2>4. Lifecycle!Release(m)
    BY <2>2, <2>3 DEF Lifecycle!Release, SameInstances
  <2> QED BY <2>4 DEF LifecycleStep, Lifecycle!Next
<1> QED BY <1>6, <1>7, <1>8

(* The other patches change no phase.                                       *)
LEMMA KubeCallStep ==
    ASSUME TypeInv, LifeInv, KubeCall
    PROVE  LifecycleStep
<1>1. inst' = inst
  BY DEF KubeCall, PatchPaused, PatchObject, PatchConditions, PatchMetadata,
     PatchStatus, vultr
<1>2. /\ w \in Worker /\ w.m \in Machines
      /\ obj \in [Machines -> Object] /\ obj[w.m] \in Object
  BY DEF TypeInv, TypeOK, WorkerOK, KubeCall, PatchPaused, PatchObject,
     PatchConditions, PatchMetadata, PatchStatus, Call
<1>3. CASE \/ obj' = obj
           \/ obj' = [obj EXCEPT ![w.m].pausedCond = w.mem.pausedCond]
           \/ obj' = [obj EXCEPT ![w.m].reason = w.mem.reason]
           \/ obj' = [obj EXCEPT ![w.m].provisioned = w.mem.provisioned]
  <2>1. ASSUME NEW m \in Machines PROVE obj'[m].phase = obj[m].phase
    <3>1. obj[m] \in Object
      BY <1>2
    <3>2. \/ obj'[m] = obj[m]
          \/ obj'[m] = [obj[m] EXCEPT !.pausedCond = w.mem.pausedCond]
          \/ obj'[m] = [obj[m] EXCEPT !.reason = w.mem.reason]
          \/ obj'[m] = [obj[m] EXCEPT !.provisioned = w.mem.provisioned]
      BY <1>2, <1>3
    <3> QED BY <3>1, <3>2 DEF Object
  <2>2. SamePhases
    BY <2>1 DEF SamePhases
  <2> QED BY <1>1, <2>2, InstancesStay, Stutters
<1>4. CASE /\ w.pc \in {"persist", "metadata"} /\ Exists(obj[w.m])
           /\ obj' = [obj EXCEPT ![w.m] = MetadataPatched(@, w)]
  BY <1>1, <1>4, MetadataStep
<1> QED BY <1>3, <1>4 DEF KubeCall, PatchPaused, PatchObject, PatchConditions,
        PatchMetadata, PatchStatus, Call

(* Only a deletion of the object and what befalls VMs show in the abstract  *)
(* state.                                                                   *)
LEMMA EnvironmentStep ==
    ASSUME TypeInv, LifeInv, Environment
    PROVE  LifecycleStep
<1>1. CASE obj' = obj /\ inst' = inst
  <2>1. SamePhases
    BY <1>1 DEF SamePhases
  <2> QED BY <1>1, <2>1, InstancesStay, Stutters
<1>2. ASSUME NEW m \in Machines, DeleteObject(m)
      PROVE  LifecycleStep
  <2>1. /\ obj[m].phase = "live" /\ inst' = inst /\ obj \in [Machines -> Object]
        /\ obj' = [obj EXCEPT ![m].phase = IF obj[m].finalizer THEN "deleting" ELSE "gone"]
    BY <1>2 DEF DeleteObject, vultr, TypeInv, TypeOK
  <2>2. PICK p \in {"deleting", "gone"} :
            \A n \in Machines : obj'[n].phase = IF n = m THEN p ELSE obj[n].phase
    BY <2>1 DEF Object
  <2>3. SameInstances
    BY <2>1, InstancesStay
  <2>4. Lifecycle!Delete(m)
    BY <2>1, <2>2, <2>3 DEF Lifecycle!Delete, SameInstances
  <2> QED BY <2>4 DEF LifecycleStep, Lifecycle!Next
<1>3. ASSUME NEW i \in InstanceIDs,
             InstanceActive(i) \/ InstanceOdd(i) \/ InstanceLost(i) \/ ListCatchesUp(i)
      PROVE  LifecycleStep
  <2>1. SamePhases
    BY <1>3 DEF SamePhases, InstanceActive, InstanceOdd, InstanceLost,
       ListCatchesUp, InstanceChanges, kube
  <2>2. inst[i] \in Instance /\ inst \in [InstanceIDs -> Instance]
    BY DEF TypeInv, TypeOK
  <2>3. PICK new \in { [inst[i] EXCEPT !.status = "active"],
                       [inst[i] EXCEPT !.status = "other"],
                       [inst[i] EXCEPT !.place = "destroyed"],
                       [inst[i] EXCEPT !.place = "purged"] } :
            inst' = [inst EXCEPT ![i] = new]
    BY <1>3, <2>2 DEF InstanceActive, InstanceOdd, InstanceLost, ListCatchesUp,
       InstanceChanges
  <2>4. new.maker = inst[i].maker
    BY <2>2 DEF Instance
  <2>5. inst[i].place \in {"running", "destroyed"}
    BY <1>3 DEF InstanceActive, InstanceOdd, InstanceLost, ListCatchesUp,
       InstanceChanges
  <2> QED BY <2>1, <2>3, <2>4, <2>5, InstanceStep
<1>4. CASE \/ \E m \in Machines : CacheSync(m) \/ Event(m) \/ OwnerAdvances(m)
           \/ ClusterAppears \/ ClusterReady \/ ClusterLost \/ Pause \/ Unpause
           \/ LoadBalancerActive
  <2>1. obj' = obj /\ inst' = inst
    BY <1>4 DEF CacheSync, Event, OwnerAdvances, ClusterAppears, ClusterReady,
       ClusterLost, Pause, Unpause, InfraChanges, LoadBalancerActive, kube, vultr
  <2> QED BY <1>1, <2>1
<1> QED BY <1>2, <1>3, <1>4 DEF Environment

(* Every step of the model is a step of MachineLifecycle or a stuttering one.*)
LEMMA NextStep == TypeInv /\ LifeInv /\ [Next]_vars => [Lifecycle!Next]_(Lifecycle!vars)
<1> SUFFICES ASSUME TypeInv, LifeInv, [Next]_vars PROVE LifecycleStep
  BY DEF LifecycleStep
<1>1. CASE \/ \E m \in Machines : Begin(m)
           \/ Finish \/ Crash \/ UNCHANGED vars
  <2>1. obj' = obj /\ inst' = inst
    BY <1>1 DEF Begin, Skip, BeginPaused, BeginNormal, BeginDelete, Dequeue,
       Finish, Crash, vars, vultr
  <2>2. SamePhases
    BY <2>1 DEF SamePhases
  <2> QED BY <2>1, <2>2, InstancesStay, Stutters
<1> QED BY <1>1, VultrCallStep, KubeCallStep, EnvironmentStep DEF Next, WorkerStep

(* The VultrMachine controller implements MachineLifecycle: whatever fails, *)
(* lags, restarts or is read stale, a machine object holds at most one VM,  *)
(* and its finalizer lets it go only when it holds none and never will.     *)
THEOREM Refinement == Spec => ImplementsLifecycle
<1>1. Spec => Lifecycle!Spec
  BY LifecycleInit, NextStep, TypeInvariance, LifeInvariance, PTL
  DEF Spec, Lifecycle!Spec
<1> QED BY <1>1 DEF ImplementsLifecycle
=============================================================================
