------------------------- MODULE VultrMachineProofs -------------------------
(* Theorems about VultrMachine, for every set of machines and of instance   *)
(* IDs, every naming, and every bound on faults, mishaps and pauses.        *)
EXTENDS VultrMachine, TLAPS

NormalCalls == {"get", "list", "create", "persist", "lbGet", "lbUpdate"}
DeleteCalls == {"delete", "delList", "delRemaining"}
CloseCalls  == {"conditions", "metadata", "status"}
Closing     == CloseCalls \cup {"done"}

-----------------------------------------------------------------------------
(* Inductive invariants. TypeInv needs, besides the types, that the worker  *)
(* has a machine and an instance whenever the call it is at uses one.       *)

WorkerOK ==
    /\ w.pc # "idle" => w.m \in Machines
    /\ w.pc \in {"get", "delete"} => w.mem.providerID \in InstanceIDs
    /\ w.pc \in {"persist", "lbGet", "lbUpdate", "delRemaining"} => w.vm \in InstanceIDs

TypeInv == TypeOK /\ WorkerOK

(* The cache is behind the object, never ahead of it; and what lets an      *)
(* object go is a reconcile that has read it as being deleted.              *)
CacheInv ==
    \A m \in Machines :
        /\ obj[m].phase = "deleting" => obj[m].finalizer
        /\ cache[m].phase = "deleting" => cache[m].finalizer
        /\ cache[m].phase # "live" => obj[m].phase # "live"
        /\ obj[m].phase = "finalized" => cache[m].phase # "live"

(* Which path of Reconcile the worker is on, and what it knows there.       *)
PathInv ==
    /\ w.pc # "idle" =>
        /\ Exists(w.base)
        /\ w.base.phase = "deleting" => w.base.finalizer /\ cache[w.m].phase # "live"
        /\ w.base.phase = "live" => obj[w.m].phase # "finalized"
    /\ w.pc \in NormalCalls => w.base.phase = "live" /\ w.mem.finalizer
    /\ w.pc \in DeleteCalls => w.base.phase = "deleting" /\ w.mem.finalizer
    /\ w.pc = "create" => Own(w.m) = {}
    /\ (w.pc \in CloseCalls /\ ~w.mem.finalizer)
        => w.base.phase = "deleting" /\ Own(w.m) = {}

LifeInv == CacheInv /\ PathInv /\ AtMostOneInstance /\ FinalizedLeavesNoInstance

(* A provider ID that was once read or written stays on the object.         *)
ProviderInv ==
    /\ \A m \in Machines :
        /\ cache[m].provisioned => cache[m].providerID # NoID
        /\ cache[m].providerID # NoID => obj[m].providerID # NoID
    /\ w.pc # "idle" =>
        /\ w.base.providerID # NoID => obj[w.m].providerID # NoID
        /\ w.base.providerID # NoID => w.mem.providerID # NoID
        /\ w.mem.provisioned => obj[w.m].providerID # NoID
    /\ w.pc = "get" => w.mem.providerID = w.base.providerID
    /\ w.pc \in {"list", "create"} => w.mem.providerID = NoID
    /\ w.pc = "persist" => w.mem.providerID # NoID
    /\ w.pc \in {"lbGet", "lbUpdate"} => obj[w.m].providerID # NoID

-----------------------------------------------------------------------------
(* What the local code between two calls does to the worker's record.       *)

(* r is the same reconcile as k, with the same fate of the finalizer.       *)
Same(k, r) ==
    /\ r.m = k.m
    /\ r.base = k.base
    /\ r.vm = k.vm
    /\ r.mem.finalizer = k.mem.finalizer
    /\ r.mem.providerID = k.mem.providerID

(* Returned ends the reconcile on a call of Close, or on none.              *)
LEMMA ReturnedFacts ==
    ASSUME NEW k \in Worker, NEW retry \in BOOLEAN
    PROVE  LET r == Returned(k, retry) IN
           r \in Worker /\ r.pc \in Closing /\ Same(k, r) /\ r.mem = k.mem
<1>1. /\ AfterMetadata(k) \in Closing
      /\ AfterConditions(k) \in Closing
      /\ ClosePC(k) \in Closing
  BY DEF AfterMetadata, AfterConditions, ClosePC, Closing, CloseCalls
<1>2. ClosePC(k) \in Calls
  BY <1>1 DEF Closing, CloseCalls, Calls
<1> QED BY <1>1, <1>2 DEF Returned, Worker, Same

(* Setting the Ready condition changes no other field.                      *)
LEMMA SetReadyConditionFacts ==
    ASSUME NEW k \in Worker, NEW reason \in Reasons
    PROVE  LET r == SetReadyCondition(k, reason) IN
           /\ r \in Worker /\ Same(k, r) /\ r.pc = k.pc
           /\ r.mem.provisioned = k.mem.provisioned
  BY DEF SetReadyCondition, Worker, Object, Same

(* The way a reconcile body ends after a condition was set.                 *)
LEMMA ReturnedReasonFacts ==
    ASSUME NEW k \in Worker, NEW reason \in Reasons, NEW retry \in BOOLEAN
    PROVE  LET r == Returned(SetReadyCondition(k, reason), retry) IN
           /\ r \in Worker /\ r.pc \in Closing /\ Same(k, r)
           /\ r.mem.provisioned = k.mem.provisioned
<1> DEFINE s == SetReadyCondition(k, reason)
<1>1. s \in Worker /\ Same(k, s) /\ s.mem.provisioned = k.mem.provisioned
  BY SetReadyConditionFacts
<1> HIDE DEF s
<1>2. /\ Returned(s, retry) \in Worker /\ Returned(s, retry).pc \in Closing
      /\ Same(s, Returned(s, retry)) /\ Returned(s, retry).mem = s.mem
  BY <1>1, ReturnedFacts
<1>3. /\ Same(k, Returned(s, retry))
      /\ Returned(s, retry).mem.provisioned = k.mem.provisioned
  BY <1>1, <1>2 DEF Same
<1> QED BY <1>2, <1>3 DEF s

(* The same, with provisioned changed as well.                              *)
LEMMA ReturnedProvisionedFacts ==
    ASSUME NEW k \in Worker, NEW reason \in Reasons, NEW retry \in BOOLEAN,
           NEW b \in BOOLEAN
    PROVE  LET r == Returned(SetOutcome(k, reason, b), retry) IN
           /\ r \in Worker /\ r.pc \in Closing /\ Same(k, r)
           /\ r.mem.provisioned = b
<1> DEFINE s == SetReadyCondition(k, reason)
           t == SetOutcome(k, reason, b)
<1>1. s \in Worker /\ Same(k, s)
  BY SetReadyConditionFacts
<1>2. t \in Worker /\ Same(k, t) /\ t.mem.provisioned = b
  <2> t = [s EXCEPT !.mem.provisioned = b]
    BY DEF SetOutcome
  <2> HIDE DEF s, t
  <2> QED BY <1>1 DEF Worker, Object, Same
<1> HIDE DEF t
<1>3. /\ Returned(t, retry) \in Worker /\ Returned(t, retry).pc \in Closing
      /\ Same(t, Returned(t, retry)) /\ Returned(t, retry).mem = t.mem
  BY <1>2, ReturnedFacts
<1>4. Same(k, Returned(t, retry)) /\ Returned(t, retry).mem.provisioned = b
  BY <1>2, <1>3 DEF Same
<1> QED BY <1>3, <1>4 DEF t

(* The switch on the instance status ends the reconcile.                    *)
LEMMA ReportedFacts ==
    ASSUME NEW k \in Worker
    PROVE  LET r == Reported(k) IN
           r \in Worker /\ r.pc \in Closing /\ Same(k, r)
<1>1. CASE k.st = "pending"
  BY <1>1, ReturnedReasonFacts DEF Reported, Reasons
<1>2. CASE k.st = "active"
  BY <1>2, ReturnedProvisionedFacts DEF Reported, Reasons
<1>3. CASE k.st = "other"
  BY <1>3, ReturnedProvisionedFacts DEF Reported, SetTerminalFailure, Reasons
<1> QED BY <1>1, <1>2, <1>3 DEF Worker, Statuses

(* Waiting for the load balancer ends the reconcile.                        *)
LEMMA WaitForLoadBalancerFacts ==
    ASSUME NEW k \in Worker
    PROVE  LET r == WaitForLoadBalancer(k) IN
           /\ r \in Worker /\ r.pc \in Closing /\ Same(k, r)
           /\ r.mem.provisioned = k.mem.provisioned
  BY ReturnedReasonFacts DEF WaitForLoadBalancer, Reasons

(* After the provider ID is written: the load balancer, or the end.         *)
LEMMA ProceedFacts ==
    ASSUME NEW k \in Worker
    PROVE  LET r == Proceed(k) IN
           r \in Worker /\ r.pc \in Closing \cup {"lbGet"} /\ Same(k, r)
<1>1. LET r == [k EXCEPT !.pc = "lbGet"] IN
      r \in Worker /\ r.pc = "lbGet" /\ Same(k, r)
  BY DEF Worker, Calls, Same
<1> QED BY <1>1, ReportedFacts, WaitForLoadBalancerFacts DEF Proceed

(* With an instance in hand: persist its ID, or go on.                      *)
LEMMA FoundFacts ==
    ASSUME NEW k \in Worker, NEW i \in InstanceIDs, NEW s \in Statuses
    PROVE  LET r == Found(k, i, s) IN
           /\ r \in Worker
           /\ r.m = k.m /\ r.base = k.base /\ r.vm = i
           /\ r.mem.finalizer = k.mem.finalizer /\ r.mem.providerID = i
           /\ k.mem.providerID = i => r.pc \in Closing \cup {"lbGet"}
           /\ k.mem.providerID # i =>
                r.pc = "persist" /\ r.mem.provisioned = k.mem.provisioned
<1> DEFINE k1 == [k EXCEPT !.vm = i, !.st = s]
           k2 == [k1 EXCEPT !.mem.providerID = i, !.pc = "persist"]
<1>1. k1 \in Worker /\ k1.m = k.m /\ k1.base = k.base /\ k1.vm = i /\ k1.mem = k.mem
  BY DEF Worker, MaybeID
<1> HIDE DEF k1
<1>2. /\ k2 \in Worker /\ k2.m = k.m /\ k2.base = k.base /\ k2.vm = i
      /\ k2.mem.finalizer = k.mem.finalizer /\ k2.mem.providerID = i
      /\ k2.mem.provisioned = k.mem.provisioned /\ k2.pc = "persist"
  BY <1>1 DEF Worker, Object, MaybeID, Calls
<1> HIDE DEF k2
<1>3. CASE k.mem.providerID = i
  <2>1. Found(k, i, s) = Proceed(k1)
    BY <1>3 DEF Found, k1
  <2>2. LET r == Proceed(k1) IN
        r \in Worker /\ r.pc \in Closing \cup {"lbGet"} /\ Same(k1, r)
    BY <1>1, ProceedFacts
  <2> QED BY <1>1, <1>3, <2>1, <2>2 DEF Same
<1>4. CASE k.mem.providerID # i
  <2>1. Found(k, i, s) = k2
    BY <1>4 DEF Found, k1, k2
  <2> QED BY <1>2, <1>4, <2>1
<1> QED BY <1>3, <1>4

(* A failed create ends the reconcile.                                      *)
LEMMA CreateFailedFacts ==
    ASSUME NEW k \in Worker
    PROVE  LET r == CreateFailed(k) IN
           r \in Worker /\ r.pc \in Closing /\ Same(k, r) /\ ~r.mem.provisioned
  BY ReturnedProvisionedFacts DEF CreateFailed, Reasons

(* The patch of metadata and spec yields an object.                         *)
LEMMA MetadataPatchedType ==
    ASSUME NEW o \in Object, NEW k \in Worker
    PROVE  MetadataPatched(o, k) \in Object
  BY DEF MetadataPatched, Merged, Worker, Object, Phases

(* Patching one field of one object keeps the type of all objects.          *)
LEMMA FieldTypes ==
    ASSUME NEW o \in [Machines -> Object], NEW m \in Machines
    PROVE  /\ \A v \in Reasons : [o EXCEPT ![m].reason = v] \in [Machines -> Object]
           /\ \A v \in BOOLEAN : [o EXCEPT ![m].provisioned = v] \in [Machines -> Object]
           /\ \A v \in {"", "False", "True"} :
                [o EXCEPT ![m].pausedCond = v] \in [Machines -> Object]
           /\ \A v \in Phases : [o EXCEPT ![m].phase = v] \in [Machines -> Object]
<1>1. o[m] \in Object
  OBVIOUS
<1>2. /\ \A v \in Reasons : [o[m] EXCEPT !.reason = v] \in Object
      /\ \A v \in BOOLEAN : [o[m] EXCEPT !.provisioned = v] \in Object
      /\ \A v \in {"", "False", "True"} : [o[m] EXCEPT !.pausedCond = v] \in Object
      /\ \A v \in Phases : [o[m] EXCEPT !.phase = v] \in Object
  BY <1>1 DEF Object
<1>3. \A v \in Object : [o EXCEPT ![m] = v] \in [Machines -> Object]
  OBVIOUS
<1> QED BY <1>2, <1>3

(* A patch of one field leaves the rest of the object.                      *)
LEMMA ReasonPatched ==
    ASSUME NEW o \in [Machines -> Object], NEW m \in Machines, NEW v, NEW p,
           p = [o EXCEPT ![m].reason = v]
    PROVE  \A n \in Machines : /\ p[n].phase = o[n].phase
                               /\ p[n].finalizer = o[n].finalizer
                               /\ p[n].providerID = o[n].providerID
                               /\ p[n].provisioned = o[n].provisioned
<1> DEFINE q == [o[m] EXCEPT !.reason = v]
<1>1. /\ q.phase = o[m].phase
      /\ q.finalizer = o[m].finalizer
      /\ q.providerID = o[m].providerID
      /\ q.provisioned = o[m].provisioned
  BY DEF Object
<1>2. p = [o EXCEPT ![m] = q]
  OBVIOUS
<1> HIDE DEF q
<1> QED BY <1>1, <1>2

(* The same for the Paused condition.                                       *)
LEMMA PausedPatched ==
    ASSUME NEW o \in [Machines -> Object], NEW m \in Machines, NEW v, NEW p,
           p = [o EXCEPT ![m].pausedCond = v]
    PROVE  \A n \in Machines : /\ p[n].phase = o[n].phase
                               /\ p[n].finalizer = o[n].finalizer
                               /\ p[n].providerID = o[n].providerID
                               /\ p[n].provisioned = o[n].provisioned
<1> DEFINE q == [o[m] EXCEPT !.pausedCond = v]
<1>1. /\ q.phase = o[m].phase
      /\ q.finalizer = o[m].finalizer
      /\ q.providerID = o[m].providerID
      /\ q.provisioned = o[m].provisioned
  BY DEF Object
<1>2. p = [o EXCEPT ![m] = q]
  OBVIOUS
<1> HIDE DEF q
<1> QED BY <1>1, <1>2

(* The same for the status.                                                 *)
LEMMA StatusPatched ==
    ASSUME NEW o \in [Machines -> Object], NEW m \in Machines, NEW v, NEW p,
           p = [o EXCEPT ![m].provisioned = v]
    PROVE  \A n \in Machines : /\ p[n].phase = o[n].phase
                               /\ p[n].finalizer = o[n].finalizer
                               /\ p[n].providerID = o[n].providerID
<1> DEFINE q == [o[m] EXCEPT !.provisioned = v]
<1>1. /\ q.phase = o[m].phase
      /\ q.finalizer = o[m].finalizer
      /\ q.providerID = o[m].providerID
  BY DEF Object
<1>2. p = [o EXCEPT ![m] = q]
  OBVIOUS
<1> HIDE DEF q
<1> QED BY <1>1, <1>2

(* The idle worker is well typed.                                           *)
LEMMA IdleType ==
    NewObject \in Object /\ Idle \in Worker /\ Idle.pc = "idle"
  BY DEF NewObject, Idle, Object, Worker, Phases, Reasons, MaybeID, Calls, Statuses

(* A new reconcile works on the cached object.                              *)
LEMMA RunFacts ==
    ASSUME TypeOK, NEW m \in Machines
    PROVE  LET r == Run(m) IN
           /\ r \in Worker /\ r.m = m /\ r.base = cache[m] /\ r.mem = cache[m]
           /\ r.pc = "idle"
  BY IdleType DEF TypeOK, Run, Worker

Budget == [faults : Nat, mishaps : Nat, pauses : Nat]

(* Spending keeps the budget a record of naturals.                          *)
LEMMA BudgetType ==
    ASSUME TypeOK
    PROVE  /\ NoFault => budget' \in Budget
           /\ Fault => budget' \in Budget
           /\ Spend("mishaps") => budget' \in Budget
           /\ Spend("pauses") => budget' \in Budget
           /\ \A reason \in BOOLEAN : FailsIf(reason) => budget' \in Budget
  BY DEF TypeOK, Spend, Fault, NoFault, FailsIf, Budget

-----------------------------------------------------------------------------
(* Type correctness *)

(* TypeInv holds when the manager starts.                                   *)
LEMMA TypeInit == Init => TypeInv
  BY IdleType, ConstantsAssumption
  DEF Init, TypeInv, TypeOK, WorkerOK, FreeInstance, Instance, Statuses

(* The steps that take a machine from the queue.                            *)
LEMMA TypeBegin ==
    ASSUME TypeInv, NEW m \in Machines, Begin(m)
    PROVE  TypeInv'
<1> USE DEF TypeInv
<1>0. /\ obj' = obj /\ cache' = cache /\ owner' = owner /\ infra' = infra
      /\ inst' = inst /\ lb' = lb /\ budget' = budget
      /\ queued' \in SUBSET Machines
  BY DEF Begin, Skip, BeginPaused, BeginNormal, BeginDelete, Dequeue, gates,
         vultr, TypeOK
<1> DEFINE r == Run(m)
<1>1. r \in Worker /\ r.m = m /\ r.mem = cache[m] /\ cache[m] \in Object
  BY RunFacts DEF TypeOK
<1> HIDE DEF r
<1>2. SUFFICES w' \in Worker /\ WorkerOK'
  BY <1>0 DEF TypeOK
<1>3. CASE Skip(m)
  BY <1>0, <1>3 DEF Skip, TypeOK, WorkerOK
<1>4. CASE BeginPaused(m)
  <2>1. w' = [r EXCEPT !.pc = "paused", !.mem.pausedCond = PausedStatus]
    BY <1>4 DEF BeginPaused, r
  <2> QED BY <1>1, <2>1 DEF Worker, Calls, Object, PausedStatus, WorkerOK
<1>5. CASE BeginNormal(m)
  <2> DEFINE k == [r EXCEPT !.mem.finalizer = TRUE]
  <2>1. k \in Worker /\ k.m = m
    BY <1>1 DEF Worker, Object
  <2> HIDE DEF k
  <2>2. \/ \E reason \in Reasons : w' = Returned(SetReadyCondition(k, reason), FALSE)
        \/ /\ w' = [k EXCEPT !.pc = "get"] /\ k.mem.providerID # NoID
        \/ w' = [k EXCEPT !.pc = "list"]
    BY <1>5 DEF BeginNormal, k, r, Reasons
  <2>3. CASE \E reason \in Reasons : w' = Returned(SetReadyCondition(k, reason), FALSE)
    <3>1. PICK reason \in Reasons : w' = Returned(SetReadyCondition(k, reason), FALSE)
      BY <2>3
    <3>2. w' \in Worker /\ w'.pc \in Closing /\ w'.m = m
      BY <2>1, <3>1, ReturnedReasonFacts DEF Same
    <3> QED BY <3>2 DEF WorkerOK, Closing, CloseCalls
  <2> QED BY <2>1, <2>2, <2>3 DEF WorkerOK, Worker, Calls, Object, MaybeID
<1>6. CASE BeginDelete(m)
  <2> DEFINE k == SetReadyCondition(r, "Deleting")
  <2>1. k \in Worker /\ k.m = m
    BY <1>1, SetReadyConditionFacts DEF Reasons, Same
  <2> HIDE DEF k
  <2>2. \/ w' = [k EXCEPT !.pc = "delete"] /\ k.mem.providerID # NoID
        \/ w' = [k EXCEPT !.pc = "delList"]
    BY <1>6 DEF BeginDelete, k, r
  <2> QED BY <2>1, <2>2 DEF WorkerOK, Worker, Calls, Object, MaybeID
<1> QED BY <1>3, <1>4, <1>5, <1>6 DEF Begin

(* The worker's calls to Vultr.                                             *)
LEMMA TypeVultrCall ==
    ASSUME TypeInv, VultrCall
    PROVE  TypeInv'
<1> USE DEF TypeInv
<1>0. /\ obj' = obj /\ cache' = cache /\ queued' = queued
      /\ owner' = owner /\ infra' = infra
  BY DEF VultrCall, GetInstance, FindInstance, CreateInstance, GetLoadBalancer,
     UpdateLoadBalancer, DeleteInstance, FindRemaining, DeleteRemaining,
     kube, gates
<1>1. w \in Worker /\ (w.pc # "idle" => w.m \in Machines)
  BY DEF TypeOK, WorkerOK
<1>2. SUFFICES /\ inst' \in [InstanceIDs -> Instance]
               /\ lb' \in [active : BOOLEAN, members : SUBSET InstanceIDs]
               /\ w' \in Worker
               /\ budget' \in Budget
               /\ WorkerOK'
  BY <1>0 DEF TypeOK, Budget
<1>3. ASSUME w.pc # "idle",
             \/ \E r \in BOOLEAN : w' = Returned(w, r)
             \/ \E reason \in Reasons, r \in BOOLEAN :
                    w' = Returned(SetReadyCondition(w, reason), r)
             \/ w' = Reported(w)
             \/ w' = WaitForLoadBalancer(w)
             \/ w' = CreateFailed(w)
             \/ \E i \in InstanceIDs, s \in Statuses : w' = Found(w, i, s)
      PROVE  w' \in Worker /\ WorkerOK'
  BY <1>1, <1>3, ReturnedFacts, ReturnedReasonFacts, ReportedFacts,
     WaitForLoadBalancerFacts, CreateFailedFacts, FoundFacts
  DEF WorkerOK, Same, Closing, CloseCalls
<1>4. CASE GetInstance
  <2>1. w.pc = "get" /\ w.mem.providerID \in InstanceIDs
    BY <1>4 DEF GetInstance, Call, WorkerOK
  <2>2. inst[w.mem.providerID].status \in Statuses
    BY <2>1 DEF TypeOK, Instance
  <2>3. inst' = inst /\ lb' = lb /\ budget' \in Budget
    BY <1>4, BudgetType DEF GetInstance, vultr, FailsIf
  <2>4. "InstanceNotFound" \in Reasons
    BY DEF Reasons
  <2> QED BY <1>3, <1>4, <2>1, <2>2, <2>3, <2>4 DEF GetInstance, TypeOK
<1>5. CASE FindInstance
  <2>1. w.pc = "list" /\ w.m \in Machines
    BY <1>5 DEF FindInstance, Call, WorkerOK
  <2>2. inst' = inst /\ lb' = lb /\ budget' \in Budget
    BY <1>5, BudgetType DEF FindInstance, vultr, FailsIf
  <2>3. CASE w' = [w EXCEPT !.pc = "create"]
    BY <1>1, <2>1, <2>2, <2>3 DEF TypeOK, WorkerOK, Worker, Calls
  <2>4. \A i \in InstanceIDs : inst[i].status \in Statuses
    BY DEF TypeOK, Instance
  <2> QED BY <1>3, <1>5, <2>1, <2>2, <2>3, <2>4 DEF FindInstance, TypeOK
<1>6. CASE CreateInstance
  <2>1. w.pc = "create" /\ w.m \in Machines
    BY <1>6 DEF CreateInstance, Call, WorkerOK
  <2>2. lb' = lb /\ budget' \in Budget
    BY <1>6, BudgetType DEF CreateInstance
  <2>3. \A i \in InstanceIDs, t \in BOOLEAN :
            Created(i, w.m, t) => inst' \in [InstanceIDs -> Instance]
    BY <2>1 DEF Created, TypeOK, Instance, Statuses
  <2>4. inst' \in [InstanceIDs -> Instance]
    BY <1>6, <2>3 DEF CreateInstance, TypeOK
  <2> QED BY <1>3, <1>6, <2>1, <2>2, <2>4 DEF CreateInstance, TypeOK, Statuses
<1>7. CASE GetLoadBalancer
  <2>1. w.pc = "lbGet" /\ w.m \in Machines /\ w.vm \in InstanceIDs
    BY <1>7 DEF GetLoadBalancer, Call, WorkerOK
  <2>2. inst' = inst /\ lb' = lb /\ budget' \in Budget
    BY <1>7, BudgetType DEF GetLoadBalancer, vultr
  <2>3. CASE w' = [w EXCEPT !.pc = "lbUpdate", !.seen = lb.members]
    <3>1. lb.members \in SUBSET InstanceIDs
      BY DEF TypeOK
    <3> QED BY <1>1, <2>1, <2>2, <2>3, <3>1 DEF TypeOK, WorkerOK, Worker, Calls
  <2> QED BY <1>3, <1>7, <2>1, <2>2, <2>3 DEF GetLoadBalancer, TypeOK
<1>8. CASE UpdateLoadBalancer
  <2>1. w.pc = "lbUpdate" /\ w.m \in Machines /\ w.vm \in InstanceIDs
    BY <1>8 DEF UpdateLoadBalancer, Call, WorkerOK
  <2>2. inst' = inst /\ budget' \in Budget
    BY <1>8, BudgetType DEF UpdateLoadBalancer
  <2>3. lb' \in [active : BOOLEAN, members : SUBSET InstanceIDs]
    <3>1. w.seen \cup {w.vm} \in SUBSET InstanceIDs
      BY <1>1, <2>1 DEF Worker
    <3>2. [lb EXCEPT !.members = w.seen \cup {w.vm}]
            \in [active : BOOLEAN, members : SUBSET InstanceIDs]
      BY <3>1 DEF TypeOK
    <3> QED BY <1>8, <3>2 DEF UpdateLoadBalancer, TypeOK
  <2> QED BY <1>3, <1>8, <2>1, <2>2, <2>3 DEF UpdateLoadBalancer, TypeOK
<1>9. \A i \in InstanceIDs : Destroyed(i) => inst' \in [InstanceIDs -> Instance]
  BY DEF Destroyed, TypeOK, Instance
<1>10. CASE DeleteInstance
  <2>1. w.pc = "delete" /\ w.m \in Machines /\ w.mem.providerID \in InstanceIDs
    BY <1>10 DEF DeleteInstance, Call, WorkerOK
  <2>2. lb' = lb /\ budget' \in Budget
    BY <1>10, BudgetType DEF DeleteInstance, FailsIf
  <2>3. inst' \in [InstanceIDs -> Instance]
    BY <1>9, <1>10, <2>1 DEF DeleteInstance, TypeOK
  <2>4. CASE w' = [w EXCEPT !.pc = "delList"]
    BY <1>1, <2>1, <2>2, <2>3, <2>4 DEF TypeOK, WorkerOK, Worker, Calls
  <2> QED BY <1>3, <1>10, <2>1, <2>2, <2>3, <2>4 DEF DeleteInstance, TypeOK
<1>11. CASE FindRemaining
  <2>1. w.pc = "delList" /\ w.m \in Machines
    BY <1>11 DEF FindRemaining, Call, WorkerOK
  <2>2. inst' = inst /\ lb' = lb /\ budget' \in Budget
    BY <1>11, BudgetType DEF FindRemaining, vultr, FailsIf
  <2>3. CASE w' = Returned(RemoveFinalizer(w), FALSE)
    <3>1. RemoveFinalizer(w) \in Worker /\ RemoveFinalizer(w).m = w.m
      BY <1>1 DEF RemoveFinalizer, Worker, Object
    <3> QED BY <2>1, <2>2, <2>3, <3>1, ReturnedFacts
            DEF TypeOK, WorkerOK, Same, Closing, CloseCalls
  <2>4. ASSUME NEW i \in InstanceIDs, w' = [w EXCEPT !.vm = i, !.pc = "delRemaining"]
        PROVE  w' \in Worker /\ WorkerOK'
    BY <1>1, <2>1, <2>4 DEF WorkerOK, Worker, Calls, MaybeID
  <2> QED BY <1>3, <1>11, <2>1, <2>2, <2>3, <2>4 DEF FindRemaining, TypeOK
<1>12. CASE DeleteRemaining
  <2>1. w.pc = "delRemaining" /\ w.vm \in InstanceIDs
    BY <1>12 DEF DeleteRemaining, Call, WorkerOK
  <2>2. lb' = lb /\ budget' \in Budget
    BY <1>12, BudgetType DEF DeleteRemaining
  <2>3. inst' \in [InstanceIDs -> Instance]
    BY <1>9, <1>12, <2>1 DEF DeleteRemaining, TypeOK
  <2> QED BY <1>3, <1>12, <2>1, <2>2, <2>3 DEF DeleteRemaining, TypeOK
<1> QED BY <1>4, <1>5, <1>6, <1>7, <1>8, <1>10, <1>11, <1>12 DEF VultrCall

(* The worker's patches.                                                    *)
LEMMA TypeKubeCall ==
    ASSUME TypeInv, KubeCall
    PROVE  TypeInv'
<1> USE DEF TypeInv
<1>0. /\ cache' = cache /\ queued' = queued /\ owner' = owner
      /\ infra' = infra /\ inst' = inst /\ lb' = lb
  BY DEF KubeCall, PatchPaused, PatchObject, PatchConditions, PatchMetadata,
     PatchStatus, gates, vultr
<1>1. w \in Worker /\ w.m \in Machines /\ obj[w.m] \in Object
  BY DEF TypeOK, WorkerOK, KubeCall, PatchPaused, PatchObject, PatchConditions,
     PatchMetadata, PatchStatus, Call
<1>2. SUFFICES /\ obj' \in [Machines -> Object]
               /\ w' \in Worker
               /\ budget' \in Budget
               /\ WorkerOK'
  BY <1>0 DEF TypeOK, Budget
<1>3. ASSUME NEW pc \in Closing, NEW r \in BOOLEAN,
             w' = [w EXCEPT !.pc = pc, !.retry = r]
      PROVE  w' \in Worker /\ WorkerOK'
  BY <1>1, <1>3 DEF WorkerOK, Worker, Closing, CloseCalls, Calls
<1>4. AfterConditions(w) \in Closing /\ AfterMetadata(w) \in Closing
  BY DEF AfterConditions, AfterMetadata, Closing, CloseCalls
<1>5. [obj EXCEPT ![w.m] = MetadataPatched(@, w)] \in [Machines -> Object]
  BY <1>1, MetadataPatchedType DEF TypeOK
<1>6. CASE PatchPaused
  <2>1. budget' \in Budget
    BY <1>6, BudgetType DEF PatchPaused, FailsIf
  <2>2. obj' \in [Machines -> Object]
    <3>1. w.mem.pausedCond \in {"", "False", "True"}
      BY <1>1 DEF Worker, Object
    <3>2. obj \in [Machines -> Object]
      BY DEF TypeOK
    <3>3. [obj EXCEPT ![w.m].pausedCond = w.mem.pausedCond] \in [Machines -> Object]
      BY <1>1, <3>1, <3>2, FieldTypes
    <3>4. obj' \in {obj, [obj EXCEPT ![w.m].pausedCond = w.mem.pausedCond]}
      BY <1>6 DEF PatchPaused
    <3> QED BY <3>2, <3>3, <3>4
  <2>3. \/ w' = [w EXCEPT !.pc = "done"]
        \/ w' = [w EXCEPT !.pc = "done", !.retry = TRUE]
    BY <1>6 DEF PatchPaused
  <2>4. w' \in Worker /\ WorkerOK'
    BY <1>1, <2>3 DEF WorkerOK, Worker, Calls
  <2> QED BY <2>1, <2>2, <2>4
<1>7. CASE PatchObject
  <2>1. w.pc = "persist" /\ budget' \in Budget
    BY <1>7, BudgetType DEF PatchObject, Call, FailsIf
  <2>2. obj' \in [Machines -> Object]
    BY <1>5, <1>7 DEF PatchObject, TypeOK
  <2>3. w' = Proceed(w) \/ w' = Returned(w, TRUE)
    BY <1>7 DEF PatchObject
  <2>4. w' \in Worker /\ WorkerOK'
    <3>1. w.vm \in InstanceIDs
      BY <2>1 DEF WorkerOK
    <3>2. w' \in Worker /\ w'.pc \in Closing \cup {"lbGet"} /\ w'.m = w.m /\ w'.vm = w.vm
      <4>1. CASE w' = Proceed(w)
        BY <1>1, <4>1, ProceedFacts DEF Same
      <4>2. CASE w' = Returned(w, TRUE)
        BY <1>1, <4>2, ReturnedFacts DEF Same
      <4> QED BY <2>3, <4>1, <4>2
    <3> QED BY <1>1, <3>1, <3>2 DEF WorkerOK, Closing, CloseCalls
  <2> QED BY <2>1, <2>2, <2>4
<1>8. w.retry \in BOOLEAN /\ (w.retry \/ TRUE) \in BOOLEAN /\ (w.retry \/ FALSE) \in BOOLEAN
  BY <1>1 DEF Worker
<1>9. CASE PatchConditions
  <2>1. budget' \in Budget
    BY <1>9, BudgetType DEF PatchConditions
  <2>2. obj' \in [Machines -> Object]
    <3>1. w.mem.reason \in Reasons
      BY <1>1 DEF Worker, Object
    <3>2. obj \in [Machines -> Object]
      BY DEF TypeOK
    <3>3. [obj EXCEPT ![w.m].reason = w.mem.reason] \in [Machines -> Object]
      BY <1>1, <3>1, <3>2, FieldTypes
    <3>4. obj' \in {obj, [obj EXCEPT ![w.m].reason = w.mem.reason]}
      BY <1>9 DEF PatchConditions
    <3> QED BY <3>2, <3>3, <3>4
  <2>3. \E r \in BOOLEAN : w' = [w EXCEPT !.pc = AfterConditions(w), !.retry = r]
    BY <1>8, <1>9 DEF PatchConditions
  <2> QED BY <1>3, <1>4, <2>1, <2>2, <2>3
<1>10. CASE PatchMetadata
  <2>1. budget' \in Budget
    BY <1>10, BudgetType DEF PatchMetadata, FailsIf
  <2>2. obj' \in [Machines -> Object]
    BY <1>5, <1>10 DEF PatchMetadata, TypeOK
  <2>3. \E r \in BOOLEAN : w' = [w EXCEPT !.pc = AfterMetadata(w), !.retry = r]
    BY <1>8, <1>10 DEF PatchMetadata
  <2> QED BY <1>3, <1>4, <2>1, <2>2, <2>3
<1>11. CASE PatchStatus
  <2>1. budget' \in Budget
    BY <1>11, BudgetType DEF PatchStatus, FailsIf
  <2>2. obj' \in [Machines -> Object]
    <3>1. w.mem.provisioned \in BOOLEAN
      BY <1>1 DEF Worker, Object
    <3>2. obj \in [Machines -> Object]
      BY DEF TypeOK
    <3>3. [obj EXCEPT ![w.m].provisioned = w.mem.provisioned] \in [Machines -> Object]
      BY <1>1, <3>1, <3>2, FieldTypes
    <3>4. obj' \in {obj, [obj EXCEPT ![w.m].provisioned = w.mem.provisioned]}
      BY <1>11 DEF PatchStatus
    <3> QED BY <3>2, <3>3, <3>4
  <2>3. \E r \in BOOLEAN : w' = [w EXCEPT !.pc = "done", !.retry = r]
    BY <1>8, <1>11 DEF PatchStatus
  <2>4. "done" \in Closing
    BY DEF Closing
  <2> QED BY <1>3, <2>1, <2>2, <2>3, <2>4
<1> QED BY <1>6, <1>7, <1>9, <1>10, <1>11 DEF KubeCall

(* Restarts, the end of a reconcile, and the environment.                   *)
LEMMA TypeOthers ==
    ASSUME TypeInv, Finish \/ Crash \/ Environment
    PROVE  TypeInv'
<1> USE DEF TypeInv
<1>1. CASE Finish
  BY <1>1, IdleType DEF Finish, Call, TypeOK, WorkerOK, gates, vultr
<1>2. CASE Crash
  BY <1>2, IdleType, BudgetType DEF Crash, TypeOK, WorkerOK, gates, vultr, Budget
<1>3. ASSUME NEW m \in Machines,
             CacheSync(m) \/ Event(m) \/ OwnerAdvances(m) \/ DeleteObject(m)
      PROVE  TypeInv'
  <2>1. CASE CacheSync(m)
    BY <2>1 DEF CacheSync, TypeOK, WorkerOK, gates, vultr
  <2>2. CASE Event(m)
    BY <2>2 DEF Event, TypeOK, WorkerOK, gates, vultr
  <2>3. CASE OwnerAdvances(m)
    BY <2>3 DEF OwnerAdvances, TypeOK, WorkerOK, vultr
  <2>4. CASE DeleteObject(m)
    <3>1. obj' \in [Machines -> Object]
      BY <2>4, FieldTypes DEF DeleteObject, TypeOK, Phases
    <3> QED BY <2>4, <3>1 DEF DeleteObject, TypeOK, WorkerOK, gates, vultr
  <2> QED BY <1>3, <2>1, <2>2, <2>3, <2>4
<1>4. CASE ClusterAppears \/ ClusterReady \/ ClusterLost \/ Pause \/ Unpause
  <2>1. /\ obj' = obj /\ cache' = cache /\ queued' = Machines /\ owner' = owner
        /\ inst' = inst /\ lb' = lb /\ w' = w
    BY <1>4 DEF ClusterAppears, ClusterReady, ClusterLost, Pause, Unpause,
       InfraChanges, vultr
  <2>2. infra' \in [present : BOOLEAN, lbID : BOOLEAN, ready : BOOLEAN, paused : BOOLEAN]
    BY <1>4 DEF ClusterAppears, ClusterReady, ClusterLost, Pause, Unpause,
       InfraChanges, TypeOK
  <2>3. budget' \in Budget
    BY <1>4, BudgetType DEF ClusterAppears, ClusterReady, ClusterLost, Pause,
       Unpause, TypeOK, NoFault
  <2> QED BY <2>1, <2>2, <2>3 DEF TypeOK, WorkerOK, Budget
<1>5. CASE LoadBalancerActive
  BY <1>5 DEF LoadBalancerActive, TypeOK, WorkerOK, kube, gates
<1>6. ASSUME NEW i \in InstanceIDs,
             InstanceActive(i) \/ InstanceOdd(i) \/ InstanceLost(i) \/ ListCatchesUp(i)
      PROVE  TypeInv'
  <2>1. /\ obj' = obj /\ cache' = cache /\ queued' = queued /\ owner' = owner
        /\ infra' = infra /\ lb' = lb /\ w' = w
    BY <1>6 DEF InstanceActive, InstanceOdd, InstanceLost, ListCatchesUp,
       InstanceChanges, kube, gates
  <2>2. inst' \in [InstanceIDs -> Instance]
    BY <1>6 DEF InstanceActive, InstanceOdd, InstanceLost, ListCatchesUp,
       InstanceChanges, TypeOK, Instance, Statuses
  <2>3. budget' \in Budget
    BY <1>6, BudgetType DEF InstanceActive, InstanceOdd, InstanceLost,
       ListCatchesUp, TypeOK, NoFault
  <2> QED BY <2>1, <2>2, <2>3 DEF TypeOK, WorkerOK, Budget
<1> QED BY <1>1, <1>2, <1>3, <1>4, <1>5, <1>6 DEF Environment

(* Every step keeps TypeInv.                                                *)
LEMMA TypeNext == TypeInv /\ [Next]_vars => TypeInv'
<1> SUFFICES ASSUME TypeInv, [Next]_vars PROVE TypeInv'
  OBVIOUS
<1>1. CASE UNCHANGED vars
  BY <1>1 DEF vars, TypeInv, TypeOK, WorkerOK
<1> QED BY <1>1, TypeBegin, TypeVultrCall, TypeKubeCall, TypeOthers
        DEF Next, WorkerStep

(* TypeInv is an invariant of the controller.                               *)
LEMMA TypeInvariance == Spec => []TypeInv
  BY TypeInit, TypeNext, PTL DEF Spec

(* Every variable of the controller model stays in its type, whatever fails:*)
(* in particular every call the code makes has a machine and an instance ID *)
(* to make it with.                                                         *)
THEOREM TypeCorrect == Spec => []TypeOK
<1>1. TypeInv => TypeOK
  BY DEF TypeInv
<1> QED BY <1>1, TypeInvariance, PTL

-----------------------------------------------------------------------------
(* At most one instance, and none left behind *)

(* Nothing appears in the listing that was not there.                       *)
NoNewInstance == \A m \in Machines : Own(m)' \subseteq Own(m)

(* LifeInv holds when the manager starts.                                   *)
LEMMA LifeInit == Init => LifeInv
<1> SUFFICES ASSUME Init PROVE LifeInv
  OBVIOUS
<1>1. w.pc = "idle"
  BY IdleType DEF Init
<1>2. \A m \in Machines : obj[m].phase = "live" /\ cache[m].phase = "live"
  BY DEF Init, NewObject
<1>3. \A m \in Machines : Own(m) = {}
  BY DEF Init, Own, Listed, FreeInstance
<1> QED BY <1>1, <1>2, <1>3
        DEF LifeInv, CacheInv, PathInv, AtMostOneInstance,
            FinalizedLeavesNoInstance, NormalCalls, DeleteCalls, CloseCalls

(* A step that does not touch the VMs lists nothing new.                    *)
LEMMA InstUnchanged ==
    ASSUME inst' = inst
    PROVE  NoNewInstance
  BY DEF NoNewInstance, Own, Listed

(* A VM that is destroyed or forgotten, or whose status changes, is not new.*)
LEMMA InstChanged ==
    ASSUME TypeOK, NEW i \in InstanceIDs, NEW new,
           inst' = [inst EXCEPT ![i] = new],
           new.maker = inst[i].maker,
           new.place \in {"running", "destroyed"} => inst[i].place \in {"running", "destroyed"}
    PROVE  NoNewInstance
  BY DEF NoNewInstance, Own, Listed, TypeOK

(* Destroying a VM lists nothing new.                                       *)
LEMMA DestroyedChanged ==
    ASSUME TypeOK, NEW i \in InstanceIDs, inst[i].place = "running", Destroyed(i)
    PROVE  NoNewInstance
<1> DEFINE new == [inst[i] EXCEPT !.place = "destroyed"]
<1>1. inst' = [inst EXCEPT ![i] = new]
  BY DEF Destroyed, TypeOK
<1>2. inst[i] \in Instance
  BY DEF TypeOK
<1>3. new.maker = inst[i].maker /\ new.place = "destroyed"
  BY <1>2 DEF Instance
<1> HIDE DEF new
<1> QED BY <1>1, <1>3, InstChanged

(* Steps in which neither the object, its cached copy nor the worker moves. *)
LEMMA LifeQuiet ==
    ASSUME TypeInv, LifeInv, obj' = obj, cache' = cache, w' = w, NoNewInstance
    PROVE  LifeInv'
<1>1. AtMostOneInstance' /\ FinalizedLeavesNoInstance' /\ CacheInv'
  BY DEF LifeInv, AtMostOneInstance, FinalizedLeavesNoInstance, CacheInv,
     NoNewInstance
<1>2. w.pc # "idle" => w.m \in Machines
  BY DEF TypeInv, WorkerOK
<1>3. PathInv'
  BY <1>2 DEF LifeInv, PathInv, NoNewInstance, NormalCalls, DeleteCalls,
     CloseCalls, Exists
<1> QED BY <1>1, <1>3 DEF LifeInv

(* A step of the worker within one reconcile that changes no object and     *)
(* makes no VM.                                                             *)
LEMMA LifeCall ==
    ASSUME TypeInv, LifeInv, obj' = obj, cache' = cache, NoNewInstance,
           w.pc # "idle", w'.m = w.m, w'.base = w.base,
           \/ /\ w.pc \in NormalCalls
              /\ w'.mem.finalizer = w.mem.finalizer
              /\ w'.pc \in NormalCalls \cup Closing
              /\ w'.pc = "create" => Own(w.m) = {}
           \/ /\ w.pc \in DeleteCalls
              /\ w'.mem.finalizer = w.mem.finalizer
              /\ w'.pc \in DeleteCalls \cup Closing
           \/ /\ w.pc \in DeleteCalls /\ Own(w.m) = {}
              /\ w'.pc \in Closing
    PROVE  LifeInv'
<1>1. AtMostOneInstance' /\ FinalizedLeavesNoInstance' /\ CacheInv'
  BY DEF LifeInv, AtMostOneInstance, FinalizedLeavesNoInstance, CacheInv,
     NoNewInstance
<1>2. w.m \in Machines
  BY DEF TypeInv, WorkerOK
<1>3. Own(w.m) = {} => Own(w.m)' = {}
  <2>1. \A m \in Machines : m = w.m => Own(w.m)' = Own(m)'
    BY DEF Own, Listed
  <2> QED BY <1>2, <2>1 DEF NoNewInstance
<1>4. PathInv'
  BY <1>2, <1>3 DEF LifeInv, PathInv, NormalCalls, DeleteCalls, CloseCalls,
     Closing, Exists
<1> QED BY <1>1, <1>4 DEF LifeInv

(* The start of a reconcile keeps LifeInv.                                  *)
LEMMA LifeBegin ==
    ASSUME TypeInv, LifeInv, NEW m \in Machines, Begin(m)
    PROVE  LifeInv'
<1>0. obj' = obj /\ cache' = cache /\ NoNewInstance
  <2>1. obj' = obj /\ cache' = cache /\ inst' = inst
    BY DEF Begin, Skip, BeginPaused, BeginNormal, BeginDelete, Dequeue, vultr
  <2> QED BY <2>1, InstUnchanged
<1>1. TypeOK /\ cache[m] \in Object
  BY DEF TypeInv, TypeOK
<1> DEFINE r == Run(m)
<1>2. r \in Worker /\ r.m = m /\ r.base = cache[m] /\ r.mem = cache[m]
  BY <1>1, RunFacts
<1> HIDE DEF r
<1>3. ASSUME w'.m = m, w'.base = cache[m], Exists(cache[m]),
             \/ w'.pc = "paused"
             \/ /\ cache[m].phase = "live" /\ w'.mem.finalizer
                /\ w'.pc \in {"get", "list"} \cup Closing
             \/ /\ cache[m].phase = "deleting" /\ w'.mem.finalizer
                /\ w'.pc \in {"delete", "delList"}
      PROVE  LifeInv'
  <2>1. AtMostOneInstance' /\ FinalizedLeavesNoInstance' /\ CacheInv'
    BY <1>0 DEF LifeInv, AtMostOneInstance, FinalizedLeavesNoInstance, CacheInv,
       NoNewInstance
  <2>2. PathInv'
    BY <1>0, <1>3 DEF LifeInv, CacheInv, PathInv, NormalCalls, DeleteCalls,
       CloseCalls, Closing, Exists
  <2> QED BY <2>1, <2>2 DEF LifeInv
<1>4. CASE Skip(m)
  BY <1>0, <1>4, LifeQuiet DEF Skip
<1>5. CASE BeginPaused(m)
  <2>1. w' = [r EXCEPT !.pc = "paused", !.mem.pausedCond = PausedStatus]
    BY <1>5 DEF BeginPaused, r
  <2>2. w'.m = m /\ w'.base = cache[m] /\ w'.pc = "paused"
    BY <1>2, <2>1 DEF Worker
  <2> QED BY <1>3, <1>5, <2>2 DEF BeginPaused, Linked
<1>6. CASE BeginNormal(m)
  <2> DEFINE k == [r EXCEPT !.mem.finalizer = TRUE]
  <2>1. k \in Worker /\ k.m = m /\ k.base = cache[m] /\ k.mem.finalizer
    BY <1>2 DEF Worker, Object
  <2>2. cache[m].phase = "live"
    BY <1>6 DEF BeginNormal
  <2> HIDE DEF k
  <2>3. \/ \E reason \in Reasons : w' = Returned(SetReadyCondition(k, reason), FALSE)
        \/ w' = [k EXCEPT !.pc = "get"]
        \/ w' = [k EXCEPT !.pc = "list"]
    BY <1>6 DEF BeginNormal, k, r, Reasons
  <2>4. CASE \E reason \in Reasons : w' = Returned(SetReadyCondition(k, reason), FALSE)
    <3>1. PICK reason \in Reasons : w' = Returned(SetReadyCondition(k, reason), FALSE)
      BY <2>4
    <3>2. /\ w'.pc \in Closing /\ w'.m = m /\ w'.base = cache[m]
          /\ w'.mem.finalizer = k.mem.finalizer
      BY <2>1, <3>1, ReturnedReasonFacts DEF Same
    <3> QED BY <1>3, <2>1, <2>2, <3>2 DEF Exists
  <2>5. CASE w' = [k EXCEPT !.pc = "get"] \/ w' = [k EXCEPT !.pc = "list"]
    <3>1. /\ w'.pc \in {"get", "list"} /\ w'.m = m /\ w'.base = cache[m]
          /\ w'.mem.finalizer
      BY <2>1, <2>5 DEF Worker
    <3> QED BY <1>3, <2>2, <3>1 DEF Exists
  <2> QED BY <2>3, <2>4, <2>5
<1>7. CASE BeginDelete(m)
  <2> DEFINE k == SetReadyCondition(r, "Deleting")
  <2>1. /\ k \in Worker /\ k.m = m /\ k.base = cache[m]
        /\ k.mem.finalizer = cache[m].finalizer
    <3>1. "Deleting" \in Reasons
      BY DEF Reasons
    <3>2. k \in Worker /\ Same(r, k)
      BY <1>2, <3>1, SetReadyConditionFacts
    <3> QED BY <1>2, <3>2 DEF Same
  <2>2. cache[m].phase = "deleting" /\ cache[m].finalizer
    BY <1>7 DEF BeginDelete, LifeInv, CacheInv
  <2> HIDE DEF k
  <2>3. w' = [k EXCEPT !.pc = "delete"] \/ w' = [k EXCEPT !.pc = "delList"]
    BY <1>7 DEF BeginDelete, k, r
  <2>4. /\ w'.pc \in {"delete", "delList"} /\ w'.m = m /\ w'.base = cache[m]
        /\ w'.mem.finalizer
    BY <2>1, <2>2, <2>3 DEF Worker
  <2> QED BY <1>3, <2>2, <2>4 DEF Exists
<1> QED BY <1>4, <1>5, <1>6, <1>7 DEF Begin

(* The listing shows every VM that was made for the machine: by its tags,   *)
(* or by its label and hostname.                                            *)
LEMMA OwnMatches ==
    ASSUME NEW m \in Machines
    PROVE  Own(m) \subseteq Matches(m)
  BY DEF Own, Matches, OwnedByMachine

(* Every call to Vultr keeps LifeInv.                                       *)
LEMMA LifeVultrCall ==
    ASSUME TypeInv, LifeInv, VultrCall
    PROVE  LifeInv'
<1>0. obj' = obj /\ cache' = cache
  BY DEF VultrCall, GetInstance, FindInstance, CreateInstance, GetLoadBalancer,
     UpdateLoadBalancer, DeleteInstance, FindRemaining, DeleteRemaining, kube
<1>1. /\ TypeOK /\ w \in Worker
      /\ w.pc # "idle" => w.m \in Machines
      /\ \A i \in InstanceIDs : inst[i].status \in Statuses
  BY DEF TypeInv, TypeOK, WorkerOK, Instance
<1>2. CASE GetInstance
  <2>1. w.pc = "get" /\ w.mem.providerID \in InstanceIDs /\ NoNewInstance
    BY <1>2, InstUnchanged DEF GetInstance, Call, TypeInv, WorkerOK, vultr
  <2>2. \/ w' = Found(w, w.mem.providerID, inst[w.mem.providerID].status)
        \/ w' = Returned(SetReadyCondition(w, "InstanceNotFound"), TRUE)
        \/ w' = Returned(w, TRUE)
    BY <1>2 DEF GetInstance
  <2>3. /\ w'.m = w.m /\ w'.base = w.base /\ w'.mem.finalizer = w.mem.finalizer
        /\ w'.pc \in Closing \cup {"lbGet"}
    <3>1. CASE w' = Found(w, w.mem.providerID, inst[w.mem.providerID].status)
      BY <1>1, <2>1, <3>1, FoundFacts
    <3>2. CASE w' = Returned(SetReadyCondition(w, "InstanceNotFound"), TRUE)
      BY <1>1, <3>2, ReturnedReasonFacts DEF Same, Reasons
    <3>3. CASE w' = Returned(w, TRUE)
      BY <1>1, <3>3, ReturnedFacts DEF Same
    <3> QED BY <2>2, <3>1, <3>2, <3>3
  <2> QED BY <1>0, <2>1, <2>3, LifeCall DEF NormalCalls, Closing, CloseCalls
<1>3. CASE FindInstance
  <2>1. w.pc = "list" /\ w.m \in Machines /\ NoNewInstance
    BY <1>1, <1>3, InstUnchanged DEF FindInstance, Call, vultr
  <2>2. CASE Matches(w.m) = {} /\ w' = [w EXCEPT !.pc = "create"]
    <3>1. /\ w'.m = w.m /\ w'.base = w.base /\ w'.mem = w.mem
          /\ w'.pc = "create"
      BY <1>1, <2>2 DEF Worker
    <3>2. Own(w.m) = {}
      BY <2>1, <2>2, OwnMatches
    <3> QED BY <1>0, <2>1, <3>1, <3>2, LifeCall DEF NormalCalls
  <2>3. CASE \E i \in InstanceIDs : w' = Found(w, i, inst[i].status)
    <3>1. PICK i \in InstanceIDs : w' = Found(w, i, inst[i].status)
      BY <2>3
    <3>2. /\ w'.m = w.m /\ w'.base = w.base /\ w'.mem.finalizer = w.mem.finalizer
          /\ w'.pc \in Closing \cup {"lbGet", "persist"}
      BY <1>1, <3>1, FoundFacts
    <3> QED BY <1>0, <2>1, <3>2, LifeCall DEF NormalCalls, Closing, CloseCalls
  <2>4. CASE w' = Returned(w, TRUE)
    <3>1. /\ w'.m = w.m /\ w'.base = w.base /\ w'.mem.finalizer = w.mem.finalizer
          /\ w'.pc \in Closing
      BY <1>1, <2>4, ReturnedFacts DEF Same
    <3> QED BY <1>0, <2>1, <3>1, LifeCall DEF NormalCalls, Closing, CloseCalls
  <2> QED BY <1>3, <2>2, <2>3, <2>4 DEF FindInstance
<1>4. CASE CreateInstance
  <2>1. w.pc = "create" /\ w.m \in Machines /\ w.mem.finalizer
        /\ w.base.phase = "live" /\ Own(w.m) = {}
    BY <1>1, <1>4 DEF CreateInstance, Call, LifeInv, PathInv, NormalCalls
  <2>2. /\ w'.m = w.m /\ w'.base = w.base /\ w'.mem.finalizer = w.mem.finalizer
        /\ w'.pc \in Closing \cup {"lbGet", "persist"}
    <3>1. (\E i \in InstanceIDs : w' = Found(w, i, "pending")) \/ w' = CreateFailed(w)
      BY <1>4 DEF CreateInstance
    <3>2. CASE \E i \in InstanceIDs : w' = Found(w, i, "pending")
      BY <1>1, <3>2, FoundFacts DEF Statuses
    <3>3. CASE w' = CreateFailed(w)
      BY <1>1, <3>3, CreateFailedFacts DEF Same
    <3> QED BY <3>1, <3>2, <3>3
  <2>3. CASE inst' = inst
    BY <1>0, <2>1, <2>2, <2>3, InstUnchanged, LifeCall
    DEF NormalCalls, Closing, CloseCalls
  <2>4. CASE \E i \in InstanceIDs, t \in BOOLEAN :
                inst[i].place = "free" /\ Created(i, w.m, t)
    <3>1. PICK i \in InstanceIDs, t \in BOOLEAN :
                inst[i].place = "free" /\ Created(i, w.m, t)
      BY <2>4
    <3>2. /\ \A m \in Machines : m # w.m => Own(m)' \subseteq Own(m)
          /\ \A m \in Machines : m = w.m => Own(m)' \subseteq {i}
      BY <1>1, <2>1, <3>1 DEF Created, Own, Listed, TypeOK
    <3>3. AtMostOneInstance'
      BY <3>2 DEF LifeInv, AtMostOneInstance
    <3>4. obj[w.m].phase # "finalized"
      BY <2>1 DEF LifeInv, PathInv
    <3>5. FinalizedLeavesNoInstance'
      BY <1>0, <3>2, <3>4 DEF LifeInv, FinalizedLeavesNoInstance
    <3>6. CacheInv'
      BY <1>0 DEF LifeInv, CacheInv
    <3>7. PathInv'
      BY <1>0, <2>1, <2>2 DEF LifeInv, PathInv, NormalCalls, DeleteCalls,
         CloseCalls, Closing, Exists
    <3> QED BY <3>3, <3>5, <3>6, <3>7 DEF LifeInv
  <2> QED BY <1>4, <2>3, <2>4 DEF CreateInstance
<1>5. CASE GetLoadBalancer
  <2>1. w.pc = "lbGet" /\ w.m \in Machines /\ NoNewInstance
    BY <1>1, <1>5, InstUnchanged DEF GetLoadBalancer, Call, vultr
  <2>2. /\ w'.m = w.m /\ w'.base = w.base /\ w'.mem.finalizer = w.mem.finalizer
        /\ w'.pc \in Closing \cup {"lbUpdate"}
    <3>1. CASE w' = WaitForLoadBalancer(w)
      BY <1>1, <3>1, WaitForLoadBalancerFacts DEF Same
    <3>2. CASE w' = Reported(w)
      BY <1>1, <3>2, ReportedFacts DEF Same
    <3>3. CASE w' = [w EXCEPT !.pc = "lbUpdate", !.seen = lb.members]
      BY <1>1, <3>3 DEF Worker
    <3>4. CASE w' = Returned(w, TRUE)
      BY <1>1, <3>4, ReturnedFacts DEF Same
    <3> QED BY <1>5, <3>1, <3>2, <3>3, <3>4 DEF GetLoadBalancer
  <2> QED BY <1>0, <2>1, <2>2, LifeCall DEF NormalCalls, Closing, CloseCalls
<1>6. CASE UpdateLoadBalancer
  <2>1. w.pc = "lbUpdate" /\ w.m \in Machines /\ NoNewInstance
    BY <1>1, <1>6, InstUnchanged DEF UpdateLoadBalancer, Call
  <2>2. /\ w'.m = w.m /\ w'.base = w.base /\ w'.mem.finalizer = w.mem.finalizer
        /\ w'.pc \in Closing
    <3>1. CASE w' = WaitForLoadBalancer(w)
      BY <1>1, <3>1, WaitForLoadBalancerFacts DEF Same
    <3>2. CASE w' = Reported(w)
      BY <1>1, <3>2, ReportedFacts DEF Same
    <3>3. CASE w' = Returned(w, TRUE)
      BY <1>1, <3>3, ReturnedFacts DEF Same
    <3> QED BY <1>6, <3>1, <3>2, <3>3 DEF UpdateLoadBalancer
  <2> QED BY <1>0, <2>1, <2>2, LifeCall DEF NormalCalls, Closing, CloseCalls
<1>7. CASE DeleteInstance
  <2>1. w.pc = "delete" /\ w.m \in Machines /\ w.mem.providerID \in InstanceIDs
    BY <1>1, <1>7 DEF DeleteInstance, Call, TypeInv, WorkerOK
  <2>2. NoNewInstance
    BY <1>1, <1>7, <2>1, InstUnchanged, DestroyedChanged DEF DeleteInstance
  <2>3. /\ w'.m = w.m /\ w'.base = w.base /\ w'.mem.finalizer = w.mem.finalizer
        /\ w'.pc \in Closing \cup {"delList"}
    <3>1. CASE w' = [w EXCEPT !.pc = "delList"]
      BY <1>1, <3>1 DEF Worker
    <3>2. CASE w' = Returned(w, TRUE)
      BY <1>1, <3>2, ReturnedFacts DEF Same
    <3> QED BY <1>7, <3>1, <3>2 DEF DeleteInstance
  <2> QED BY <1>0, <2>1, <2>2, <2>3, LifeCall DEF DeleteCalls, Closing, CloseCalls
<1>8. CASE FindRemaining
  <2>1. w.pc = "delList" /\ w.m \in Machines /\ NoNewInstance
    BY <1>1, <1>8, InstUnchanged DEF FindRemaining, Call, vultr
  <2>2. CASE Matches(w.m) = {} /\ w' = Returned(RemoveFinalizer(w), FALSE)
    <3>1. /\ RemoveFinalizer(w) \in Worker /\ RemoveFinalizer(w).m = w.m
          /\ RemoveFinalizer(w).base = w.base
      BY <1>1 DEF RemoveFinalizer, Worker, Object
    <3>2. w'.m = w.m /\ w'.base = w.base /\ w'.pc \in Closing
      BY <2>2, <3>1, ReturnedFacts DEF Same
    <3>3. Own(w.m) = {}
      BY <2>1, <2>2, OwnMatches
    <3> QED BY <1>0, <2>1, <3>2, <3>3, LifeCall DEF DeleteCalls
  <2>3. CASE \/ w' = Returned(w, TRUE)
             \/ \E i \in InstanceIDs : w' = [w EXCEPT !.vm = i, !.pc = "delRemaining"]
    <3>1. /\ w'.m = w.m /\ w'.base = w.base /\ w'.mem.finalizer = w.mem.finalizer
          /\ w'.pc \in Closing \cup {"delRemaining"}
      <4>1. CASE w' = Returned(w, TRUE)
        BY <1>1, <4>1, ReturnedFacts DEF Same
      <4>2. CASE \E i \in InstanceIDs : w' = [w EXCEPT !.vm = i, !.pc = "delRemaining"]
        BY <1>1, <4>2 DEF Worker
      <4> QED BY <2>3, <4>1, <4>2
    <3> QED BY <1>0, <2>1, <3>1, LifeCall DEF DeleteCalls, Closing, CloseCalls
  <2> QED BY <1>8, <2>2, <2>3 DEF FindRemaining
<1>9. CASE DeleteRemaining
  <2>1. w.pc = "delRemaining" /\ w.m \in Machines /\ w.vm \in InstanceIDs
    BY <1>1, <1>9 DEF DeleteRemaining, Call, TypeInv, WorkerOK
  <2>2. NoNewInstance
    BY <1>1, <1>9, <2>1, InstUnchanged, DestroyedChanged DEF DeleteRemaining
  <2>3. /\ w'.m = w.m /\ w'.base = w.base /\ w'.mem.finalizer = w.mem.finalizer
        /\ w'.pc \in Closing
    BY <1>1, <1>9, ReturnedFacts DEF DeleteRemaining, Same
  <2> QED BY <1>0, <2>1, <2>2, <2>3, LifeCall DEF DeleteCalls, Closing, CloseCalls
<1> QED BY <1>2, <1>3, <1>4, <1>5, <1>6, <1>7, <1>8, <1>9 DEF VultrCall

(* Every patch keeps LifeInv.                                               *)
LEMMA LifeKubeCall ==
    ASSUME TypeInv, LifeInv, KubeCall
    PROVE  LifeInv'
<1>0. cache' = cache /\ NoNewInstance
  <2>1. cache' = cache /\ inst' = inst
    BY DEF KubeCall, PatchPaused, PatchObject, PatchConditions, PatchMetadata,
       PatchStatus, vultr
  <2> QED BY <2>1, InstUnchanged
<1>1. /\ w \in Worker /\ w.pc # "idle" /\ w.m \in Machines
      /\ obj \in [Machines -> Object] /\ obj[w.m] \in Object
  BY DEF TypeInv, TypeOK, WorkerOK, KubeCall, PatchPaused, PatchObject,
     PatchConditions, PatchMetadata, PatchStatus, Call
(* A patch that touches neither the phase nor the finalizer.                *)
<1>2. ASSUME \A m \in Machines : /\ obj'[m].phase = obj[m].phase
                                 /\ obj'[m].finalizer = obj[m].finalizer,
             w'.m = w.m, w'.base = w.base, w'.mem.finalizer = w.mem.finalizer,
             \/ w'.pc = "done"
             \/ w'.pc \in Closing /\ w.pc \in CloseCalls
             \/ w'.pc \in Closing \cup {"lbGet"} /\ w.pc = "persist"
      PROVE  LifeInv'
  <2>1. AtMostOneInstance' /\ FinalizedLeavesNoInstance'
    BY <1>0, <1>2 DEF LifeInv, AtMostOneInstance, FinalizedLeavesNoInstance,
       NoNewInstance
  <2>2. CacheInv'
    BY <1>0, <1>2 DEF LifeInv, CacheInv
  <2>3. Own(w.m) = {} => Own(w.m)' = {}
    <3>1. \A m \in Machines : m = w.m => Own(w.m)' = Own(m)'
      BY <1>2 DEF Own, Listed
    <3> QED BY <1>0, <1>1, <3>1 DEF NoNewInstance
  <2>4. PathInv'
    BY <1>0, <1>1, <1>2, <2>3 DEF LifeInv, PathInv, NormalCalls, DeleteCalls,
       CloseCalls, Closing, Exists
  <2> QED BY <2>1, <2>2, <2>4 DEF LifeInv
<1>3. ASSUME NEW pc, NEW r, w' = [w EXCEPT !.pc = pc, !.retry = r]
      PROVE  w'.pc = pc /\ w'.m = w.m /\ w'.base = w.base /\ w'.mem = w.mem
  BY <1>1, <1>3 DEF Worker
<1>4. AfterConditions(w) \in Closing /\ AfterMetadata(w) \in {"status", "done"}
  BY DEF AfterConditions, AfterMetadata, Closing, CloseCalls
<1>5. CASE PatchPaused
  <2>1. obj' = obj \/ obj' = [obj EXCEPT ![w.m].pausedCond = w.mem.pausedCond]
    BY <1>5 DEF PatchPaused
  <2>2. \A m \in Machines : /\ obj'[m].phase = obj[m].phase
                            /\ obj'[m].finalizer = obj[m].finalizer
    <3>1. CASE obj' = obj
      BY <3>1
    <3>2. CASE obj' = [obj EXCEPT ![w.m].pausedCond = w.mem.pausedCond]
      BY <1>1, <3>2, PausedPatched
    <3> QED BY <2>1, <3>1, <3>2
  <2>3. \/ w' = [w EXCEPT !.pc = "done"]
        \/ w' = [w EXCEPT !.pc = "done", !.retry = TRUE]
    BY <1>5 DEF PatchPaused
  <2>4. w'.pc = "done" /\ w'.m = w.m /\ w'.base = w.base /\ w'.mem = w.mem
    BY <1>1, <2>3 DEF Worker
  <2> QED BY <1>2, <2>2, <2>4
<1>6. CASE PatchConditions
  <2>1. obj' = obj \/ obj' = [obj EXCEPT ![w.m].reason = w.mem.reason]
    BY <1>6 DEF PatchConditions
  <2>2. \A m \in Machines : /\ obj'[m].phase = obj[m].phase
                            /\ obj'[m].finalizer = obj[m].finalizer
    <3>1. CASE obj' = obj
      BY <3>1
    <3>2. CASE obj' = [obj EXCEPT ![w.m].reason = w.mem.reason]
      BY <1>1, <3>2, ReasonPatched
    <3> QED BY <2>1, <3>1, <3>2
  <2>3. w.pc = "conditions" /\ \E r : w' = [w EXCEPT !.pc = AfterConditions(w), !.retry = r]
    BY <1>6 DEF PatchConditions, Call
  <2>4. w'.pc \in Closing /\ w'.m = w.m /\ w'.base = w.base /\ w'.mem = w.mem
    BY <1>3, <1>4, <2>3
  <2> QED BY <1>2, <2>2, <2>3, <2>4 DEF CloseCalls
<1>7. CASE PatchStatus
  <2>1. obj' = obj \/ obj' = [obj EXCEPT ![w.m].provisioned = w.mem.provisioned]
    BY <1>7 DEF PatchStatus
  <2>2. \A m \in Machines : /\ obj'[m].phase = obj[m].phase
                            /\ obj'[m].finalizer = obj[m].finalizer
    <3>1. CASE obj' = obj
      BY <3>1
    <3>2. CASE obj' = [obj EXCEPT ![w.m].provisioned = w.mem.provisioned]
      BY <1>1, <3>2, StatusPatched
    <3> QED BY <2>1, <3>1, <3>2
  <2>3. \E r : w' = [w EXCEPT !.pc = "done", !.retry = r]
    BY <1>7 DEF PatchStatus
  <2> QED BY <1>2, <1>3, <2>2, <2>3
(* The patch of metadata and spec: it lets the object go only when the      *)
(* reconcile has taken the finalizer off, and then nothing is listed.       *)
<1>8. ASSUME w.pc = "persist" \/ w.pc = "metadata",
             Exists(obj[w.m]),
             obj' = [obj EXCEPT ![w.m] = MetadataPatched(@, w)]
      PROVE  LET o == obj[w.m]  p == MetadataPatched(o, w)
             IN  /\ p.phase = o.phase \/ p.phase = "finalized"
                 /\ p.phase = "deleting" => p.finalizer
                 /\ p.phase = "finalized" =>
                        ~w.mem.finalizer /\ w.pc = "metadata" /\ o.phase = "deleting"
  <2>1. obj[w.m].phase = "deleting" => obj[w.m].finalizer
    BY <1>1 DEF LifeInv, CacheInv
  <2>2. w.mem.finalizer \/ w.pc = "metadata"
    BY <1>8 DEF LifeInv, PathInv, NormalCalls
  <2>3. w.mem.finalizer \in BOOLEAN /\ w.base.finalizer \in BOOLEAN
    BY <1>1 DEF Worker, Object
  <2> QED BY <1>1, <1>8, <2>1, <2>2, <2>3 DEF MetadataPatched, Merged, Object, Exists
<1>9. ASSUME w.pc = "persist" \/ w.pc = "metadata",
             Exists(obj[w.m]),
             obj' = [obj EXCEPT ![w.m] = MetadataPatched(@, w)],
             w'.m = w.m, w'.base = w.base, w'.mem.finalizer = w.mem.finalizer,
             \/ w'.pc \in {"status", "done"} /\ w.pc = "metadata"
             \/ w'.pc \in Closing \cup {"lbGet"} /\ w.pc = "persist"
      PROVE  LifeInv'
  <2> DEFINE p == MetadataPatched(obj[w.m], w)
  <2>1. /\ obj'[w.m] = p
        /\ \A m \in Machines : m # w.m => obj'[m] = obj[m]
    BY <1>1, <1>9
  <2>2. /\ p.phase = obj[w.m].phase \/ p.phase = "finalized"
        /\ p.phase = "deleting" => p.finalizer
        /\ p.phase = "finalized" => ~w.mem.finalizer /\ w.pc = "metadata"
                                    /\ obj[w.m].phase = "deleting"
    BY <1>8, <1>9
  <2> HIDE DEF p
  <2>3. p.phase = "finalized" => w.base.phase = "deleting" /\ Own(w.m) = {}
    BY <2>2 DEF LifeInv, PathInv, CloseCalls
  <2>4. Own(w.m) = {} => Own(w.m)' = {}
    <3>1. \A m \in Machines : m = w.m => Own(w.m)' = Own(m)'
      BY <1>9 DEF Own, Listed
    <3> QED BY <1>0, <1>1, <3>1 DEF NoNewInstance
  <2>5. AtMostOneInstance'
    BY <1>0 DEF LifeInv, AtMostOneInstance, NoNewInstance
  <2>6. FinalizedLeavesNoInstance'
    BY <1>0, <1>1, <2>1, <2>2, <2>3
    DEF LifeInv, FinalizedLeavesNoInstance, NoNewInstance
  <2>7. CacheInv'
    <3>1. p.phase = "finalized" => cache[w.m].phase # "live"
      BY <1>1, <2>3 DEF LifeInv, PathInv
    <3>2. cache[w.m].phase # "live" => p.phase # "live"
      BY <1>1, <2>2 DEF LifeInv, CacheInv
    <3> QED BY <1>0, <1>1, <2>1, <2>2, <3>1, <3>2 DEF LifeInv, CacheInv
  <2>8. PathInv'
    <3>1. w.base.phase = "live" => obj'[w.m].phase # "finalized"
      BY <1>1, <2>1, <2>3
    <3> QED BY <1>0, <1>1, <1>9, <2>4, <3>1 DEF LifeInv, PathInv, NormalCalls,
            DeleteCalls, CloseCalls, Closing, Exists
  <2> QED BY <2>5, <2>6, <2>7, <2>8 DEF LifeInv
<1>10. CASE PatchObject
  <2>1. w.pc = "persist"
    BY <1>10 DEF PatchObject, Call
  <2>2. CASE /\ Exists(obj[w.m]) /\ w' = Proceed(w)
             /\ obj' = [obj EXCEPT ![w.m] = MetadataPatched(@, w)]
    <3>1. /\ w'.m = w.m /\ w'.base = w.base /\ w'.mem.finalizer = w.mem.finalizer
          /\ w'.pc \in Closing \cup {"lbGet"}
      BY <1>1, <2>2, ProceedFacts DEF Same
    <3> QED BY <1>9, <2>1, <2>2, <3>1
  <2>3. CASE obj' = obj /\ w' = Returned(w, TRUE)
    <3>1. /\ w'.m = w.m /\ w'.base = w.base /\ w'.mem.finalizer = w.mem.finalizer
          /\ w'.pc \in Closing
      BY <1>1, <2>3, ReturnedFacts DEF Same
    <3> QED BY <1>2, <2>1, <2>3, <3>1
  <2> QED BY <1>10, <2>2, <2>3 DEF PatchObject
<1>11. CASE PatchMetadata
  <2>1. w.pc = "metadata" /\ \E r : w' = [w EXCEPT !.pc = AfterMetadata(w), !.retry = r]
    BY <1>11 DEF PatchMetadata, Call
  <2>2. /\ w'.pc \in {"status", "done"} /\ w'.m = w.m /\ w'.base = w.base
        /\ w'.mem = w.mem
    BY <1>3, <1>4, <2>1
  <2>3. CASE /\ Exists(obj[w.m])
             /\ obj' = [obj EXCEPT ![w.m] = MetadataPatched(@, w)]
    BY <1>9, <2>1, <2>2, <2>3
  <2>4. CASE obj' = obj
    BY <1>2, <2>1, <2>2, <2>4 DEF Closing, CloseCalls
  <2> QED BY <1>11, <2>3, <2>4 DEF PatchMetadata
<1> QED BY <1>5, <1>6, <1>7, <1>10, <1>11 DEF KubeCall

(* A return, a crash and the environment keep LifeInv.                      *)
LEMMA LifeOthers ==
    ASSUME TypeInv, LifeInv, Finish \/ Crash \/ Environment
    PROVE  LifeInv'
<1>1. ASSUME inst' = inst, obj' = obj, w'.pc = "idle",
             \A m \in Machines : cache'[m] = cache[m] \/ cache'[m] = obj[m]
      PROVE  LifeInv'
  <2>1. AtMostOneInstance' /\ FinalizedLeavesNoInstance'
    BY <1>1, InstUnchanged DEF LifeInv, AtMostOneInstance,
       FinalizedLeavesNoInstance, NoNewInstance
  <2>2. CacheInv'
    BY <1>1 DEF LifeInv, CacheInv
  <2>3. PathInv'
    BY <1>1 DEF PathInv, NormalCalls, DeleteCalls, CloseCalls
  <2> QED BY <2>1, <2>2, <2>3 DEF LifeInv
<1>2. CASE Finish
  BY <1>1, <1>2, IdleType DEF Finish, vultr
<1>3. CASE Crash
  BY <1>1, <1>3, IdleType DEF Crash, vultr
<1>4. ASSUME NEW m \in Machines, CacheSync(m)
      PROVE  LifeInv'
  <2>1. /\ obj' = obj /\ inst' = inst /\ w' = w /\ cache' = [cache EXCEPT ![m] = obj[m]]
        /\ \A n \in Machines : cache'[n] = IF n = m THEN obj[n] ELSE cache[n]
    BY <1>4 DEF CacheSync, vultr, TypeInv, TypeOK
  <2>2. AtMostOneInstance' /\ FinalizedLeavesNoInstance'
    BY <2>1, InstUnchanged DEF LifeInv, AtMostOneInstance,
       FinalizedLeavesNoInstance, NoNewInstance
  <2>3. CacheInv'
    BY <2>1 DEF LifeInv, CacheInv
  <2>4. w.pc # "idle" => w.m \in Machines
    BY DEF TypeInv, WorkerOK
  <2>5. w.pc # "idle" /\ cache[w.m].phase # "live" => cache'[w.m].phase # "live"
    BY <2>1, <2>4 DEF LifeInv, CacheInv
  <2>6. PathInv'
    BY <2>1, <2>4, <2>5 DEF LifeInv, PathInv, Own, Listed, Exists
  <2> QED BY <2>2, <2>3, <2>6 DEF LifeInv
<1>5. ASSUME NEW m \in Machines, DeleteObject(m)
      PROVE  LifeInv'
  <2>1. /\ cache' = cache /\ inst' = inst /\ w' = w
        /\ obj[m].phase = "live"
        /\ obj' = [obj EXCEPT ![m].phase = IF obj[m].finalizer THEN "deleting" ELSE "gone"]
        /\ obj \in [Machines -> Object]
    BY <1>5 DEF DeleteObject, vultr, TypeInv, TypeOK
  <2>2. /\ \A n \in Machines : n # m => obj'[n] = obj[n]
        /\ obj'[m].phase \in {"deleting", "gone"}
        /\ obj'[m].phase = "deleting" => obj'[m].finalizer
    BY <2>1 DEF Object
  <2>3. AtMostOneInstance' /\ FinalizedLeavesNoInstance'
    BY <2>1, <2>2, InstUnchanged DEF LifeInv, AtMostOneInstance,
       FinalizedLeavesNoInstance, NoNewInstance
  <2>4. CacheInv'
    BY <2>1, <2>2 DEF LifeInv, CacheInv
  <2>5. w.pc # "idle" => w.m \in Machines
    BY DEF TypeInv, WorkerOK
  <2>6. PathInv'
    BY <2>1, <2>2, <2>5 DEF LifeInv, PathInv, Own, Listed, Exists
  <2> QED BY <2>3, <2>4, <2>6 DEF LifeInv
<1>6. CASE \/ \E m \in Machines : Event(m) \/ OwnerAdvances(m)
           \/ ClusterAppears \/ ClusterReady \/ ClusterLost \/ Pause \/ Unpause
           \/ LoadBalancerActive
  <2>1. obj' = obj /\ cache' = cache /\ w' = w /\ inst' = inst
    BY <1>6 DEF Event, OwnerAdvances, ClusterAppears, ClusterReady, ClusterLost,
       Pause, Unpause, InfraChanges, LoadBalancerActive, kube, vultr
  <2> QED BY <2>1, InstUnchanged, LifeQuiet
<1>7. ASSUME NEW i \in InstanceIDs,
             InstanceActive(i) \/ InstanceOdd(i) \/ InstanceLost(i) \/ ListCatchesUp(i)
      PROVE  LifeInv'
  <2>1. obj' = obj /\ cache' = cache /\ w' = w
    BY <1>7 DEF InstanceActive, InstanceOdd, InstanceLost, ListCatchesUp,
       InstanceChanges, kube
  <2>2. TypeOK /\ inst[i] \in Instance /\ inst \in [InstanceIDs -> Instance]
    BY DEF TypeInv, TypeOK
  <2>3. NoNewInstance
    BY <1>7, <2>2 DEF NoNewInstance, Own, Listed, InstanceActive, InstanceOdd,
       InstanceLost, ListCatchesUp, InstanceChanges, Instance
  <2> QED BY <2>1, <2>3, LifeQuiet
<1> QED BY <1>2, <1>3, <1>4, <1>5, <1>6, <1>7 DEF Environment

(* Every step keeps LifeInv.                                                *)
LEMMA LifeNext == TypeInv /\ LifeInv /\ [Next]_vars => LifeInv'
<1> SUFFICES ASSUME TypeInv, LifeInv, [Next]_vars PROVE LifeInv'
  OBVIOUS
<1>1. CASE UNCHANGED vars
  BY <1>1, InstUnchanged, LifeQuiet DEF vars
<1> QED BY <1>1, LifeBegin, LifeVultrCall, LifeKubeCall, LifeOthers
        DEF Next, WorkerStep

(* LifeInv is an invariant of the controller.                               *)
LEMMA LifeInvariance == Spec => []LifeInv
<1>1. Init => LifeInv
  BY LifeInit
<1>2. TypeInv /\ LifeInv /\ [Next]_vars => LifeInv'
  BY LifeNext
<1> QED BY <1>1, <1>2, TypeInvariance, PTL DEF Spec

(* However many machines, stale reads, lost answers and restarts there are, *)
(* the controller never has two VMs in the account for one machine.         *)
THEOREM NoDuplicateInstance == Spec => []AtMostOneInstance
<1>1. LifeInv => AtMostOneInstance
  BY DEF LifeInv
<1> QED BY <1>1, LifeInvariance, PTL

(* However the deletion went, an object that the finalizer has let go has   *)
(* no VM left in the account.                                               *)
THEOREM DeletionLeavesNothing == Spec => []FinalizedLeavesNoInstance
<1>1. LifeInv => FinalizedLeavesNoInstance
  BY DEF LifeInv
<1> QED BY <1>1, LifeInvariance, PTL

-----------------------------------------------------------------------------
(* Provisioned implies a provider ID *)

ProvInv == ProviderInv /\ ProvisionedHasProviderID

(* ProvInv holds when the manager starts.                                   *)
LEMMA ProvInit == Init => ProvInv
<1> SUFFICES ASSUME Init PROVE ProvInv
  OBVIOUS
<1>1. w.pc = "idle"
  BY IdleType DEF Init
<1>2. \A m \in Machines : /\ ~obj[m].provisioned /\ ~cache[m].provisioned
                          /\ obj[m].providerID = NoID /\ cache[m].providerID = NoID
  BY DEF Init, NewObject
<1> QED BY <1>1, <1>2 DEF ProvInv, ProviderInv, ProvisionedHasProviderID

(* A step of the worker within one reconcile: no object loses its provider  *)
(* ID, and what the step has still to write does not run ahead of it.       *)
LEMMA ProvCall ==
    ASSUME TypeInv, ProvInv, cache' = cache,
           \A m \in Machines : /\ obj[m].providerID # NoID => obj'[m].providerID # NoID
                               /\ obj'[m].provisioned => obj'[m].providerID # NoID,
           w.pc # "idle", w'.m = w.m, w'.base = w.base,
           w'.mem.provisioned => obj'[w.m].providerID # NoID,
           w.mem.providerID # NoID => w'.mem.providerID # NoID,
           w'.pc # "get",
           w'.pc \in {"list", "create"} => w'.mem.providerID = NoID,
           w'.pc = "persist" => w'.mem.providerID # NoID,
           w'.pc \in {"lbGet", "lbUpdate"} => obj'[w.m].providerID # NoID
    PROVE  ProvInv'
<1>1. w.m \in Machines
  BY DEF TypeInv, WorkerOK
<1> QED BY <1>1 DEF ProvInv, ProviderInv, ProvisionedHasProviderID

(* The start of a reconcile keeps ProvInv.                                  *)
LEMMA ProvBegin ==
    ASSUME TypeInv, ProvInv, NEW m \in Machines, Begin(m)
    PROVE  ProvInv'
<1>0. obj' = obj /\ cache' = cache
  BY DEF Begin, Skip, BeginPaused, BeginNormal, BeginDelete, Dequeue
<1>1. TypeOK /\ cache[m] \in Object
  BY DEF TypeInv, TypeOK
<1> DEFINE r == Run(m)
<1>2. r \in Worker /\ r.m = m /\ r.base = cache[m] /\ r.mem = cache[m]
  BY <1>1, RunFacts
<1> HIDE DEF r
<1>3. ASSUME w'.m = m, w'.base = cache[m],
             w'.mem.providerID = cache[m].providerID,
             w'.mem.provisioned = cache[m].provisioned,
             w'.pc \notin {"create", "persist", "lbGet", "lbUpdate"},
             w'.pc = "list" => cache[m].providerID = NoID
      PROVE  ProvInv'
  BY <1>0, <1>3 DEF ProvInv, ProviderInv, ProvisionedHasProviderID
<1>4. CASE Skip(m)
  BY <1>0, <1>4 DEF Skip, ProvInv, ProviderInv, ProvisionedHasProviderID
<1>5. CASE BeginPaused(m)
  <2>1. w' = [r EXCEPT !.pc = "paused", !.mem.pausedCond = PausedStatus]
    BY <1>5 DEF BeginPaused, r
  <2>2. /\ w'.m = m /\ w'.base = cache[m] /\ w'.pc = "paused"
        /\ w'.mem.providerID = cache[m].providerID
        /\ w'.mem.provisioned = cache[m].provisioned
    BY <1>1, <1>2, <2>1 DEF Worker, Object
  <2> QED BY <1>3, <2>2
<1>6. CASE BeginNormal(m)
  <2> DEFINE k == [r EXCEPT !.mem.finalizer = TRUE]
  <2>1. /\ k \in Worker /\ k.m = m /\ k.base = cache[m]
        /\ k.mem.providerID = cache[m].providerID
        /\ k.mem.provisioned = cache[m].provisioned
    BY <1>1, <1>2 DEF Worker, Object
  <2> HIDE DEF k
  <2>3. \/ \E reason \in Reasons : w' = Returned(SetReadyCondition(k, reason), FALSE)
        \/ w' = [k EXCEPT !.pc = "get"]
        \/ w' = [k EXCEPT !.pc = "list"] /\ k.mem.providerID = NoID
    BY <1>6 DEF BeginNormal, k, r, Reasons
  <2>4. CASE \E reason \in Reasons : w' = Returned(SetReadyCondition(k, reason), FALSE)
    <3>1. PICK reason \in Reasons : w' = Returned(SetReadyCondition(k, reason), FALSE)
      BY <2>4
    <3>2. /\ w'.pc \in Closing /\ w'.m = m /\ w'.base = cache[m]
          /\ w'.mem.providerID = k.mem.providerID
          /\ w'.mem.provisioned = k.mem.provisioned
      BY <2>1, <3>1, ReturnedReasonFacts DEF Same
    <3> QED BY <1>3, <2>1, <3>2 DEF Closing, CloseCalls
  <2>5. CASE w' = [k EXCEPT !.pc = "get"]
    BY <1>3, <2>1, <2>5 DEF Worker
  <2>6. CASE w' = [k EXCEPT !.pc = "list"] /\ k.mem.providerID = NoID
    BY <1>3, <2>1, <2>6 DEF Worker
  <2> QED BY <2>3, <2>4, <2>5, <2>6
<1>7. CASE BeginDelete(m)
  <2> DEFINE k == SetReadyCondition(r, "Deleting")
  <2>1. "Deleting" \in Reasons
    BY DEF Reasons
  <2>2. /\ k \in Worker /\ k.m = m /\ k.base = cache[m]
        /\ k.mem.providerID = cache[m].providerID
        /\ k.mem.provisioned = cache[m].provisioned
    BY <1>2, <2>1, SetReadyConditionFacts DEF Same
  <2> HIDE DEF k
  <2>3. w' = [k EXCEPT !.pc = "delete"] \/ w' = [k EXCEPT !.pc = "delList"]
    BY <1>7 DEF BeginDelete, k, r
  <2>4. /\ w'.m = m /\ w'.base = cache[m] /\ w'.pc \in {"delete", "delList"}
        /\ w'.mem.providerID = cache[m].providerID
        /\ w'.mem.provisioned = cache[m].provisioned
    BY <2>2, <2>3 DEF Worker
  <2> QED BY <1>3, <2>4
<1> QED BY <1>4, <1>5, <1>6, <1>7 DEF Begin

(* Every call to Vultr keeps ProvInv.                                       *)
LEMMA ProvVultrCall ==
    ASSUME TypeInv, ProvInv, VultrCall
    PROVE  ProvInv'
<1>0. obj' = obj /\ cache' = cache
  BY DEF VultrCall, GetInstance, FindInstance, CreateInstance, GetLoadBalancer,
     UpdateLoadBalancer, DeleteInstance, FindRemaining, DeleteRemaining, kube
<1>1. /\ TypeOK /\ w \in Worker
      /\ w.pc # "idle" => w.m \in Machines
      /\ \A i \in InstanceIDs : inst[i].status \in Statuses /\ i # NoID
  BY ConstantsAssumption DEF TypeInv, TypeOK, WorkerOK, Instance
<1>2. \A m \in Machines : obj'[m].provisioned => obj'[m].providerID # NoID
  BY <1>0 DEF ProvInv, ProvisionedHasProviderID
(* The reconcile ends without touching provisioned or the provider ID.      *)
<1>3. ASSUME w.pc # "idle", w'.m = w.m, w'.base = w.base,
             w'.mem.providerID = w.mem.providerID,
             w'.mem.provisioned => w.mem.provisioned,
             w'.pc \notin {"get", "list", "create", "persist", "lbGet", "lbUpdate"}
      PROVE  ProvInv'
  <2>1. w.mem.provisioned => obj[w.m].providerID # NoID
    BY <1>3 DEF ProvInv, ProviderInv
  <2> QED BY <1>0, <1>2, <1>3, <2>1, ProvCall
(* The provider ID is on the object already.                                *)
<1>4. ASSUME w.pc # "idle", w'.m = w.m, w'.base = w.base,
             obj[w.m].providerID # NoID,
             w'.mem.providerID = w.mem.providerID,
             w'.pc \notin {"get", "list", "create", "persist"}
      PROVE  ProvInv'
  BY <1>0, <1>2, <1>4, ProvCall
<1>5. ASSUME w.pc # "idle", w' = Returned(w, TRUE)
      PROVE  ProvInv'
  <2>1. w'.pc \in Closing /\ Same(w, w') /\ w'.mem = w.mem
    BY <1>1, <1>5, ReturnedFacts
  <2> QED BY <1>3, <1>5, <2>1 DEF Same, Closing, CloseCalls
<1>6. CASE GetInstance
  <2>1. w.pc = "get" /\ w.mem.providerID \in InstanceIDs
    BY <1>6 DEF GetInstance, Call, TypeInv, WorkerOK
  <2>2. obj[w.m].providerID # NoID
    BY <1>1, <2>1 DEF ProvInv, ProviderInv
  <2>3. CASE w' = Found(w, w.mem.providerID, inst[w.mem.providerID].status)
    <3>1. /\ w'.m = w.m /\ w'.base = w.base /\ w'.mem.providerID = w.mem.providerID
          /\ w'.pc \in Closing \cup {"lbGet"}
      BY <1>1, <2>1, <2>3, FoundFacts
    <3> QED BY <1>4, <2>1, <2>2, <3>1 DEF Closing, CloseCalls
  <2>4. CASE w' = Returned(SetReadyCondition(w, "InstanceNotFound"), TRUE)
    <3>1. w'.pc \in Closing /\ Same(w, w')
      BY <1>1, <2>4, ReturnedReasonFacts DEF Reasons
    <3> QED BY <1>4, <2>1, <2>2, <3>1 DEF Same, Closing, CloseCalls
  <2> QED BY <1>5, <1>6, <2>1, <2>3, <2>4 DEF GetInstance
<1>7. ASSUME w.pc \in {"list", "create"}, NEW i \in InstanceIDs, NEW s \in Statuses,
             w' = Found(w, i, s)
      PROVE  ProvInv'
  <2>1. w.mem.providerID = NoID /\ w.mem.providerID # i
    BY <1>1, <1>7 DEF ProvInv, ProviderInv
  <2>2. /\ w'.m = w.m /\ w'.base = w.base /\ w'.mem.providerID = i
        /\ w'.pc = "persist" /\ w'.mem.provisioned = w.mem.provisioned
    BY <1>1, <1>7, <2>1, FoundFacts
  <2>3. w.mem.provisioned => obj[w.m].providerID # NoID
    BY <1>7 DEF ProvInv, ProviderInv
  <2> QED BY <1>0, <1>1, <1>2, <1>7, <2>2, <2>3, ProvCall
<1>8. CASE FindInstance
  <2>1. w.pc = "list"
    BY <1>8 DEF FindInstance, Call
  <2>2. CASE w' = [w EXCEPT !.pc = "create"]
    <3>1. w'.m = w.m /\ w'.base = w.base /\ w'.mem = w.mem /\ w'.pc = "create"
      BY <1>1, <2>2 DEF Worker
    <3>2. /\ w.mem.providerID = NoID
          /\ w.mem.provisioned => obj[w.m].providerID # NoID
      BY <2>1 DEF ProvInv, ProviderInv
    <3> QED BY <1>0, <1>2, <2>1, <3>1, <3>2, ProvCall
  <2> QED BY <1>1, <1>5, <1>7, <1>8, <2>1, <2>2 DEF FindInstance
<1>9. CASE CreateInstance
  <2>1. w.pc = "create"
    BY <1>9 DEF CreateInstance, Call
  <2>2. CASE w' = CreateFailed(w)
    <3>1. w'.pc \in Closing /\ Same(w, w') /\ ~w'.mem.provisioned
      BY <1>1, <2>2, CreateFailedFacts
    <3> QED BY <1>3, <2>1, <3>1 DEF Same, Closing, CloseCalls
  <2> QED BY <1>7, <1>9, <2>1, <2>2 DEF CreateInstance, Statuses
<1>10. CASE GetLoadBalancer \/ UpdateLoadBalancer
  <2>1. w.pc \in {"lbGet", "lbUpdate"}
    BY <1>10 DEF GetLoadBalancer, UpdateLoadBalancer, Call
  <2>2. obj[w.m].providerID # NoID
    BY <2>1 DEF ProvInv, ProviderInv
  <2>3. \/ w' = WaitForLoadBalancer(w) \/ w' = Reported(w) \/ w' = Returned(w, TRUE)
        \/ w' = [w EXCEPT !.pc = "lbUpdate", !.seen = lb.members]
    BY <1>10 DEF GetLoadBalancer, UpdateLoadBalancer
  <2>4. /\ w'.m = w.m /\ w'.base = w.base /\ w'.mem.providerID = w.mem.providerID
        /\ w'.pc \in Closing \cup {"lbUpdate"}
    <3>1. CASE w' = WaitForLoadBalancer(w)
      BY <1>1, <3>1, WaitForLoadBalancerFacts DEF Same
    <3>2. CASE w' = Reported(w)
      BY <1>1, <3>2, ReportedFacts DEF Same
    <3>3. CASE w' = [w EXCEPT !.pc = "lbUpdate", !.seen = lb.members]
      BY <1>1, <3>3 DEF Worker
    <3>4. CASE w' = Returned(w, TRUE)
      BY <1>1, <3>4, ReturnedFacts DEF Same
    <3> QED BY <2>3, <3>1, <3>2, <3>3, <3>4
  <2> QED BY <1>4, <2>1, <2>2, <2>4 DEF Closing, CloseCalls
<1>11. CASE DeleteInstance \/ DeleteRemaining
  <2>1. w.pc \in {"delete", "delRemaining"}
    BY <1>11 DEF DeleteInstance, DeleteRemaining, Call
  <2>2. CASE w' = [w EXCEPT !.pc = "delList"]
    <3>1. w'.m = w.m /\ w'.base = w.base /\ w'.mem = w.mem /\ w'.pc = "delList"
      BY <1>1, <2>2 DEF Worker
    <3> QED BY <1>3, <2>1, <3>1
  <2> QED BY <1>5, <1>11, <2>1, <2>2 DEF DeleteInstance, DeleteRemaining
<1>12. CASE FindRemaining
  <2>1. w.pc = "delList"
    BY <1>12 DEF FindRemaining, Call
  <2>2. CASE w' = Returned(RemoveFinalizer(w), FALSE)
    <3> DEFINE k == RemoveFinalizer(w)
    <3>1. /\ k \in Worker /\ k.m = w.m /\ k.base = w.base
          /\ k.mem.providerID = w.mem.providerID
          /\ k.mem.provisioned = w.mem.provisioned
      BY <1>1 DEF RemoveFinalizer, Worker, Object
    <3> HIDE DEF k
    <3>2. w'.pc \in Closing /\ Same(k, w') /\ w'.mem = k.mem
      BY <2>2, <3>1, ReturnedFacts DEF k
    <3> QED BY <1>3, <2>1, <3>1, <3>2 DEF Same, Closing, CloseCalls
  <2>3. CASE \E i \in InstanceIDs : w' = [w EXCEPT !.vm = i, !.pc = "delRemaining"]
    <3>1. w'.m = w.m /\ w'.base = w.base /\ w'.mem = w.mem /\ w'.pc = "delRemaining"
      BY <1>1, <2>3 DEF Worker
    <3> QED BY <1>3, <2>1, <3>1
  <2> QED BY <1>5, <1>12, <2>1, <2>2, <2>3 DEF FindRemaining
<1> QED BY <1>6, <1>8, <1>9, <1>10, <1>11, <1>12 DEF VultrCall

(* Every patch keeps ProvInv.                                               *)
LEMMA ProvKubeCall ==
    ASSUME TypeInv, ProvInv, KubeCall
    PROVE  ProvInv'
<1>0. cache' = cache
  BY DEF KubeCall, PatchPaused, PatchObject, PatchConditions, PatchMetadata,
     PatchStatus
<1>1. /\ w \in Worker /\ w.pc # "idle" /\ w.m \in Machines
      /\ obj \in [Machines -> Object] /\ obj[w.m] \in Object
  BY DEF TypeInv, TypeOK, WorkerOK, KubeCall, PatchPaused, PatchObject,
     PatchConditions, PatchMetadata, PatchStatus, Call
<1>2. /\ w.base.providerID # NoID => obj[w.m].providerID # NoID
      /\ w.base.providerID # NoID => w.mem.providerID # NoID
      /\ w.mem.provisioned => obj[w.m].providerID # NoID
  BY <1>1 DEF ProvInv, ProviderInv
(* The way on after any patch but the early one.                            *)
<1>3. ASSUME \A m \in Machines :
                /\ obj[m].providerID # NoID => obj'[m].providerID # NoID
                /\ obj'[m].provisioned => obj[m].provisioned \/ (m = w.m /\ w.mem.provisioned),
             w'.m = w.m, w'.base = w.base, w'.mem = w.mem, w'.pc \in Closing
      PROVE  ProvInv'
  <2>1. \A m \in Machines : obj'[m].provisioned => obj'[m].providerID # NoID
    BY <1>2, <1>3 DEF ProvInv, ProvisionedHasProviderID
  <2> QED BY <1>0, <1>1, <1>2, <1>3, <2>1, ProvCall DEF Closing, CloseCalls
<1>4. ASSUME NEW pc, NEW r, w' = [w EXCEPT !.pc = pc, !.retry = r]
      PROVE  w'.pc = pc /\ w'.m = w.m /\ w'.base = w.base /\ w'.mem = w.mem
  BY <1>1, <1>4 DEF Worker
<1>5. AfterConditions(w) \in Closing /\ AfterMetadata(w) \in Closing /\ "done" \in Closing
  BY DEF AfterConditions, AfterMetadata, Closing, CloseCalls
<1>6. CASE PatchPaused
  <2>1. obj' = obj \/ obj' = [obj EXCEPT ![w.m].pausedCond = w.mem.pausedCond]
    BY <1>6 DEF PatchPaused
  <2>2. \A m \in Machines : obj'[m].provisioned = obj[m].provisioned
    <3>1. CASE obj' = obj
      BY <3>1
    <3>2. CASE obj' = [obj EXCEPT ![w.m].pausedCond = w.mem.pausedCond]
      BY <1>1, <3>2, PausedPatched
    <3> QED BY <2>1, <3>1, <3>2
  <2>3. \A m \in Machines : obj'[m].providerID = obj[m].providerID
    <3>1. CASE obj' = obj
      BY <3>1
    <3>2. CASE obj' = [obj EXCEPT ![w.m].pausedCond = w.mem.pausedCond]
      BY <1>1, <3>2, PausedPatched
    <3> QED BY <2>1, <3>1, <3>2
  <2>4. \/ w' = [w EXCEPT !.pc = "done"]
        \/ w' = [w EXCEPT !.pc = "done", !.retry = TRUE]
    BY <1>6 DEF PatchPaused
  <2>5. w'.pc = "done" /\ w'.m = w.m /\ w'.base = w.base /\ w'.mem = w.mem
    BY <1>1, <2>4 DEF Worker
  <2> QED BY <1>3, <1>5, <2>2, <2>3, <2>5
<1>7. CASE PatchConditions
  <2>1. obj' = obj \/ obj' = [obj EXCEPT ![w.m].reason = w.mem.reason]
    BY <1>7 DEF PatchConditions
  <2>2. \A m \in Machines : obj'[m].provisioned = obj[m].provisioned
    <3>1. CASE obj' = obj
      BY <3>1
    <3>2. CASE obj' = [obj EXCEPT ![w.m].reason = w.mem.reason]
      BY <1>1, <3>2, ReasonPatched
    <3> QED BY <2>1, <3>1, <3>2
  <2>3. \A m \in Machines : obj'[m].providerID = obj[m].providerID
    <3>1. CASE obj' = obj
      BY <3>1
    <3>2. CASE obj' = [obj EXCEPT ![w.m].reason = w.mem.reason]
      BY <1>1, <3>2, ReasonPatched
    <3> QED BY <2>1, <3>1, <3>2
  <2>4. \E r : w' = [w EXCEPT !.pc = AfterConditions(w), !.retry = r]
    BY <1>7 DEF PatchConditions
  <2> QED BY <1>3, <1>4, <1>5, <2>2, <2>3, <2>4
<1>8. CASE PatchStatus
  <2>1. obj' = obj \/ obj' = [obj EXCEPT ![w.m].provisioned = w.mem.provisioned]
    BY <1>8 DEF PatchStatus
  <2>2. \A m \in Machines :
            obj'[m].provisioned => obj[m].provisioned \/ (m = w.m /\ w.mem.provisioned)
    <3> DEFINE q == [obj[w.m] EXCEPT !.provisioned = w.mem.provisioned]
    <3>1. q.provisioned = w.mem.provisioned
      BY <1>1 DEF Object
    <3>2. obj' = obj \/ obj' = [obj EXCEPT ![w.m] = q]
      BY <2>1
    <3> HIDE DEF q
    <3> QED BY <1>1, <3>1, <3>2
  <2>3. \A m \in Machines : obj'[m].providerID = obj[m].providerID
    <3>1. CASE obj' = obj
      BY <3>1
    <3>2. CASE obj' = [obj EXCEPT ![w.m].provisioned = w.mem.provisioned]
      BY <1>1, <3>2, StatusPatched
    <3> QED BY <2>1, <3>1, <3>2
  <2>4. \E r : w' = [w EXCEPT !.pc = "done", !.retry = r]
    BY <1>8 DEF PatchStatus
  <2> QED BY <1>3, <1>4, <1>5, <2>2, <2>3, <2>4
(* The patch of metadata and spec never takes a provider ID away.           *)
<1>9. ASSUME obj' = [obj EXCEPT ![w.m] = MetadataPatched(@, w)]
      PROVE  /\ \A m \in Machines :
                    /\ obj[m].providerID # NoID => obj'[m].providerID # NoID
                    /\ obj'[m].provisioned = obj[m].provisioned
             /\ w.mem.providerID # NoID => obj'[w.m].providerID # NoID
  <2> DEFINE p == MetadataPatched(obj[w.m], w)
  <2>1. /\ p.provisioned = obj[w.m].provisioned
        /\ p.providerID = Merged(obj[w.m].providerID, w.base.providerID, w.mem.providerID)
    BY <1>1 DEF MetadataPatched, Object
  <2> HIDE DEF p
  <2>2. /\ obj[w.m].providerID # NoID => p.providerID # NoID
        /\ w.mem.providerID # NoID => p.providerID # NoID
    BY <1>2, <2>1 DEF Merged
  <2>3. obj'[w.m] = p /\ \A m \in Machines : m # w.m => obj'[m] = obj[m]
    BY <1>1, <1>9 DEF p
  <2> QED BY <1>1, <2>1, <2>2, <2>3
<1>10. CASE PatchObject
  <2>1. w.pc = "persist" /\ w.mem.providerID # NoID
    BY <1>10 DEF PatchObject, Call, ProvInv, ProviderInv
  <2>2. CASE /\ w' = Proceed(w)
             /\ obj' = [obj EXCEPT ![w.m] = MetadataPatched(@, w)]
    <3>1. /\ \A m \in Machines :
                /\ obj[m].providerID # NoID => obj'[m].providerID # NoID
                /\ obj'[m].provisioned = obj[m].provisioned
          /\ obj'[w.m].providerID # NoID
      BY <1>9, <2>1, <2>2
    <3>2. \A m \in Machines : obj'[m].provisioned => obj'[m].providerID # NoID
      BY <3>1 DEF ProvInv, ProvisionedHasProviderID
    <3>3. w'.pc \in Closing \cup {"lbGet"} /\ Same(w, w')
      BY <1>1, <2>2, ProceedFacts
    <3> QED BY <1>0, <1>1, <3>1, <3>2, <3>3, ProvCall DEF Same, Closing, CloseCalls
  <2>3. CASE obj' = obj /\ w' = Returned(w, TRUE)
    <3>1. w'.pc \in Closing /\ Same(w, w') /\ w'.mem = w.mem
      BY <1>1, <2>3, ReturnedFacts
    <3> QED BY <1>3, <2>3, <3>1 DEF Same
  <2> QED BY <1>10, <2>2, <2>3 DEF PatchObject
<1>11. CASE PatchMetadata
  <2>1. \E r : w' = [w EXCEPT !.pc = AfterMetadata(w), !.retry = r]
    BY <1>11 DEF PatchMetadata
  <2>2. w'.pc \in Closing /\ w'.m = w.m /\ w'.base = w.base /\ w'.mem = w.mem
    BY <1>4, <1>5, <2>1
  <2>3. \A m \in Machines : /\ obj[m].providerID # NoID => obj'[m].providerID # NoID
                            /\ obj'[m].provisioned = obj[m].provisioned
    BY <1>9, <1>11 DEF PatchMetadata
  <2> QED BY <1>3, <2>2, <2>3
<1> QED BY <1>6, <1>7, <1>8, <1>10, <1>11 DEF KubeCall

(* A return, a crash and the environment keep ProvInv.                      *)
LEMMA ProvOthers ==
    ASSUME TypeInv, ProvInv, Finish \/ Crash \/ Environment
    PROVE  ProvInv'
<1>1. ASSUME obj' = obj, w'.pc = "idle" \/ w' = w,
             \A m \in Machines : cache'[m] = cache[m] \/ cache'[m] = obj[m]
      PROVE  ProvInv'
  BY <1>1 DEF ProvInv, ProviderInv, ProvisionedHasProviderID
<1>2. CASE Finish \/ Crash
  BY <1>1, <1>2, IdleType DEF Finish, Crash
<1>3. ASSUME NEW m \in Machines, CacheSync(m)
      PROVE  ProvInv'
  <2>1. /\ obj' = obj /\ w' = w
        /\ \A n \in Machines : cache'[n] = cache[n] \/ cache'[n] = obj[n]
    BY <1>3 DEF CacheSync, TypeInv, TypeOK
  <2> QED BY <1>1, <2>1
<1>4. ASSUME NEW m \in Machines, DeleteObject(m)
      PROVE  ProvInv'
  <2>1. /\ cache' = cache /\ w' = w
        /\ obj' = [obj EXCEPT ![m].phase = IF obj[m].finalizer THEN "deleting" ELSE "gone"]
        /\ obj \in [Machines -> Object]
    BY <1>4 DEF DeleteObject, TypeInv, TypeOK
  <2>2. \A n \in Machines : /\ obj'[n].providerID = obj[n].providerID
                            /\ obj'[n].provisioned = obj[n].provisioned
    BY <2>1 DEF Object
  <2>3. w.pc # "idle" => w.m \in Machines
    BY DEF TypeInv, WorkerOK
  <2> QED BY <2>1, <2>2, <2>3 DEF ProvInv, ProviderInv, ProvisionedHasProviderID
<1>5. CASE \/ \E m \in Machines : Event(m) \/ OwnerAdvances(m)
           \/ ClusterAppears \/ ClusterReady \/ ClusterLost \/ Pause \/ Unpause
           \/ LoadBalancerActive
           \/ \E i \in InstanceIDs : \/ InstanceActive(i) \/ InstanceOdd(i)
                                     \/ InstanceLost(i) \/ ListCatchesUp(i)
  <2>1. obj' = obj /\ cache' = cache /\ w' = w
    BY <1>5 DEF Event, OwnerAdvances, ClusterAppears, ClusterReady, ClusterLost,
       Pause, Unpause, InfraChanges, LoadBalancerActive, InstanceActive,
       InstanceOdd, InstanceLost, ListCatchesUp, InstanceChanges, kube
  <2> QED BY <1>1, <2>1
<1> QED BY <1>2, <1>3, <1>4, <1>5 DEF Environment

(* Every step keeps ProvInv.                                                *)
LEMMA ProvNext == TypeInv /\ ProvInv /\ [Next]_vars => ProvInv'
<1> SUFFICES ASSUME TypeInv, ProvInv, [Next]_vars PROVE ProvInv'
  OBVIOUS
<1>1. CASE UNCHANGED vars
  BY <1>1 DEF vars, ProvInv, ProviderInv, ProvisionedHasProviderID
<1> QED BY <1>1, ProvBegin, ProvVultrCall, ProvKubeCall, ProvOthers
        DEF Next, WorkerStep

(* No failed, lost or half-done patch makes an object claim that it is      *)
(* provisioned before its provider ID is on record.                         *)
THEOREM ProvisionedIsRecorded == Spec => []ProvisionedHasProviderID
<1>1. Init => ProvInv
  BY ProvInit
<1>2. TypeInv /\ ProvInv /\ [Next]_vars => ProvInv'
  BY ProvNext
<1>3. ProvInv => ProvisionedHasProviderID
  BY DEF ProvInv
<1> QED BY <1>1, <1>2, <1>3, TypeInvariance, PTL DEF Spec
=============================================================================
