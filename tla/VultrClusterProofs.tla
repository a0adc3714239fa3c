------------------------- MODULE VultrClusterProofs -------------------------
(* Theorems about VultrCluster, for every set of load balancers and every   *)
(* bound on faults, outdated reads, mishaps and pauses.                     *)
EXTENDS VultrCluster, FiniteSetTheorems, TLAPS

NormalCalls == {"get", "create"}
DeleteCalls == {"delGet", "delete"}
CloseCalls  == {"conditions", "metadata", "status"}
Closing     == CloseCalls \cup {"done"}

(* The calls before the patch of metadata and spec has been tried.          *)
BeforeMetadata == NormalCalls \cup DeleteCalls \cup {"conditions", "metadata"}

-----------------------------------------------------------------------------
(* Inductive invariants *)

(* The worker has a load balancer whenever the call it is at uses one.      *)
WorkerOK == w.pc \in {"get", "delGet", "delete"} => w.vlbID \in LoadBalancers

TypeInv == TypeOK /\ WorkerOK

SameIds(o, p) ==
    p.specID = o.specID /\ p.statusID = o.statusID /\ p.endpoint = o.endpoint

(* The load balancer that reconcileNormal looks for.                        *)
Wanted(o) == IF o.specID # NoLB THEN o.specID ELSE o.statusID

(* What a reconcile that read b may record: nothing, or the one load        *)
(* balancer it looked for, or made when there was none to look for.         *)
Recording(b, m) ==
    \/ SameIds(b, m)
    \/ /\ m.specID # NoLB /\ m.statusID = m.specID
       /\ m.endpoint \in {b.endpoint, m.specID}
       /\ Wanted(b) # NoLB => m.specID = Wanted(b)

(* What the reconcile in progress looks for and has recorded.               *)
WorkInv ==
    /\ w.pc \in NormalCalls \cup DeleteCalls => SameIds(w.base, w.mem)
    /\ w.pc = "get" => w.vlbID = Wanted(w.base)
    /\ w.pc = "create" => w.base.specID = NoLB /\ w.base.statusID = NoLB
    /\ w.pc # "idle" => Recording(w.base, w.mem)

(* An endpoint is written together with the ID it belongs to.               *)
EndpointHasID(o) == o.endpoint # NoLB => o.specID # NoLB

(* The ID in the spec is never taken back, so an outdated copy with one     *)
(* means an object with one.                                                *)
SpecInv ==
    /\ EndpointHasID(obj) /\ EndpointHasID(cache)
    /\ cache.specID # NoLB => obj.specID # NoLB
    /\ w.pc # "idle" => /\ EndpointHasID(w.base)
                        /\ w.base.specID # NoLB => obj.specID # NoLB

(* A reconcile that read the object as it was meets it as it read it, but   *)
(* for its own patches: nobody else writes the IDs meanwhile.               *)
FreshInv ==
    (w.pc # "idle" /\ ~w.stale) =>
        /\ w.pc \in BeforeMetadata => /\ obj.specID = w.base.specID
                                      /\ obj.endpoint = w.base.endpoint
        /\ w.pc \in BeforeMetadata \cup {"status"}
            => obj.statusID = w.base.statusID
        /\ w.pc = "status" =>
            \/ obj.specID = w.base.specID /\ obj.endpoint = w.base.endpoint
            \/ obj.specID = w.mem.specID /\ obj.endpoint = w.mem.endpoint

NamesInv == WorkInv /\ SpecInv /\ FreshInv

(* Only the end of reconcileDelete takes the finalizer off.                 *)
FinalizerInv ==
    /\ obj.phase = "deleting" => obj.finalizer
    /\ cache.phase = "deleting" => cache.finalizer
    /\ w.pc \in NormalCalls \cup DeleteCalls => w.mem.finalizer

(* How many load balancers were made and are there, against what has        *)
(* happened.                                                                *)
Owes(k) == Cardinality(MadeAndLive) <= k + Faults + StaleReads

Leaves(k) == k + Cardinality(MadeAndLive) <= Faults + StaleReads + Mishaps

BudgetInv ==
    /\ IsFiniteSet(MadeAndLive)
    /\ Faults \in Nat /\ StaleReads \in Nat /\ Mishaps \in Nat

(* The last one is in hand or is named by the spec; without either there    *)
(* are no more than were paid for by a fault or an outdated read.           *)
OwesInv ==
    /\ Owes(1)
    /\ w.pc = "create" => Owes(0)
    /\ (/\ Exists(obj) /\ obj.specID = NoLB
        /\ w.pc \in BeforeMetadata => w.mem.specID = w.base.specID) => Owes(0)

(* The balancers not made here are the user's, and then none is made.       *)
GivenInv ==
    \/ \A i \in LoadBalancers : Live(i) => lbs[i].made
    \/ /\ MadeAndLive = {} /\ obj.specID # NoLB /\ cache.specID # NoLB
       /\ w.pc # "idle" => w.base.specID # NoLB

(* The same for the status, which deletion goes by and a move empties.      *)
LeavesInv ==
    /\ (/\ Exists(obj) /\ obj.statusID = NoLB
        /\ w.pc \in BeforeMetadata \cup {"status"}
            => w.mem.statusID = w.base.statusID) => Leaves(0)
    /\ (w.pc \in {"conditions", "metadata"} /\ ~w.mem.finalizer) => Leaves(0)
    /\ obj.phase = "finalized" => Leaves(0) /\ (w.pc = "create" => Leaves(1))

CountInv == BudgetInv /\ OwesInv /\ GivenInv /\ LeavesInv

-----------------------------------------------------------------------------
(* What the local code between two calls does to the worker's record.       *)

(* Close leaves out a patch that would change nothing.                      *)
Skips(r) ==
    /\ r.pc \in {"status", "done"} => /\ r.mem.specID = r.base.specID
                                      /\ r.mem.endpoint = r.base.endpoint
                                      /\ r.mem.finalizer = r.base.finalizer
    /\ r.pc = "done" => r.mem.statusID = r.base.statusID

(* r is the reconcile k after its body has returned.                        *)
Ends(k, r) ==
    /\ r \in Worker /\ r.pc \in Closing /\ Skips(r)
    /\ r.base = k.base /\ r.stale = k.stale

SameRecord(o, p) == SameIds(o, p) /\ p.finalizer = o.finalizer

(* Returned ends the reconcile on a call of Close, or on none.              *)
LEMMA ReturnedFacts ==
    ASSUME NEW k \in Worker, NEW retry \in BOOLEAN
    PROVE  LET r == Returned(k, retry) IN Ends(k, r) /\ r.mem = k.mem
<1>1. ClosePC(k) \in Closing /\ ClosePC(k) \in Calls
  BY DEF AfterMetadata, AfterConditions, ClosePC, Closing, CloseCalls, Calls
<1>2. /\ ClosePC(k) \in {"status", "done"} => /\ k.mem.specID = k.base.specID
                                              /\ k.mem.endpoint = k.base.endpoint
                                              /\ k.mem.finalizer = k.base.finalizer
      /\ ClosePC(k) = "done" => k.mem.statusID = k.base.statusID
  BY DEF AfterMetadata, AfterConditions, ClosePC
<1> DEFINE r == Returned(k, retry)
<1>3. /\ r \in Worker /\ r.pc = ClosePC(k) /\ r.base = k.base /\ r.mem = k.mem
      /\ r.stale = k.stale
  BY <1>1 DEF Returned, Worker
<1> HIDE DEF r
<1>4. Ends(k, r) /\ r.mem = k.mem
  BY <1>1, <1>2, <1>3 DEF Ends, Skips
<1> QED BY <1>4 DEF r

(* An error returned with its condition leaves what the object names.       *)
LEMMA FailedFacts ==
    ASSUME NEW k \in Worker, NEW reason \in Reasons
    PROVE  LET r == Failed(k, reason) IN Ends(k, r) /\ SameRecord(k.mem, r.mem)
<1> DEFINE k1 == [k EXCEPT !.mem.reason = reason]
<1>1. /\ k1 \in Worker /\ k1.base = k.base /\ k1.stale = k.stale
      /\ SameRecord(k.mem, k1.mem)
  BY DEF Worker, Object, SameRecord, SameIds
<1> HIDE DEF k1
<1>2. LET r == Returned(k1, TRUE) IN Ends(k1, r) /\ r.mem = k1.mem
  BY <1>1, ReturnedFacts
<1> QED BY <1>1, <1>2 DEF Failed, k1, Ends

(* The load balancer in hand is named by spec and status, and by the        *)
(* endpoint when it has an address.                                         *)
LEMMA RecordedFacts ==
    ASSUME NEW k \in Worker, NEW id \in LoadBalancers, NEW ip \in BOOLEAN
    PROVE  LET r == Recorded(k, id, ip) IN
           /\ Ends(k, r)
           /\ r.mem.specID = id /\ r.mem.statusID = id
           /\ r.mem.endpoint \in {k.mem.endpoint, id}
           /\ r.mem.finalizer = k.mem.finalizer
<1> DEFINE k1 == [k EXCEPT !.mem.statusID = id, !.mem.specID = id]
           k2 == [k1 EXCEPT !.mem.endpoint = id, !.mem.provisioned = TRUE,
                            !.mem.reason = "LoadBalancerReady"]
           k3 == [k1 EXCEPT !.mem.provisioned = FALSE,
                            !.mem.reason = "WaitingForIP"]
<1>1. /\ k1 \in Worker /\ k1.base = k.base /\ k1.stale = k.stale
      /\ k1.mem.specID = id /\ k1.mem.statusID = id
      /\ k1.mem.endpoint = k.mem.endpoint /\ k1.mem.finalizer = k.mem.finalizer
  BY DEF Worker, Object, MaybeLB
<1> HIDE DEF k1
<1>2. /\ k2 \in Worker /\ k2.base = k.base /\ k2.stale = k.stale
      /\ k2.mem.specID = id /\ k2.mem.statusID = id
      /\ k2.mem.endpoint = id /\ k2.mem.finalizer = k.mem.finalizer
  BY <1>1 DEF Worker, Object, MaybeLB, Reasons
<1>3. /\ k3 \in Worker /\ k3.base = k.base /\ k3.stale = k.stale
      /\ k3.mem.specID = id /\ k3.mem.statusID = id
      /\ k3.mem.endpoint = k.mem.endpoint /\ k3.mem.finalizer = k.mem.finalizer
  BY <1>1 DEF Worker, Object, MaybeLB, Reasons
<1> HIDE DEF k2, k3
<1>4. /\ Ends(k2, Returned(k2, FALSE)) /\ Returned(k2, FALSE).mem = k2.mem
      /\ Ends(k3, Returned(k3, TRUE)) /\ Returned(k3, TRUE).mem = k3.mem
  BY <1>2, <1>3, ReturnedFacts
<1>5. Recorded(k, id, ip) = IF ip THEN Returned(k2, FALSE) ELSE Returned(k3, TRUE)
  BY DEF Recorded, Ready, WaitForIP, k1, k2, k3
<1> QED BY <1>2, <1>3, <1>4, <1>5 DEF Ends

(* Taking the finalizer off changes nothing else.                           *)
LEMMA RemoveFinalizerFacts ==
    ASSUME NEW k \in Worker
    PROVE  LET r == RemoveFinalizer(k) IN
           /\ r \in Worker /\ r.base = k.base /\ r.stale = k.stale
           /\ ~r.mem.finalizer /\ SameIds(k.mem, r.mem)
  BY DEF RemoveFinalizer, Worker, Object, SameIds

(* The patches yield objects.                                               *)
LEMMA PatchedTypes ==
    ASSUME NEW o \in Object, NEW k \in Worker
    PROVE  MetadataPatched(o, k) \in Object /\ StatusPatched(o, k) \in Object
  BY DEF MetadataPatched, StatusPatched, Merged, Worker, Object, Phases

(* The idle worker is well typed.                                           *)
LEMMA IdleType ==
    /\ \A g \in MaybeLB : NewObject(g) \in Object
    /\ Idle \in Worker /\ Idle.pc = "idle"
  BY DEF NewObject, Idle, Object, Worker, Phases, Reasons, MaybeLB, Calls

(* A new reconcile works on the cached object.                              *)
LEMMA RunFacts ==
    ASSUME TypeOK
    PROVE  /\ Run \in Worker /\ Run.base = cache /\ Run.mem = cache
           /\ Run.stale = Outdated
  BY IdleType DEF TypeOK, Run, Worker, Outdated

Budget == [faults : Nat, stale : Nat, mishaps : Nat, pauses : Nat]

(* Spending keeps the budget a record of naturals.                          *)
LEMMA BudgetType ==
    ASSUME TypeOK
    PROVE  /\ NoFault => budget' \in Budget
           /\ Fault => budget' \in Budget
           /\ Spend("stale") => budget' \in Budget
           /\ Spend("mishaps") => budget' \in Budget
           /\ Spend("pauses") => budget' \in Budget
  BY DEF TypeOK, Spend, Fault, NoFault, Budget

-----------------------------------------------------------------------------
(* Type correctness *)

(* TypeInv holds when the manager starts.                                   *)
LEMMA TypeInit == Init => TypeInv
<1> SUFFICES ASSUME Init PROVE TypeInv
  OBVIOUS
<1>1. PICK given \in GivenLBs \cup {NoLB} :
        /\ obj = NewObject(given)
        /\ lbs = [i \in LoadBalancers |->
                    [place |-> IF i = given THEN "live" ELSE "free",
                     ip |-> i = given, made |-> FALSE]]
  BY DEF Init
<1>2. given \in MaybeLB
  BY ConstantsAssumption DEF MaybeLB
<1>3. obj \in Object /\ cache \in Object /\ w \in Worker /\ w.pc = "idle"
  BY <1>1, <1>2, IdleType DEF Init
<1>4. lbs \in [LoadBalancers -> LoadBalancer]
  BY <1>1 DEF LoadBalancer
<1> QED BY <1>3, <1>4, ConstantsAssumption DEF Init, TypeInv, TypeOK, WorkerOK

(* The steps that take the object from the queue.                           *)
LEMMA TypeBegin ==
    ASSUME TypeInv, Begin
    PROVE  TypeInv'
<1>0. /\ obj' = obj /\ cache' = cache /\ owned' = owned /\ paused' = paused
      /\ lbs' = lbs /\ queued' = FALSE
      /\ UNCHANGED budget \/ Spend("stale")
  BY DEF Begin, Skip, BeginNormal, BeginDelete, Fetch, Dequeue
<1>6. budget' \in Budget
  BY <1>0, BudgetType DEF TypeInv, NoFault
<1>1. Run \in Worker /\ Run.base = cache /\ Run.mem = cache /\ cache \in Object
  BY RunFacts DEF TypeInv, TypeOK
<1>2. SUFFICES w' \in Worker /\ WorkerOK'
  BY <1>0, <1>6 DEF TypeInv, TypeOK, Budget
<1>3. CASE Skip
  BY <1>0, <1>3 DEF Skip, TypeInv, TypeOK, WorkerOK
<1>4. CASE BeginNormal
  <2>1. PICK id \in MaybeLB :
            w' = [Run EXCEPT !.mem.finalizer = TRUE, !.vlbID = id,
                             !.pc = IF id = NoLB THEN "create" ELSE "get"]
    BY <1>1, <1>4 DEF BeginNormal, Object
  <2> QED BY <1>1, <2>1 DEF Worker, Object, Calls, WorkerOK, MaybeLB
<1>5. CASE BeginDelete
  <2>1. CASE cache.statusID = NoLB
    <3> DEFINE k == RemoveFinalizer(Run)
    <3>1. k \in Worker
      BY <1>1, RemoveFinalizerFacts
    <3>2. w' = Returned(k, FALSE)
      BY <1>5, <2>1 DEF BeginDelete
    <3> HIDE DEF k
    <3>3. w' \in Worker /\ w'.pc \in Closing
      BY <3>1, <3>2, ReturnedFacts DEF Ends
    <3> QED BY <3>3 DEF WorkerOK, Closing, CloseCalls
  <2>2. CASE cache.statusID # NoLB
    <3>1. w' = [Run EXCEPT !.vlbID = cache.statusID, !.pc = "delGet"]
      BY <1>5, <2>2 DEF BeginDelete
    <3> QED BY <1>1, <2>2, <3>1 DEF Worker, Object, Calls, WorkerOK, MaybeLB
  <2> QED BY <2>1, <2>2
<1> QED BY <1>3, <1>4, <1>5 DEF Begin

(* The worker's calls to Vultr.                                             *)
LEMMA TypeVultrCall ==
    ASSUME TypeInv,
           GetLoadBalancer \/ CreateLoadBalancer \/ GetForDelete \/ DeleteLoadBalancer
    PROVE  TypeInv'
<1>0. /\ obj' = obj /\ cache' = cache /\ queued' = queued
      /\ owned' = owned /\ paused' = paused /\ w \in Worker
      /\ lbs \in [LoadBalancers -> LoadBalancer]
  BY DEF GetLoadBalancer, CreateLoadBalancer, GetForDelete, DeleteLoadBalancer,
     TypeInv, TypeOK
<1>1. budget' \in Budget
  BY BudgetType DEF GetLoadBalancer, CreateLoadBalancer, GetForDelete,
     DeleteLoadBalancer, TypeInv
<1>2. SUFFICES lbs' \in [LoadBalancers -> LoadBalancer] /\ w' \in Worker /\ WorkerOK'
  BY <1>0, <1>1 DEF TypeInv, TypeOK, Budget
<1>3. ASSUME \E k : Ends(k, w')
      PROVE  w' \in Worker /\ WorkerOK'
  BY <1>3 DEF Ends, WorkerOK, Closing, CloseCalls
<1>4. CASE GetLoadBalancer
  <2>1. lbs' = lbs /\ w.vlbID \in LoadBalancers /\ lbs[w.vlbID].ip \in BOOLEAN
    BY <1>0, <1>4 DEF GetLoadBalancer, Call, TypeInv, WorkerOK, LoadBalancer
  <2>2. "ErrorFetchingLoadBalancer" \in Reasons
    BY DEF Reasons
  <2>3. Ends(w, w')
    BY <1>0, <1>4, <2>1, <2>2, RecordedFacts, FailedFacts DEF GetLoadBalancer
  <2> QED BY <1>0, <1>3, <2>1, <2>3
<1>5. CASE CreateLoadBalancer
  <2>1. "ErrorCreatingLoadBalancer" \in Reasons
    BY DEF Reasons
  <2>2. Ends(w, w')
    BY <1>0, <1>5, <2>1, RecordedFacts, FailedFacts DEF CreateLoadBalancer
  <2>3. \A ip \in BOOLEAN :
            [place |-> "live", ip |-> ip, made |-> TRUE] \in LoadBalancer
    BY DEF LoadBalancer
  <2>4. \/ lbs' = lbs
        \/ \E i \in LoadBalancers, new \in LoadBalancer : lbs' = [lbs EXCEPT ![i] = new]
    BY <1>5, <2>3 DEF CreateLoadBalancer
  <2> QED BY <1>0, <1>3, <2>2, <2>4
<1>6. CASE GetForDelete
  <2>1. lbs' = lbs /\ w.vlbID \in LoadBalancers
    BY <1>6 DEF GetForDelete, Call, TypeInv, WorkerOK
  <2>2. Ends(w, w') \/ w' = [w EXCEPT !.pc = "delete"]
    BY <1>0, <1>6, ReturnedFacts DEF GetForDelete
  <2>3. w' = [w EXCEPT !.pc = "delete"] => w' \in Worker /\ WorkerOK'
    BY <1>0, <2>1 DEF Worker, Calls, WorkerOK
  <2> QED BY <1>0, <1>3, <2>1, <2>2, <2>3
<1>7. CASE DeleteLoadBalancer
  <2>1. RemoveFinalizer(w) \in Worker
    BY <1>0, RemoveFinalizerFacts
  <2>2. \/ Ends(w, w')
        \/ Ends(RemoveFinalizer(w), w')
    BY <1>0, <1>7, <2>1, ReturnedFacts DEF DeleteLoadBalancer
  <2>3. lbs' \in [LoadBalancers -> LoadBalancer]
    BY <1>0, <1>7 DEF DeleteLoadBalancer, LoadBalancer
  <2> QED BY <1>3, <2>2, <2>3
<1> QED BY <1>4, <1>5, <1>6, <1>7

(* What a patch makes of the worker and the budget.                         *)
LEMMA PatchStep ==
    ASSUME TypeInv, PatchConditions \/ PatchMetadata \/ PatchStatus
    PROVE  /\ cache' = cache /\ queued' = queued /\ owned' = owned
           /\ paused' = paused /\ lbs' = lbs /\ budget' \in Budget
           /\ w' \in Worker /\ w'.base = w.base /\ w'.mem = w.mem
           /\ w'.stale = w.stale
           /\ w'.pc = CASE w.pc = "conditions" -> AfterConditions(w)
                        [] w.pc = "metadata" -> AfterMetadata(w)
                        [] w.pc = "status" -> "done"
<1>1. w \in Worker
  BY DEF TypeInv, TypeOK
<1>2. AfterConditions(w) \in Calls /\ AfterMetadata(w) \in Calls
  BY DEF AfterMetadata, AfterConditions, Calls
<1>3. budget' \in Budget
  BY BudgetType DEF TypeInv, PatchConditions, PatchMetadata, PatchStatus, PatchCall
<1>4. CASE PatchConditions
  <2>1. \E r \in BOOLEAN : w' = [w EXCEPT !.pc = AfterConditions(w), !.retry = @ \/ r]
    BY <1>4 DEF PatchConditions
  <2>2. w.pc = "conditions"
    BY <1>4 DEF PatchConditions, Call
  <2> QED BY <1>1, <1>2, <1>3, <1>4, <2>1, <2>2 DEF PatchConditions, Worker
<1>5. CASE PatchMetadata
  <2>1. \E r \in BOOLEAN : w' = [w EXCEPT !.pc = AfterMetadata(w), !.retry = @ \/ r]
    BY <1>5 DEF PatchMetadata, PatchCall
  <2>2. w.pc = "metadata"
    BY <1>5 DEF PatchMetadata, Call
  <2> QED BY <1>1, <1>2, <1>3, <1>5, <2>1, <2>2 DEF PatchMetadata, PatchCall, Worker
<1>6. CASE PatchStatus
  <2>1. \E r \in BOOLEAN : w' = [w EXCEPT !.pc = "done", !.retry = @ \/ r]
    BY <1>6 DEF PatchStatus, PatchCall
  <2>2. w.pc = "status" /\ "done" \in Calls
    BY <1>6 DEF PatchStatus, Call, Calls
  <2> QED BY <1>1, <1>3, <1>6, <2>1, <2>2 DEF PatchStatus, PatchCall, Worker
<1> QED BY <1>4, <1>5, <1>6

(* The three patches of Close.                                              *)
LEMMA TypePatch ==
    ASSUME TypeInv, PatchConditions \/ PatchMetadata \/ PatchStatus
    PROVE  TypeInv'
<1>1. obj \in Object /\ w \in Worker
  BY DEF TypeInv, TypeOK
<1>2. obj' \in Object
  <2>1. CASE PatchConditions
    BY <1>1, <2>1 DEF PatchConditions, Object, Worker
  <2>2. CASE PatchMetadata \/ PatchStatus
    BY <1>1, <2>2, PatchedTypes DEF PatchMetadata, PatchStatus, PatchCall
  <2> QED BY <2>1, <2>2
<1>3. w.pc \in CloseCalls
  BY DEF PatchConditions, PatchMetadata, PatchStatus, Call, CloseCalls
<1>4. w'.pc \in Closing
  BY <1>3, PatchStep DEF AfterConditions, AfterMetadata, Closing, CloseCalls
<1> QED BY <1>2, <1>4, PatchStep
        DEF TypeInv, TypeOK, Budget, WorkerOK, Closing, CloseCalls

(* The end of a reconcile, a restart, and the environment.                  *)
LEMMA TypeRest ==
    ASSUME TypeInv, Finish \/ Crash \/ Environment \/ UNCHANGED vars
    PROVE  TypeInv'
<1>1. CASE Finish
  BY <1>1, IdleType DEF Finish, TypeInv, TypeOK, WorkerOK, Worker
<1>2. CASE Crash
  <2>1. budget' \in Budget
    BY <1>2, BudgetType DEF Crash, TypeInv
  <2> QED BY <1>2, <2>1, IdleType DEF Crash, TypeInv, TypeOK, WorkerOK, Budget
<1>3. CASE CacheSync \/ Event \/ OwnerSet \/ Unpause \/ UNCHANGED vars
  BY <1>3 DEF CacheSync, Event, OwnerSet, Unpause, vars, TypeInv, TypeOK, WorkerOK
<1>4. CASE Pause
  <2>1. budget' \in Budget
    BY <1>4, BudgetType DEF Pause, TypeInv
  <2> QED BY <1>4, <2>1 DEF Pause, TypeInv, TypeOK, WorkerOK, Budget
<1>5. CASE DeleteObject
  <2>1. obj' \in Object
    BY <1>5 DEF DeleteObject, TypeInv, TypeOK, Object, Phases
  <2> QED BY <1>5, <2>1 DEF DeleteObject, TypeInv, TypeOK, WorkerOK
<1>6. CASE Move
  <2>1. budget' \in Budget
    BY <1>6, BudgetType DEF Move, TypeInv
  <2>2. obj' \in Object
    BY <1>6 DEF Move, TypeInv, TypeOK, Object, MaybeLB, Reasons
  <2> QED BY <1>6, <2>1, <2>2 DEF Move, TypeInv, TypeOK, WorkerOK, Budget
<1>7. ASSUME NEW i \in LoadBalancers, LoadBalancerGetsIP(i)
      PROVE  TypeInv'
  BY <1>7 DEF LoadBalancerGetsIP, TypeInv, TypeOK, WorkerOK, LoadBalancer
<1>8. ASSUME NEW i \in LoadBalancers, LoadBalancerLost(i)
      PROVE  TypeInv'
  <2>1. budget' \in Budget
    BY <1>8, BudgetType DEF LoadBalancerLost, TypeInv
  <2>2. lbs' \in [LoadBalancers -> LoadBalancer]
    BY <1>8 DEF LoadBalancerLost, TypeInv, TypeOK, LoadBalancer
  <2> QED BY <1>8, <2>1, <2>2 DEF LoadBalancerLost, TypeInv, TypeOK, WorkerOK, Budget
<1> QED BY <1>1, <1>2, <1>3, <1>4, <1>5, <1>6, <1>7, <1>8 DEF Environment

(* Every step keeps the types.                                              *)
LEMMA TypeStep == TypeInv /\ [Next]_vars => TypeInv'
  BY TypeBegin, TypeVultrCall, TypePatch, TypeRest DEF Next, WorkerStep

(* The invariant behind the types holds always.                             *)
LEMMA TypeInvariance == Spec => []TypeInv
  BY TypeInit, TypeStep, PTL DEF Spec

(* Every reachable state of the VultrCluster controller is well typed: its  *)
(* object, its cache, the load balancers and the reconcile in progress.     *)
THEOREM ClusterTyped == Spec => []TypeOK
<1>1. TypeInv => TypeOK
  BY DEF TypeInv
<1> QED BY <1>1, TypeInvariance, PTL

-----------------------------------------------------------------------------
(* What the steps of the worker do, as far as the invariants see it.        *)

(* A reconcile begins from the cache.                                       *)
LEMMA BeginEffect ==
    ASSUME TypeInv, BeginNormal \/ BeginDelete
    PROVE  /\ obj' = obj /\ cache' = cache /\ lbs' = lbs /\ w.pc = "idle"
           /\ Exists(cache) /\ w'.base = cache /\ SameIds(cache, w'.mem)
           /\ w'.stale = Outdated
           /\ IF Outdated THEN Spend("stale") ELSE NoFault
           /\ \/ /\ w'.pc \in NormalCalls /\ w'.mem.finalizer
                 /\ w'.pc = "get" => w'.vlbID = Wanted(cache)
                 /\ w'.pc = "create" => cache.specID = NoLB /\ cache.statusID = NoLB
              \/ /\ cache.statusID = NoLB /\ Ends(w', w')
              \/ /\ cache.phase = "deleting" /\ cache.statusID # NoLB
                 /\ w'.pc = "delGet" /\ w'.mem = cache /\ w'.vlbID = cache.statusID
<1>1. /\ obj' = obj /\ cache' = cache /\ lbs' = lbs /\ w.pc = "idle"
      /\ Exists(cache) /\ IF Outdated THEN Spend("stale") ELSE NoFault
  BY DEF BeginNormal, BeginDelete, Fetch, Dequeue, Reconcilable, NoFault
<1>2. /\ Run \in Worker /\ Run.base = cache /\ Run.mem = cache
      /\ Run.stale = Outdated /\ cache \in Object
  BY RunFacts DEF TypeInv, TypeOK
<1>3. CASE BeginNormal
  <2>1. PICK id \in MaybeLB :
        /\ id = Wanted(cache)
        /\ w' = [Run EXCEPT !.mem.finalizer = TRUE, !.vlbID = id,
                             !.pc = IF id = NoLB THEN "create" ELSE "get"]
    BY <1>2, <1>3 DEF BeginNormal, Object, Wanted
  <2>2. /\ w'.base = cache /\ SameIds(cache, w'.mem) /\ w'.mem.finalizer
        /\ w'.stale = Outdated
        /\ w'.vlbID = id /\ w'.pc = IF id = NoLB THEN "create" ELSE "get"
    BY <1>2, <2>1 DEF Worker, Object, SameIds
  <2> QED BY <1>1, <2>1, <2>2 DEF NormalCalls, Wanted
<1>4. CASE BeginDelete /\ cache.statusID = NoLB
  <2> DEFINE k == RemoveFinalizer(Run)
  <2>1. /\ k \in Worker /\ k.base = cache /\ k.stale = Outdated
        /\ SameIds(cache, k.mem)
    BY <1>2, RemoveFinalizerFacts
  <2>2. w' = Returned(k, FALSE)
    BY <1>4 DEF BeginDelete
  <2> HIDE DEF k
  <2>3. Ends(k, w') /\ w'.mem = k.mem
    BY <2>1, <2>2, ReturnedFacts
  <2> QED BY <1>1, <1>4, <2>1, <2>3 DEF Ends
<1>5. CASE BeginDelete /\ cache.statusID # NoLB
  <2>1. /\ cache.phase = "deleting"
        /\ w' = [Run EXCEPT !.vlbID = cache.statusID, !.pc = "delGet"]
    BY <1>5 DEF BeginDelete
  <2>2. /\ w'.base = cache /\ w'.mem = cache /\ w'.stale = Outdated
        /\ w'.vlbID = cache.statusID /\ w'.pc = "delGet"
    BY <1>2, <2>1 DEF Worker
  <2> QED BY <1>1, <1>5, <2>1, <2>2 DEF SameIds
<1> QED BY <1>3, <1>4, <1>5

(* The calls of reconcileNormal end it, with or without a load balancer.    *)
LEMMA NormalEffect ==
    ASSUME TypeInv, GetLoadBalancer \/ CreateLoadBalancer
    PROVE  /\ obj' = obj /\ cache' = cache /\ w.pc \in NormalCalls
           /\ Ends(w, w') /\ w'.mem.finalizer = w.mem.finalizer
           /\ \/ SameIds(w.mem, w'.mem)
              \/ \E id \in LoadBalancers :
                    /\ w'.mem.specID = id /\ w'.mem.statusID = id
                    /\ w'.mem.endpoint \in {w.mem.endpoint, id}
                    /\ w.pc = "get" => id = w.vlbID
           /\ w.pc = "get" => lbs' = lbs
           /\ w.pc = "create" =>
                \/ lbs' = lbs /\ Fault
                \/ \E i \in LoadBalancers, ip \in BOOLEAN :
                    /\ lbs[i].place = "free"
                    /\ lbs' = [lbs EXCEPT ![i] = [place |-> "live", ip |-> ip,
                                                  made |-> TRUE]]
                    /\ \/ NoFault /\ w'.mem.specID = i /\ w'.mem.statusID = i
                       \/ Fault
<1>1. w \in Worker
  BY DEF TypeInv, TypeOK
<1>2. CASE GetLoadBalancer
  <2>1. /\ w.pc = "get" /\ lbs' = lbs /\ obj' = obj /\ cache' = cache
        /\ w.vlbID \in LoadBalancers /\ lbs[w.vlbID].ip \in BOOLEAN
    BY <1>2 DEF GetLoadBalancer, Call, TypeInv, TypeOK, WorkerOK, LoadBalancer
  <2>2. "ErrorFetchingLoadBalancer" \in Reasons
    BY DEF Reasons
  <2>3. CASE w' = Recorded(w, w.vlbID, lbs[w.vlbID].ip)
    BY <1>1, <2>1, <2>3, RecordedFacts DEF NormalCalls
  <2>4. CASE w' = Failed(w, "ErrorFetchingLoadBalancer")
    BY <1>1, <2>1, <2>2, <2>4, FailedFacts DEF NormalCalls, SameRecord
  <2> QED BY <1>2, <2>3, <2>4 DEF GetLoadBalancer
<1>3. CASE CreateLoadBalancer
  <2>1. w.pc = "create" /\ obj' = obj /\ cache' = cache
    BY <1>3 DEF CreateLoadBalancer, Call
  <2>2. "ErrorCreatingLoadBalancer" \in Reasons
    BY DEF Reasons
  <2>3. ASSUME NEW i \in LoadBalancers, NEW ip \in BOOLEAN, lbs[i].place = "free",
               lbs' = [lbs EXCEPT ![i] = [place |-> "live", ip |-> ip, made |-> TRUE]],
               NoFault, w' = Recorded(w, i, ip)
        PROVE  /\ Ends(w, w') /\ w'.mem.finalizer = w.mem.finalizer
               /\ w'.mem.specID = i /\ w'.mem.statusID = i
               /\ w'.mem.endpoint \in {w.mem.endpoint, i}
    BY <1>1, <2>3, RecordedFacts
  <2>4. CASE w' = Failed(w, "ErrorCreatingLoadBalancer")
    <3>1. /\ Ends(w, w') /\ w'.mem.finalizer = w.mem.finalizer
          /\ SameIds(w.mem, w'.mem)
      BY <1>1, <2>2, <2>4, FailedFacts DEF SameRecord
    <3>2. \/ lbs' = lbs /\ Fault
          \/ \E i \in LoadBalancers, ip \in BOOLEAN :
                /\ lbs[i].place = "free"
                /\ lbs' = [lbs EXCEPT ![i] = [place |-> "live", ip |-> ip, made |-> TRUE]]
                /\ Fault \/ (NoFault /\ w' = Recorded(w, i, ip))
      BY <1>3 DEF CreateLoadBalancer
    <3> QED BY <2>1, <2>3, <3>1, <3>2 DEF NormalCalls
  <2>5. CASE w' # Failed(w, "ErrorCreatingLoadBalancer")
    <3>1. PICK i \in LoadBalancers, ip \in BOOLEAN :
            /\ lbs[i].place = "free" /\ NoFault
            /\ lbs' = [lbs EXCEPT ![i] = [place |-> "live", ip |-> ip, made |-> TRUE]]
            /\ w' = Recorded(w, i, ip)
      BY <1>3, <2>5 DEF CreateLoadBalancer
    <3> QED BY <2>1, <2>3, <3>1 DEF NormalCalls
  <2> QED BY <2>4, <2>5
<1> QED BY <1>2, <1>3

(* The calls of reconcileDelete.                                            *)
LEMMA DeleteEffect ==
    ASSUME TypeInv, GetForDelete \/ DeleteLoadBalancer
    PROVE  /\ obj' = obj /\ cache' = cache /\ w.pc \in DeleteCalls
           /\ w'.base = w.base /\ w'.stale = w.stale /\ SameIds(w.mem, w'.mem)
           /\ lbs' = lbs \/ lbs' = [lbs EXCEPT ![w.vlbID].place = "deleted"]
           /\ \/ w'.pc = "delete" /\ w'.mem = w.mem
              \/ Ends(w, w') /\ w'.mem = w.mem
              \/ /\ w.pc = "delete" /\ Ends(w, w') /\ Live(w.vlbID)
                 /\ lbs' = [lbs EXCEPT ![w.vlbID].place = "deleted"]
<1>1. w \in Worker
  BY DEF TypeInv, TypeOK
<1>2. CASE GetForDelete
  <2>1. w.pc = "delGet" /\ obj' = obj /\ cache' = cache /\ lbs' = lbs
    BY <1>2 DEF GetForDelete, Call
  <2>2. CASE w' = [w EXCEPT !.pc = "delete"]
    BY <1>1, <2>1, <2>2 DEF Worker, SameIds, DeleteCalls
  <2>3. CASE w' = Returned(w, TRUE)
    BY <1>1, <2>1, <2>3, ReturnedFacts DEF SameIds, DeleteCalls, Ends
  <2> QED BY <1>2, <2>2, <2>3 DEF GetForDelete
<1>3. CASE DeleteLoadBalancer
  <2>1. /\ w.pc = "delete" /\ obj' = obj /\ cache' = cache
        /\ lbs' = lbs \/ lbs' = [lbs EXCEPT ![w.vlbID].place = "deleted"]
    BY <1>3 DEF DeleteLoadBalancer, Call
  <2>2. CASE w' = Returned(w, TRUE)
    BY <1>1, <2>1, <2>2, ReturnedFacts DEF SameIds, DeleteCalls, Ends
  <2>3. CASE w' # Returned(w, TRUE)
    <3> DEFINE k == RemoveFinalizer(w)
    <3>1. /\ k \in Worker /\ k.base = w.base /\ k.stale = w.stale
          /\ SameIds(w.mem, k.mem)
      BY <1>1, RemoveFinalizerFacts
    <3>2. /\ w' = Returned(k, FALSE) /\ Live(w.vlbID)
          /\ lbs' = [lbs EXCEPT ![w.vlbID].place = "deleted"]
      BY <1>3, <2>3 DEF DeleteLoadBalancer
    <3> HIDE DEF k
    <3>3. Ends(k, w') /\ w'.mem = k.mem
      BY <3>1, <3>2, ReturnedFacts
    <3> QED BY <2>1, <3>1, <3>2, <3>3 DEF Ends, DeleteCalls
  <2> QED BY <2>2, <2>3
<1> QED BY <1>2, <1>3

(* What a patch of the metadata and spec, or of the status, makes of the    *)
(* object when it gets through.                                             *)
MetadataWritten ==
    /\ obj'.specID = Merged(obj.specID, w.base.specID, w.mem.specID)
    /\ obj'.endpoint = Merged(obj.endpoint, w.base.endpoint, w.mem.endpoint)
    /\ obj'.finalizer = Merged(obj.finalizer, w.base.finalizer, w.mem.finalizer)
    /\ obj'.phase = IF obj.phase = "deleting" /\ ~obj'.finalizer
                    THEN "finalized" ELSE obj.phase

(* The patches of Close: what each writes, and where it goes on.            *)
LEMMA PatchEffect ==
    ASSUME TypeInv, PatchConditions \/ PatchMetadata \/ PatchStatus
    PROVE  /\ cache' = cache /\ lbs' = lbs /\ w'.base = w.base /\ w'.mem = w.mem
           /\ w'.stale = w.stale
           /\ \/ /\ w.pc = "conditions" /\ SameRecord(obj, obj')
                 /\ obj'.phase = obj.phase
                 /\ w'.pc \in {"metadata", "status", "done"} /\ Skips(w')
              \/ /\ w.pc = "metadata" /\ obj'.statusID = obj.statusID
                 /\ MetadataWritten \/ (obj' = obj /\ (Exists(obj) => Fault))
                 /\ w'.pc \in {"status", "done"}
                 /\ w'.pc = "done" => w.mem.statusID = w.base.statusID
              \/ /\ w.pc = "status" /\ obj'.specID = obj.specID
                 /\ obj'.endpoint = obj.endpoint /\ obj'.finalizer = obj.finalizer
                 /\ obj'.phase = obj.phase
                 /\ \/ obj'.statusID = Merged(obj.statusID, w.base.statusID,
                                              w.mem.statusID)
                    \/ obj' = obj /\ (Exists(obj) => Fault)
                 /\ w'.pc = "done"
<1>1. obj \in Object /\ w \in Worker
  BY DEF TypeInv, TypeOK
<1>2. /\ cache' = cache /\ lbs' = lbs /\ w'.base = w.base /\ w'.mem = w.mem
      /\ w'.stale = w.stale
  BY PatchStep
<1>3. CASE PatchConditions
  <2>1. w.pc = "conditions" /\ w'.pc = AfterConditions(w)
    BY <1>3, PatchStep DEF PatchConditions, Call
  <2>2. SameRecord(obj, obj') /\ obj'.phase = obj.phase
    BY <1>1, <1>3 DEF PatchConditions, Object, SameRecord, SameIds
  <2>3. w'.pc \in {"metadata", "status", "done"} /\ Skips(w')
    BY <1>2, <2>1 DEF AfterConditions, AfterMetadata, Skips
  <2> QED BY <1>2, <2>1, <2>2, <2>3
<1>4. CASE PatchMetadata
  <2>1. w.pc = "metadata" /\ w'.pc = AfterMetadata(w)
    BY <1>4, PatchStep DEF PatchMetadata, Call
  <2>2. \/ obj' = obj /\ (Exists(obj) => Fault)
        \/ obj' = MetadataPatched(obj, w)
    BY <1>4 DEF PatchMetadata, PatchCall
  <2>3. ASSUME obj' = MetadataPatched(obj, w)
        PROVE  MetadataWritten /\ obj'.statusID = obj.statusID
    BY <1>1, <2>3 DEF MetadataPatched, MetadataWritten, Object
  <2> QED BY <1>2, <2>1, <2>2, <2>3 DEF AfterMetadata
<1>5. CASE PatchStatus
  <2>1. w.pc = "status" /\ w'.pc = "done"
    BY <1>5, PatchStep DEF PatchStatus, Call
  <2>2. \/ obj' = obj /\ (Exists(obj) => Fault)
        \/ obj' = StatusPatched(obj, w)
    BY <1>5 DEF PatchStatus, PatchCall
  <2> QED BY <1>1, <1>2, <2>1, <2>2 DEF StatusPatched, Object
<1> QED BY <1>3, <1>4, <1>5

(* What the rest of the steps do to the object, the cache and the worker.   *)
LEMMA RestEffect ==
    ASSUME TypeInv,
           Skip \/ Finish \/ Crash \/ Environment \/ UNCHANGED vars
    PROVE  /\ \/ w' = w
              \/ w' = Idle /\ obj' = obj
           /\ cache' = cache \/ cache' = obj \/ cache' = obj'
           /\ \/ obj' = obj
              \/ /\ cache' = cache /\ w' = w /\ obj.phase = "live"
                 /\ SameIds(obj, obj')
                 /\ obj'.phase = IF obj.finalizer THEN "deleting" ELSE "gone"
                 /\ obj'.finalizer = obj.finalizer
              \/ /\ w.pc = "idle" /\ Spend("mishaps") /\ cache' = obj'
                 /\ obj.phase = "live" /\ obj'.phase = "live"
                 /\ obj'.specID = obj.specID /\ obj'.endpoint = obj.endpoint
                 /\ obj'.statusID = NoLB
           /\ MadeAndLive' \subseteq MadeAndLive
           /\ \A i \in LoadBalancers : Live(i)' => Live(i) /\ lbs'[i].made = lbs[i].made
           /\ w' = Idle => w.pc \in {"idle", "done"} \/ Fault
<1>1. obj \in Object /\ lbs \in [LoadBalancers -> LoadBalancer]
  BY DEF TypeInv, TypeOK
<1>2. CASE \/ Skip \/ Finish \/ Crash \/ CacheSync \/ Event \/ OwnerSet \/ Pause
           \/ Unpause \/ UNCHANGED vars
  <2>1. lbs' = lbs /\ obj' = obj /\ (cache' = cache \/ cache' = obj)
        /\ \/ w' = w
           \/ w' = Idle /\ (w.pc = "done" \/ Fault)
    BY <1>2 DEF Skip, Dequeue, Finish, Call, Crash, CacheSync, Event, OwnerSet,
       Pause, Unpause, vars
  <2>2. w' = w /\ w' = Idle => w.pc = "idle"
    BY IdleType
  <2> QED BY <2>1, <2>2 DEF MadeAndLive, Live
<1>3. CASE DeleteObject
  BY <1>1, <1>3, IdleType DEF DeleteObject, Object, SameIds, MadeAndLive, Live
<1>4. CASE Move
  BY <1>1, <1>4 DEF Move, Object, MadeAndLive, Live
<1>5. ASSUME NEW i \in LoadBalancers, LoadBalancerGetsIP(i) \/ LoadBalancerLost(i)
      PROVE  /\ w' = w /\ obj' = obj /\ cache' = cache
             /\ MadeAndLive' \subseteq MadeAndLive
             /\ \A j \in LoadBalancers : Live(j)' => Live(j) /\ lbs'[j].made = lbs[j].made
  BY <1>1, <1>5 DEF LoadBalancerGetsIP, LoadBalancerLost, MadeAndLive, Live,
     LoadBalancer
<1> QED BY <1>2, <1>3, <1>4, <1>5, IdleType DEF Environment

-----------------------------------------------------------------------------
(* Which load balancer the object names *)

(* At first at most the balancer of the user is named, in the spec.         *)
LEMMA NamesInit == Init => NamesInv
<1> SUFFICES ASSUME Init PROVE NamesInv
  OBVIOUS
<1>1. PICK given \in GivenLBs \cup {NoLB} : obj = NewObject(given) /\ cache = obj
  BY DEF Init
<1>2. w.pc = "idle" /\ obj.endpoint = NoLB
  BY <1>1, IdleType DEF Init, NewObject
<1> QED BY <1>1, <1>2 DEF NamesInv, WorkInv, SpecInv, FreshInv, EndpointHasID,
        NormalCalls, DeleteCalls

(* A reconcile begins with the names it read.                               *)
LEMMA NamesBegin ==
    ASSUME TypeInv, NamesInv, BeginNormal \/ BeginDelete
    PROVE  NamesInv'
<1>1. /\ obj' = obj /\ cache' = cache /\ w'.base = cache /\ SameIds(cache, w'.mem)
      /\ w'.stale = Outdated
  BY BeginEffect
<1>2. WorkInv'
  BY <1>1, BeginEffect DEF WorkInv, Recording, Wanted, Ends, Closing, CloseCalls,
     NormalCalls, DeleteCalls
<1>3. SpecInv'
  BY <1>1 DEF NamesInv, SpecInv, EndpointHasID
<1>4. FreshInv'
  BY <1>1 DEF FreshInv, Outdated, Names
<1> QED BY <1>2, <1>3, <1>4 DEF NamesInv

(* The calls to Vultr record the load balancer that was wanted.             *)
LEMMA NamesVultrCall ==
    ASSUME TypeInv, NamesInv,
           GetLoadBalancer \/ CreateLoadBalancer \/ GetForDelete \/ DeleteLoadBalancer
    PROVE  NamesInv'
<1>1. /\ obj' = obj /\ cache' = cache /\ w.pc \in NormalCalls \cup DeleteCalls
      /\ w'.base = w.base /\ w'.stale = w.stale
      /\ \/ w'.pc = "delete" /\ w'.mem = w.mem
         \/ w'.pc \in Closing /\ Skips(w')
  BY NormalEffect, DeleteEffect DEF Ends
<1>2. SameIds(w.base, w.mem) /\ w.pc # "idle"
  BY <1>1 DEF NamesInv, WorkInv, NormalCalls, DeleteCalls
<1>3. Recording(w'.base, w'.mem)
  <2>1. CASE SameIds(w.mem, w'.mem)
    BY <1>1, <1>2, <2>1 DEF Recording, SameIds
  <2>2. CASE ~SameIds(w.mem, w'.mem)
    <3>1. w.pc \in NormalCalls
      BY <2>2, NormalEffect, DeleteEffect
    <3>2. PICK id \in LoadBalancers :
            /\ w'.mem.specID = id /\ w'.mem.statusID = id
            /\ w'.mem.endpoint \in {w.mem.endpoint, id}
            /\ w.pc = "get" => id = w.vlbID
      BY <2>2, NormalEffect, DeleteEffect
    <3>3. id # NoLB
      BY ConstantsAssumption
    <3>4. Wanted(w.base) # NoLB => id = Wanted(w.base)
      BY <3>1, <3>2 DEF NamesInv, WorkInv, Wanted, NormalCalls
    <3> QED BY <1>1, <1>2, <3>2, <3>3, <3>4 DEF Recording, SameIds
  <2> QED BY <2>1, <2>2
<1>4. WorkInv'
  BY <1>1, <1>2, <1>3 DEF WorkInv, Closing, CloseCalls, NormalCalls, DeleteCalls
<1>5. SpecInv' /\ FreshInv'
  BY <1>1, <1>2 DEF NamesInv, SpecInv, FreshInv, BeforeMetadata
<1> QED BY <1>4, <1>5 DEF NamesInv

(* The patches write what was recorded; the spec keeps its ID.              *)
LEMMA NamesPatch ==
    ASSUME TypeInv, NamesInv, PatchConditions \/ PatchMetadata \/ PatchStatus
    PROVE  NamesInv'
<1> USE DEF NormalCalls, DeleteCalls
<1>1. /\ cache' = cache /\ w'.base = w.base /\ w'.mem = w.mem /\ w'.stale = w.stale
      /\ w.pc \in {"conditions", "metadata", "status"}
      /\ w'.pc \in {"metadata", "status", "done"}
  BY PatchEffect
<1>2. WorkInv' /\ Recording(w.base, w.mem)
  BY <1>1 DEF NamesInv, WorkInv
<1>3. \/ obj'.specID = obj.specID /\ obj'.endpoint = obj.endpoint
      \/ w.pc = "metadata" /\ MetadataWritten
  BY PatchEffect DEF SameRecord, SameIds
<1>4. SpecInv'
  <2>1. CASE obj'.specID = obj.specID /\ obj'.endpoint = obj.endpoint
    BY <1>1, <2>1 DEF NamesInv, SpecInv, EndpointHasID
  <2>2. CASE MetadataWritten
    <3>1. obj.specID # NoLB => obj'.specID # NoLB
      BY <1>2, <2>2 DEF MetadataWritten, Merged, Recording, SameIds
    <3>2. w.base.endpoint # w.mem.endpoint => obj'.specID # NoLB
      <4>1. ASSUME w.base.endpoint # w.mem.endpoint
            PROVE  w.mem.specID # NoLB
        BY <1>2, <4>1 DEF Recording, SameIds
      <4>2. w.base.specID # NoLB => obj.specID # NoLB
        BY <1>1 DEF NamesInv, SpecInv
      <4> QED BY <2>2, <4>1, <4>2 DEF MetadataWritten, Merged
    <3>3. EndpointHasID(obj')
      BY <2>2, <3>1, <3>2 DEF MetadataWritten, Merged, EndpointHasID, NamesInv,
         SpecInv
    <3> QED BY <1>1, <3>1, <3>3 DEF NamesInv, SpecInv
  <2> QED BY <1>3, <2>1, <2>2
<1>5. FreshInv'
  <2> SUFFICES ASSUME ~w.stale PROVE FreshInv'
    BY <1>1 DEF FreshInv
  <2>1. CASE w.pc = "conditions"
    <3>1. SameIds(obj, obj')
      BY <2>1, PatchEffect DEF SameRecord
    <3> QED BY <1>1, <2>1, <3>1 DEF NamesInv, FreshInv, SameIds, BeforeMetadata
  <2>2. CASE w.pc = "metadata"
    <3>1. /\ obj.specID = w.base.specID /\ obj.endpoint = w.base.endpoint
          /\ obj.statusID = w.base.statusID
      BY <2>2 DEF NamesInv, FreshInv, BeforeMetadata
    <3>2. /\ obj'.statusID = obj.statusID /\ w'.pc \in {"status", "done"}
          /\ MetadataWritten \/ obj' = obj
      BY <2>2, PatchEffect
    <3> QED BY <1>1, <3>1, <3>2
            DEF FreshInv, BeforeMetadata, MetadataWritten, Merged
  <2>3. CASE w.pc = "status"
    <3>1. w'.pc = "done"
      BY <2>3, PatchEffect
    <3> QED BY <3>1 DEF FreshInv, BeforeMetadata
  <2> QED BY <1>1, <2>1, <2>2, <2>3
<1> QED BY <1>2, <1>4, <1>5 DEF NamesInv

(* Nobody else names a load balancer; a move forgets the status.            *)
LEMMA NamesRest ==
    ASSUME TypeInv, NamesInv,
           Skip \/ Finish \/ Crash \/ Environment \/ UNCHANGED vars
    PROVE  NamesInv'
<1> USE DEF NormalCalls, DeleteCalls
<1>1. /\ obj'.specID = obj.specID /\ obj'.endpoint = obj.endpoint
      /\ w.pc = "idle" \/ obj'.statusID = obj.statusID
      /\ cache' \in {cache, obj, obj'}
      /\ w' = w \/ (w' = Idle)
  BY RestEffect DEF SameIds
<1>2. w' = Idle => w'.pc = "idle"
  BY IdleType
<1>3. WorkInv'
  BY <1>1, <1>2 DEF NamesInv, WorkInv
<1>4. SpecInv'
  BY <1>1, <1>2 DEF NamesInv, SpecInv, EndpointHasID
<1>5. FreshInv'
  BY <1>1, <1>2 DEF NamesInv, FreshInv, BeforeMetadata
<1> QED BY <1>3, <1>4, <1>5 DEF NamesInv

(* Every step keeps the invariant about names, which holds always.          *)
LEMMA NamesInvariance == Spec => []NamesInv
<1>1. TypeInv /\ NamesInv /\ [Next]_vars => NamesInv'
  BY NamesBegin, NamesVultrCall, NamesPatch, NamesRest DEF Next, Begin, WorkerStep
<1> QED BY <1>1, NamesInit, TypeInvariance, PTL DEF Spec

(* A step that changes a name is a patch, or a move that drops the status.  *)
LEMMA NamesChange ==
    ASSUME TypeInv, [Next]_vars, ~SameIds(obj, obj')
    PROVE  \/ w.pc = "metadata" /\ MetadataWritten /\ obj'.statusID = obj.statusID
           \/ /\ w.pc = "status" /\ obj'.specID = obj.specID
              /\ obj'.endpoint = obj.endpoint
              /\ obj'.statusID = Merged(obj.statusID, w.base.statusID, w.mem.statusID)
           \/ /\ w.pc = "idle" /\ obj'.specID = obj.specID
              /\ obj'.endpoint = obj.endpoint /\ obj'.statusID = NoLB
<1>1. CASE PatchConditions \/ PatchMetadata \/ PatchStatus
  BY <1>1, PatchEffect DEF SameRecord, SameIds
<1>2. CASE Skip \/ Finish \/ Crash \/ Environment \/ UNCHANGED vars
  BY <1>2, RestEffect DEF SameIds
<1>3. CASE \/ BeginNormal \/ BeginDelete
           \/ GetLoadBalancer \/ CreateLoadBalancer \/ GetForDelete \/ DeleteLoadBalancer
  BY <1>3, BeginEffect, NormalEffect, DeleteEffect DEF SameIds
<1> QED BY <1>1, <1>2, <1>3 DEF Next, Begin, WorkerStep

(* Whichever of the patches fail and wherever the manager dies, spec, status*)
(* and endpoint are not made to name two load balancers, but by a reconcile *)
(* from an outdated read.                                                   *)
THEOREM NamesAgree == Spec => OneLoadBalancer
<1>1. TypeInv /\ NamesInv /\ [Next]_vars
        => [OneName(obj) /\ ~w.stale => OneName(obj)']_vars
  <2> SUFFICES ASSUME TypeInv, NamesInv, [Next]_vars, OneName(obj), ~w.stale
               PROVE  OneName(obj)'
    OBVIOUS
  <2>1. CASE SameIds(obj, obj')
    BY <2>1 DEF OneName, SameIds
  <2>2. CASE /\ w.pc = "idle" /\ obj'.specID = obj.specID
             /\ obj'.endpoint = obj.endpoint /\ obj'.statusID = NoLB
    BY <2>2 DEF OneName
  <2>3. CASE w.pc = "metadata" /\ MetadataWritten /\ obj'.statusID = obj.statusID
    <3>1. SameIds(w.base, obj) /\ EndpointHasID(w.base) /\ Recording(w.base, w.mem)
      BY <2>3 DEF NamesInv, FreshInv, WorkInv, SpecInv, SameIds, BeforeMetadata
    <3>2. obj'.specID = w.mem.specID /\ obj'.endpoint = w.mem.endpoint
      BY <2>3, <3>1 DEF MetadataWritten, Merged, SameIds
    <3> QED BY <2>3, <3>1, <3>2
            DEF OneName, Recording, SameIds, EndpointHasID, Wanted
  <2>4. CASE /\ w.pc = "status" /\ obj'.specID = obj.specID
             /\ obj'.endpoint = obj.endpoint
             /\ obj'.statusID = Merged(obj.statusID, w.base.statusID, w.mem.statusID)
    <3>1. /\ obj.statusID = w.base.statusID /\ EndpointHasID(w.base)
          /\ Recording(w.base, w.mem)
          /\ \/ obj.specID = w.base.specID /\ obj.endpoint = w.base.endpoint
             \/ obj.specID = w.mem.specID /\ obj.endpoint = w.mem.endpoint
      BY <2>4 DEF NamesInv, FreshInv, WorkInv, SpecInv
    <3>2. obj'.statusID = w.mem.statusID
      BY <2>4, <3>1 DEF Merged
    <3> QED BY <2>4, <3>1, <3>2
            DEF OneName, Recording, SameIds, EndpointHasID, Wanted
  <2> QED BY <2>1, <2>2, <2>3, <2>4, NamesChange
<1> QED BY <1>1, TypeInvariance, NamesInvariance, PTL DEF Spec, OneLoadBalancer

(* A control plane endpoint that was written is not changed, but by a       *)
(* reconcile from an outdated read or the one that makes up for it.         *)
THEOREM EndpointKept == Spec => EndpointStable
<1>1. TypeInv /\ NamesInv /\ [Next]_vars
        => [obj.endpoint # NoLB /\ OneName(obj) /\ ~w.stale
            => obj'.endpoint = obj.endpoint]_vars
  <2> SUFFICES ASSUME TypeInv, NamesInv, [Next]_vars, obj.endpoint # NoLB,
                      OneName(obj), ~w.stale
               PROVE  obj'.endpoint = obj.endpoint
    OBVIOUS
  <2>1. CASE w.pc = "metadata" /\ MetadataWritten
    <3>1. SameIds(w.base, obj) /\ EndpointHasID(w.base) /\ Recording(w.base, w.mem)
      BY <2>1 DEF NamesInv, FreshInv, WorkInv, SpecInv, SameIds, BeforeMetadata
    <3>2. w.mem.endpoint = obj.endpoint
      BY <3>1 DEF OneName, Recording, SameIds, EndpointHasID, Wanted
    <3> QED BY <2>1, <3>1, <3>2 DEF MetadataWritten, Merged
  <2>2. CASE ~(w.pc = "metadata" /\ MetadataWritten)
    BY <2>2, NamesChange DEF SameIds
  <2> QED BY <2>1, <2>2
<1> QED BY <1>1, TypeInvariance, NamesInvariance, PTL DEF Spec, EndpointStable

(* A load balancer is made only for an object that names none, or that was  *)
(* read before it did: a missing one is never replaced.                     *)
THEOREM NotRecreated == Spec => NeverRecreated
<1>1. TypeInv /\ NamesInv /\ [Next]_vars
        => [\A i \in LoadBalancers :
              (lbs[i].place = "free" /\ lbs'[i].place = "live")
              => w.stale \/ (obj.specID = NoLB /\ obj.statusID = NoLB)]_vars
  <2> SUFFICES ASSUME TypeInv, NamesInv, [Next]_vars, NEW i \in LoadBalancers,
                      lbs[i].place = "free", lbs'[i].place = "live"
               PROVE  w.stale \/ (obj.specID = NoLB /\ obj.statusID = NoLB)
    OBVIOUS
  <2>1. CASE CreateLoadBalancer
    <3>1. w.pc = "create"
      BY <2>1 DEF CreateLoadBalancer, Call
    <3> QED BY <3>1 DEF NamesInv, WorkInv, FreshInv, BeforeMetadata, NormalCalls
  <2>2. CASE \/ BeginNormal \/ BeginDelete \/ GetLoadBalancer
             \/ PatchConditions \/ PatchMetadata \/ PatchStatus
    BY <2>2, BeginEffect, PatchEffect DEF GetLoadBalancer
  <2>3. CASE GetForDelete \/ DeleteLoadBalancer
    BY <2>3, DeleteEffect DEF TypeInv, TypeOK, LoadBalancer
  <2>4. CASE Skip \/ Finish \/ Crash \/ Environment \/ UNCHANGED vars
    <3>1. Live(i)' => Live(i)
      BY <2>4, RestEffect
    <3> QED BY <3>1 DEF Live
  <2> QED BY <2>1, <2>2, <2>3, <2>4 DEF Next, Begin, WorkerStep
<1> QED BY <1>1, TypeInvariance, NamesInvariance, PTL DEF Spec, NeverRecreated

-----------------------------------------------------------------------------
(* How many load balancers are made and left                                *)

(* A new object is not being deleted.                                       *)
LEMMA FinalizerInit == Init => FinalizerInv
<1> SUFFICES ASSUME Init PROVE FinalizerInv
  OBVIOUS
<1>1. PICK given \in GivenLBs \cup {NoLB} : obj = NewObject(given) /\ cache = obj
  BY DEF Init
<1>2. obj.phase = "live" /\ w.pc = "idle"
  BY <1>1, IdleType DEF Init, NewObject
<1> QED BY <1>1, <1>2 DEF FinalizerInv, NormalCalls, DeleteCalls

(* Every step keeps the finalizer on until reconcileDelete takes it off.    *)
LEMMA FinalizerStep ==
    ASSUME TypeInv, FinalizerInv, [Next]_vars
    PROVE  FinalizerInv'
<1> USE DEF NormalCalls, DeleteCalls
<1>1. CASE BeginNormal \/ BeginDelete
  BY <1>1, BeginEffect DEF FinalizerInv, Ends, Closing, CloseCalls
<1>2. CASE \/ GetLoadBalancer \/ CreateLoadBalancer \/ GetForDelete
           \/ DeleteLoadBalancer
  <2>1. /\ obj' = obj /\ cache' = cache
        /\ \/ w'.pc = "delete" /\ w'.mem = w.mem /\ w.pc \in DeleteCalls
           \/ w'.pc \in Closing
    BY <1>2, NormalEffect, DeleteEffect DEF Ends
  <2> QED BY <2>1 DEF FinalizerInv, Closing, CloseCalls
<1>3. CASE PatchConditions \/ PatchMetadata \/ PatchStatus
  <2>1. /\ cache' = cache /\ w'.pc \in {"metadata", "status", "done"}
        /\ \/ obj'.phase = obj.phase /\ obj'.finalizer = obj.finalizer
           \/ MetadataWritten
    BY <1>3, PatchEffect DEF SameRecord
  <2> QED BY <2>1 DEF FinalizerInv, MetadataWritten
<1>4. CASE Skip \/ Finish \/ Crash \/ Environment \/ UNCHANGED vars
  BY <1>4, RestEffect, IdleType DEF FinalizerInv
<1> QED BY <1>1, <1>2, <1>3, <1>4 DEF Next, Begin, WorkerStep

(* What a step adds to the account of what has happened.                    *)
LEMMA Spent ==
    ASSUME TypeInv, BudgetInv
    PROVE  /\ Fault => Faults' = Faults + 1 /\ StaleReads' = StaleReads
                       /\ Mishaps' = Mishaps
           /\ Spend("stale") => Faults' = Faults /\ StaleReads' = StaleReads + 1
                                /\ Mishaps' = Mishaps
           /\ Spend("mishaps") => Faults' = Faults /\ StaleReads' = StaleReads
                                  /\ Mishaps' = Mishaps + 1
           /\ (Spend("pauses") \/ NoFault) =>
                Faults' = Faults /\ StaleReads' = StaleReads /\ Mishaps' = Mishaps
<1>1. /\ budget \in Budget /\ MaxFaults \in Nat /\ MaxStale \in Nat
      /\ MaxMishaps \in Nat
  BY ConstantsAssumption DEF TypeInv, TypeOK, Budget
<1>2. budget.faults \in Nat /\ budget.stale \in Nat /\ budget.mishaps \in Nat
  BY <1>1 DEF Budget
<1>3. /\ Fault => budget' = [budget EXCEPT !.faults = @ - 1]
      /\ Spend("stale") => budget' = [budget EXCEPT !.stale = @ - 1]
      /\ Spend("mishaps") => budget' = [budget EXCEPT !.mishaps = @ - 1]
      /\ Spend("pauses") => budget' = [budget EXCEPT !.pauses = @ - 1]
      /\ NoFault => budget' = budget
  BY DEF Fault, Spend, NoFault
<1> QED BY <1>1, <1>2, <1>3 DEF Faults, StaleReads, Mishaps, Budget

(* Every step spends from one part of the budget, or from none.             *)
LEMMA Spends ==
    ASSUME [Next]_vars
    PROVE  NoFault \/ Fault \/ Spend("stale") \/ Spend("mishaps") \/ Spend("pauses")
BY DEF Next, Begin, Skip, BeginNormal, BeginDelete, Fetch, Dequeue, WorkerStep,
   GetLoadBalancer, CreateLoadBalancer, GetForDelete, DeleteLoadBalancer,
   PatchConditions, PatchMetadata, PatchStatus, PatchCall, Finish, Crash,
   Environment, CacheSync, Event, OwnerSet, Pause, Unpause, DeleteObject, Move,
   LoadBalancerGetsIP, LoadBalancerLost, NoFault, vars

(* A step that makes none keeps the account; a fault or an outdated read    *)
(* pays for one more, and a move for one more that is left behind.          *)
LEMMA Account ==
    ASSUME TypeInv, BudgetInv, [Next]_vars, MadeAndLive' \subseteq MadeAndLive
    PROVE  /\ BudgetInv'
           /\ Owes(0) => Owes(0)' /\ Leaves(0)
           /\ Owes(1) => Owes(1)'
           /\ Leaves(0) => Leaves(0)'
           /\ Leaves(1) => Leaves(1)'
           /\ (Fault \/ Spend("stale")) => (Owes(1) => Owes(0)' /\ Leaves(0)')
           /\ Spend("stale") => (Owes(1) => Leaves(0)') /\ (Leaves(0) => Leaves(1)')
           /\ Spend("mishaps") => (Owes(1) => Leaves(0)')
<1> DEFINE n == Cardinality(MadeAndLive)
           m == Cardinality(MadeAndLive')
<1>1. n \in Nat /\ m \in Nat /\ m <= n /\ IsFiniteSet(MadeAndLive')
  BY FS_CardinalityType, FS_Subset DEF BudgetInv
<1>2. /\ Faults \in Nat /\ StaleReads \in Nat /\ Mishaps \in Nat
  BY DEF BudgetInv
<1>3. /\ Fault => Faults' = Faults + 1 /\ StaleReads' = StaleReads
                  /\ Mishaps' = Mishaps
      /\ Spend("stale") => Faults' = Faults /\ StaleReads' = StaleReads + 1
                           /\ Mishaps' = Mishaps
      /\ Spend("mishaps") => Faults' = Faults /\ StaleReads' = StaleReads
                             /\ Mishaps' = Mishaps + 1
      /\ (Spend("pauses") \/ NoFault) =>
            Faults' = Faults /\ StaleReads' = StaleReads /\ Mishaps' = Mishaps
  BY Spent
<1>4. NoFault \/ Fault \/ Spend("stale") \/ Spend("mishaps") \/ Spend("pauses")
  BY Spends
<1>5. BudgetInv'
  BY <1>1, <1>2, <1>3, <1>4 DEF BudgetInv
<1>6. /\ \A k : Owes(k) <=> n <= k + Faults + StaleReads
      /\ \A k : Owes(k)' <=> m <= k + Faults' + StaleReads'
      /\ \A k : Leaves(k) <=> k + n <= Faults + StaleReads + Mishaps
      /\ \A k : Leaves(k)' <=> k + m <= Faults' + StaleReads' + Mishaps'
  BY DEF Owes, Leaves
<1> HIDE DEF n, m
<1> QED BY <1>1, <1>2, <1>3, <1>4, <1>5, <1>6

(* Making one more adds one.                                                *)
LEMMA AccountOfMaking ==
    ASSUME TypeInv, BudgetInv, NEW i, MadeAndLive' = MadeAndLive \cup {i},
           NoFault \/ Fault, Owes(0)
    PROVE  BudgetInv' /\ Owes(1)' /\ (Fault => Owes(0)') /\ (Leaves(1) => Leaves(0)')
<1> DEFINE n == Cardinality(MadeAndLive)
           m == Cardinality(MadeAndLive')
<1>1. n \in Nat /\ m \in Nat /\ m <= n + 1 /\ IsFiniteSet(MadeAndLive')
  <2> DEFINE c == Cardinality(MadeAndLive \cup {i})
  <2>1. IsFiniteSet(MadeAndLive) /\ n \in Nat
    BY FS_CardinalityType DEF BudgetInv
  <2>2. c = IF i \in MadeAndLive THEN n ELSE n + 1
    BY <2>1, FS_AddElement
  <2>3. IsFiniteSet(MadeAndLive \cup {i})
    BY <2>1, FS_AddElement
  <2>4. m = c /\ IsFiniteSet(MadeAndLive')
    BY <2>3
  <2> HIDE DEF c, n, m
  <2>5. c \in {n, n + 1}
    BY <2>2
  <2> QED BY <2>1, <2>4, <2>5
<1>2. /\ Faults \in Nat /\ StaleReads \in Nat /\ Mishaps \in Nat
  BY DEF BudgetInv
<1>3. /\ Fault => Faults' = Faults + 1 /\ StaleReads' = StaleReads
                  /\ Mishaps' = Mishaps
      /\ NoFault => Faults' = Faults /\ StaleReads' = StaleReads
                    /\ Mishaps' = Mishaps
  BY Spent
<1>4. BudgetInv'
  BY <1>1, <1>2, <1>3 DEF BudgetInv
<1>5. /\ \A k : Owes(k) <=> n <= k + Faults + StaleReads
      /\ \A k : Owes(k)' <=> m <= k + Faults' + StaleReads'
      /\ \A k : Leaves(k) <=> k + n <= Faults + StaleReads + Mishaps
      /\ \A k : Leaves(k)' <=> k + m <= Faults' + StaleReads' + Mishaps'
  BY DEF Owes, Leaves
<1> HIDE DEF n, m
<1> QED BY <1>1, <1>2, <1>3, <1>4, <1>5

(* Deleting the last one leaves what was paid for.                          *)
LEMMA AccountOfDeletion ==
    ASSUME TypeInv, BudgetInv, [Next]_vars, MadeAndLive' \subseteq MadeAndLive,
           NEW i \in MadeAndLive, i \notin MadeAndLive', Owes(1)
    PROVE  Leaves(0)'
<1> DEFINE n == Cardinality(MadeAndLive)
           m == Cardinality(MadeAndLive')
<1>1. n \in Nat /\ m \in Nat /\ m < n
  <2>1. IsFiniteSet(MadeAndLive)
    BY DEF BudgetInv
  <2>2. IsFiniteSet(MadeAndLive') /\ m <= n /\ (n = m => MadeAndLive = MadeAndLive')
    BY <2>1, FS_Subset
  <2>3. n \in Nat /\ m \in Nat
    BY <2>1, <2>2, FS_CardinalityType
  <2> QED BY <2>2, <2>3
<1>2. /\ Faults \in Nat /\ StaleReads \in Nat /\ Mishaps \in Nat
      /\ Faults' \in Nat /\ StaleReads' \in Nat /\ Mishaps' \in Nat
      /\ Faults' >= Faults /\ StaleReads' >= StaleReads
  BY Spends, Spent DEF BudgetInv
<1>3. n <= 1 + Faults + StaleReads
  BY DEF Owes
<1>4. Leaves(0)' <=> 0 + m <= Faults' + StaleReads' + Mishaps'
  BY DEF Leaves
<1> HIDE DEF n, m
<1>5. m <= Faults + StaleReads
  BY <1>1, <1>2, <1>3
<1>6. 0 + m <= Faults' + StaleReads' + Mishaps'
  <2>1. ASSUME NEW f \in Nat, NEW r \in Nat, NEW f1 \in Nat, NEW r1 \in Nat,
               NEW h1 \in Nat, f1 >= f, r1 >= r, m <= f + r
        PROVE  0 + m <= f1 + r1 + h1
    BY <1>1, <2>1
  <2> QED BY <1>2, <1>5, <2>1
<1> QED BY <1>4, <1>6

(* What was paid for may be left.                                           *)
LEMMA OwesLeaves ==
    /\ BudgetInv /\ Owes(0) => Leaves(0)
    /\ BudgetInv' /\ Owes(0)' => Leaves(0)'
<1>1. ASSUME NEW n \in Nat, NEW f \in Nat, NEW s \in Nat, NEW m \in Nat,
             n <= 0 + f + s
      PROVE  0 + n <= f + s + m
  BY <1>1
<1>2. /\ BudgetInv => Cardinality(MadeAndLive) \in Nat
      /\ BudgetInv' => Cardinality(MadeAndLive)' \in Nat
  BY FS_CardinalityType DEF BudgetInv
<1> QED BY <1>1, <1>2 DEF Owes, Leaves, BudgetInv

(* Nothing is made at first.                                                *)
LEMMA CountInit == Init => CountInv
<1> SUFFICES ASSUME Init PROVE CountInv
  OBVIOUS
<1>1. PICK given \in GivenLBs \cup {NoLB} :
        /\ obj = NewObject(given)
        /\ lbs = [i \in LoadBalancers |->
                    [place |-> IF i = given THEN "live" ELSE "free",
                     ip |-> i = given, made |-> FALSE]]
  BY DEF Init
<1>2. MadeAndLive = {} /\ w.pc = "idle" /\ cache = obj
  BY <1>1, IdleType DEF Init, MadeAndLive
<1>3. Faults = 0 /\ StaleReads = 0 /\ Mishaps = 0
  BY ConstantsAssumption DEF Init, Faults, StaleReads, Mishaps
<1>4. IsFiniteSet(MadeAndLive) /\ Cardinality(MadeAndLive) = 0
  BY <1>2, FS_EmptySet
<1>5. BudgetInv /\ OwesInv /\ LeavesInv
  <2>1. Owes(0) /\ Owes(1) /\ Leaves(0)
    BY <1>3, <1>4 DEF Owes, Leaves
  <2> QED BY <1>2, <1>3, <1>4, <2>1 DEF BudgetInv, OwesInv, LeavesInv
<1>6. GivenInv
  <2>1. CASE given = NoLB
    BY <1>1, <2>1, ConstantsAssumption DEF GivenInv, Live
  <2>2. CASE given # NoLB
    BY <1>1, <1>2, <2>2 DEF GivenInv, NewObject
  <2> QED BY <2>1, <2>2
<1> QED BY <1>5, <1>6 DEF CountInv

(* The spec keeps its ID.                                                   *)
LEMMA SpecKept ==
    ASSUME TypeInv, NamesInv, [Next]_vars, obj.specID # NoLB
    PROVE  obj'.specID # NoLB
<1>1. CASE SameIds(obj, obj')
  BY <1>1 DEF SameIds
<1>2. CASE w.pc = "metadata" /\ MetadataWritten
  BY <1>2 DEF NamesInv, WorkInv, Recording, SameIds, MetadataWritten, Merged
<1> QED BY <1>1, <1>2, NamesChange

(* Every step keeps the account of what was made: the last load balancer is *)
(* in the worker's hand or named by the object.                             *)
LEMMA CountStep ==
    ASSUME TypeInv, NamesInv, FinalizerInv, CountInv, [Next]_vars
    PROVE  CountInv'
<1> USE DEF NormalCalls, DeleteCalls, BeforeMetadata, Closing, CloseCalls
<1>1. /\ BudgetInv /\ OwesInv /\ GivenInv /\ LeavesInv
      /\ Owes(1) /\ (Owes(0) => Leaves(0))
  <2>1. BudgetInv /\ OwesInv /\ GivenInv /\ LeavesInv
    BY DEF CountInv
  <2>2. Owes(0) => Leaves(0)
    BY <2>1, OwesLeaves
  <2> QED BY <2>1, <2>2 DEF OwesInv
<1>2. obj.specID # NoLB => obj'.specID # NoLB
  BY SpecKept
<1>3. CASE BeginNormal \/ BeginDelete
  <2>1. /\ obj' = obj /\ cache' = cache /\ lbs' = lbs /\ w.pc = "idle"
        /\ Exists(cache) /\ w'.base = cache /\ SameIds(cache, w'.mem)
        /\ IF Outdated THEN Spend("stale") ELSE NoFault
        /\ w'.pc = "create" => cache.specID = NoLB /\ cache.statusID = NoLB
        /\ (w'.pc \in {"conditions", "metadata"}) => cache.statusID = NoLB
    BY <1>3, BeginEffect DEF Ends
  <2>2. MadeAndLive' = MadeAndLive
    BY <2>1 DEF MadeAndLive, Live
  <2>3. /\ BudgetInv' /\ Owes(1)'
        /\ Owes(0) => Owes(0)'
        /\ Leaves(0) => Leaves(0)'
        /\ Spend("stale") => Owes(0)' /\ Leaves(0)' /\ (Leaves(0) => Leaves(1)')
    BY <1>1, <2>2, Account
  <2>4. ~Outdated => /\ cache.specID = obj.specID /\ cache.statusID = obj.statusID
                     /\ Exists(obj)
    BY <2>1 DEF Outdated, Names, Exists
  <2>5. OwesInv'
    BY <1>1, <2>1, <2>3, <2>4 DEF OwesInv
  <2>6. LeavesInv'
    <3>1. CASE Outdated
      BY <1>1, <2>1, <2>3, <3>1 DEF LeavesInv
    <3>2. CASE ~Outdated
      <4>1. obj.phase # "finalized"
        BY <2>4, <3>2 DEF Exists
      <4> QED BY <1>1, <2>1, <2>3, <2>4, <3>2, <4>1 DEF LeavesInv
    <3> QED BY <3>1, <3>2
  <2>7. GivenInv'
    BY <1>1, <2>1, <2>2 DEF GivenInv, Live
  <2> QED BY <2>3, <2>5, <2>6, <2>7 DEF CountInv
<1>4. CASE GetLoadBalancer \/ GetForDelete \/ DeleteLoadBalancer
  <2>1. /\ obj' = obj /\ cache' = cache /\ w'.base = w.base
        /\ w.pc \in {"get", "delGet", "delete"}
        /\ \/ w'.pc = "delete" /\ w'.mem = w.mem
           \/ w'.pc \in Closing /\ Skips(w')
        /\ lbs' = lbs \/ lbs' = [lbs EXCEPT ![w.vlbID].place = "deleted"]
    <3>1. CASE GetLoadBalancer
      <4>1. w.pc = "get" /\ lbs' = lbs
        BY <3>1 DEF GetLoadBalancer, Call
      <4> QED BY <3>1, <4>1, NormalEffect DEF Ends
    <3>2. CASE GetForDelete \/ DeleteLoadBalancer
      BY <3>2, DeleteEffect DEF Ends, Skips
    <3> QED BY <1>4, <3>1, <3>2
  <2>2. MadeAndLive' \subseteq MadeAndLive
    BY <2>1 DEF MadeAndLive, Live, TypeInv, TypeOK, LoadBalancer
  <2>3. /\ BudgetInv' /\ Owes(1)'
        /\ Owes(0) => Owes(0)'
        /\ Leaves(0) => Leaves(0)'
    BY <1>1, <2>2, Account
  <2>4. SameIds(w.base, w.mem)
    BY <2>1 DEF NamesInv, WorkInv
  <2>5. OwesInv'
    BY <1>1, <2>1, <2>3, <2>4 DEF OwesInv, Skips, SameIds
  <2>6. (w'.pc \in {"conditions", "metadata"} /\ ~w'.mem.finalizer) => Leaves(0)'
    <3>1. CASE w'.mem.finalizer = w.mem.finalizer
      BY <2>1, <3>1 DEF FinalizerInv
    <3>2. CASE w'.mem.finalizer # w.mem.finalizer
      <4>1. /\ w.pc = "delete" /\ Live(w.vlbID) /\ w.vlbID \in LoadBalancers
            /\ lbs' = [lbs EXCEPT ![w.vlbID].place = "deleted"]
        BY <1>4, <3>2, NormalEffect, DeleteEffect DEF TypeInv, WorkerOK
      <4>2. w.vlbID \notin MadeAndLive'
        BY <4>1 DEF MadeAndLive, Live, TypeInv, TypeOK, LoadBalancer
      <4>3. CASE lbs[w.vlbID].made
        <5>1. w.vlbID \in MadeAndLive
          BY <4>1, <4>3 DEF MadeAndLive
        <5> QED BY <1>1, <2>2, <2>3, <4>2, <5>1, AccountOfDeletion
      <4>4. CASE ~lbs[w.vlbID].made
        <5>1. MadeAndLive = {}
          BY <1>1, <4>1, <4>4 DEF GivenInv
        <5>2. Owes(0)
          BY <1>1, <5>1, FS_EmptySet DEF Owes, BudgetInv
        <5> QED BY <1>1, <2>3, <5>2
      <4> QED BY <4>3, <4>4
    <3> QED BY <3>1, <3>2
  <2>7. LeavesInv'
    BY <1>1, <2>1, <2>3, <2>4, <2>6 DEF LeavesInv, Skips, SameIds
  <2>8. GivenInv'
    <3>1. \A i \in LoadBalancers : Live(i)' => Live(i) /\ lbs'[i].made = lbs[i].made
      BY <2>1 DEF Live, TypeInv, TypeOK, LoadBalancer
    <3> QED BY <1>1, <2>1, <2>2, <3>1 DEF GivenInv
  <2> QED BY <2>3, <2>5, <2>7, <2>8 DEF CountInv
<1>5. CASE CreateLoadBalancer
  <2>1. /\ w.pc = "create" /\ obj' = obj /\ cache' = cache /\ w'.base = w.base
        /\ Ends(w, w') /\ w'.mem.finalizer
    BY <1>5, NormalEffect DEF CreateLoadBalancer, Call, Ends, FinalizerInv
  <2>2. /\ w.base.specID = NoLB /\ w.base.statusID = NoLB /\ Owes(0)
        /\ obj.phase = "finalized" => Leaves(1)
        /\ SameIds(w.base, w.mem)
    BY <1>1, <2>1 DEF NamesInv, WorkInv, OwesInv, LeavesInv
  <2>3. \A i \in LoadBalancers : Live(i) => lbs[i].made
    BY <1>1, <2>1, <2>2 DEF GivenInv
  <2>4. CASE lbs' = lbs /\ Fault
    <3>1. MadeAndLive' = MadeAndLive
      BY <2>4 DEF MadeAndLive, Live
    <3>2. BudgetInv' /\ Owes(1)' /\ Owes(0)' /\ Leaves(0)'
      BY <1>1, <2>2, <2>4, <3>1, Account
    <3>3. OwesInv' /\ LeavesInv'
      BY <2>1, <3>2 DEF OwesInv, LeavesInv, Ends
    <3>4. GivenInv'
      BY <2>3, <2>4 DEF GivenInv, Live
    <3> QED BY <3>2, <3>3, <3>4 DEF CountInv
  <2>5. CASE ~(lbs' = lbs /\ Fault)
    <3>1. PICK i \in LoadBalancers, ip \in BOOLEAN :
            /\ lbs' = [lbs EXCEPT ![i] = [place |-> "live", ip |-> ip, made |-> TRUE]]
            /\ \/ NoFault /\ w'.mem.specID = i /\ w'.mem.statusID = i
               \/ Fault
      BY <1>5, <2>1, <2>5, NormalEffect
    <3>2. MadeAndLive' = MadeAndLive \cup {i}
      BY <3>1 DEF MadeAndLive, Live, TypeInv, TypeOK
    <3>3. /\ BudgetInv' /\ Owes(1)' /\ (Fault => Owes(0)')
          /\ (Leaves(1) => Leaves(0)')
      BY <1>1, <2>2, <3>1, <3>2, AccountOfMaking
    <3>4. Fault => Leaves(0)'
      BY <3>3, OwesLeaves
    <3>5. NoFault /\ ~Fault => /\ w'.mem.specID # w'.base.specID
                               /\ w'.mem.statusID # w'.base.statusID
                               /\ w'.pc \in {"conditions", "metadata"}
      BY <2>1, <2>2, <3>1, ConstantsAssumption DEF Ends, Skips
    <3>6. OwesInv'
      BY <2>1, <3>1, <3>3, <3>5 DEF OwesInv, Ends
    <3>7. LeavesInv'
      BY <2>1, <2>2, <3>1, <3>3, <3>4, <3>5 DEF LeavesInv, Ends
    <3>8. GivenInv'
      BY <2>3, <3>1 DEF GivenInv, Live, TypeInv, TypeOK
    <3> QED BY <3>3, <3>6, <3>7, <3>8 DEF CountInv
  <2> QED BY <2>4, <2>5
<1>6. CASE PatchConditions \/ PatchMetadata \/ PatchStatus
  <2>1. /\ cache' = cache /\ lbs' = lbs /\ w'.base = w.base /\ w'.mem = w.mem
        /\ w.pc \in CloseCalls /\ w'.pc \in {"metadata", "status", "done"}
        /\ w'.pc = "metadata" => w.pc = "conditions"
    BY <1>6, PatchEffect
  <2>2. MadeAndLive' = MadeAndLive
    BY <2>1 DEF MadeAndLive, Live
  <2>3. /\ BudgetInv' /\ Owes(1)'
        /\ Owes(0) => Owes(0)'
        /\ Leaves(0) => Leaves(0)'
        /\ Fault => Owes(0)' /\ Leaves(0)'
    BY <1>1, <2>2, Account
  <2>4. Recording(w.base, w.mem)
    BY <2>1 DEF NamesInv, WorkInv
  <2>5. Exists(obj') => Exists(obj)
    BY <1>6, PatchEffect DEF Exists, MetadataWritten
  <2>6. OwesInv'
    <3>1. CASE w.pc = "conditions"
      BY <1>1, <1>6, <2>1, <2>3, <2>5, <3>1, PatchEffect
      DEF OwesInv, SameRecord, SameIds, Skips
    <3>2. CASE w.pc = "metadata"
      <4>1. /\ w'.pc \in {"status", "done"}
            /\ MetadataWritten \/ (obj' = obj /\ (Exists(obj) => Fault))
        BY <1>6, <3>2, PatchEffect
      <4>2. MetadataWritten /\ obj'.specID = NoLB =>
                obj.specID = NoLB /\ w.mem.specID = w.base.specID
        BY <2>4 DEF MetadataWritten, Merged, Recording, SameIds
      <4> QED BY <1>1, <2>1, <2>3, <2>5, <3>2, <4>1, <4>2 DEF OwesInv
    <3>3. CASE w.pc = "status"
      BY <1>1, <1>6, <2>1, <2>3, <2>5, <3>3, PatchEffect DEF OwesInv
    <3> QED BY <2>1, <3>1, <3>2, <3>3
  <2>7. obj'.phase = "finalized" => Leaves(0)'
    <3>1. CASE obj'.phase = obj.phase
      BY <1>1, <2>3, <3>1 DEF LeavesInv
    <3>2. CASE obj'.phase # obj.phase
      <4>1. w.pc = "metadata" /\ MetadataWritten
        BY <1>6, <3>2, PatchEffect
      <4>2. obj.phase = "deleting" /\ ~obj'.finalizer
        BY <3>2, <4>1 DEF MetadataWritten
      <4>3. ~w.mem.finalizer
        BY <4>1, <4>2 DEF FinalizerInv, MetadataWritten, Merged
      <4> QED BY <1>1, <2>3, <4>1, <4>3 DEF LeavesInv
    <3> QED BY <3>1, <3>2
  <2>8. (Exists(obj') /\ obj'.statusID = NoLB
         /\ (w'.pc \in {"conditions", "metadata", "status"}
             => w'.mem.statusID = w'.base.statusID)) => Leaves(0)'
    <3>1. CASE w.pc = "conditions"
      BY <1>1, <1>6, <2>1, <2>3, <2>5, <3>1, PatchEffect
      DEF LeavesInv, SameRecord, SameIds, Skips
    <3>2. CASE w.pc = "metadata"
      BY <1>1, <1>6, <2>1, <2>3, <2>5, <3>2, PatchEffect DEF LeavesInv
    <3>3. CASE w.pc = "status"
      <4>1. /\ w'.pc = "done"
            /\ \/ obj'.statusID = Merged(obj.statusID, w.base.statusID, w.mem.statusID)
               \/ obj' = obj /\ (Exists(obj) => Fault)
        BY <1>6, <3>3, PatchEffect
      <4>2. Merged(obj.statusID, w.base.statusID, w.mem.statusID) = NoLB =>
                obj.statusID = NoLB /\ w.mem.statusID = w.base.statusID
        BY <2>4 DEF Merged, Recording, SameIds
      <4> QED BY <1>1, <2>1, <2>3, <2>5, <3>3, <4>1, <4>2 DEF LeavesInv
    <3> QED BY <2>1, <3>1, <3>2, <3>3
  <2>9. LeavesInv'
    BY <1>1, <2>1, <2>3, <2>7, <2>8 DEF LeavesInv
  <2>10. GivenInv'
    BY <1>1, <1>2, <2>1, <2>2 DEF GivenInv, Live
  <2> QED BY <2>3, <2>6, <2>9, <2>10 DEF CountInv
<1>7. CASE Skip \/ Finish \/ Crash \/ Environment \/ UNCHANGED vars
  <2>1. /\ w' = w \/ (w' = Idle /\ obj' = obj)
        /\ w' = Idle => w.pc \in {"idle", "done"} \/ Fault
        /\ cache' \in {cache, obj, obj'}
        /\ \/ obj'.specID = obj.specID /\ obj'.statusID = obj.statusID
           \/ w.pc = "idle" /\ Spend("mishaps") /\ obj'.specID = obj.specID
        /\ Exists(obj') => Exists(obj)
        /\ obj'.phase = "finalized" => obj.phase = "finalized"
    BY <1>7, RestEffect DEF SameIds, Exists
  <2>2. MadeAndLive' \subseteq MadeAndLive
    BY <1>7, RestEffect
  <2>3. /\ BudgetInv' /\ Owes(1)'
        /\ Owes(0) => Owes(0)'
        /\ Leaves(0) => Leaves(0)'
        /\ Leaves(1) => Leaves(1)'
        /\ Fault => Owes(0)' /\ Leaves(0)'
        /\ Spend("mishaps") => Leaves(0)'
    BY <1>1, <2>2, Account
  <2>4. Idle.pc = "idle"
    BY IdleType
  <2>5. OwesInv'
    BY <1>1, <2>1, <2>3, <2>4 DEF OwesInv
  <2>6. LeavesInv'
    BY <1>1, <2>1, <2>3, <2>4 DEF LeavesInv
  <2>7. GivenInv'
    <3>1. \A i \in LoadBalancers : Live(i)' => Live(i) /\ lbs'[i].made = lbs[i].made
      BY <1>7, RestEffect
    <3> QED BY <1>1, <1>2, <2>1, <2>2, <2>4, <3>1 DEF GivenInv
  <2> QED BY <2>3, <2>5, <2>6, <2>7 DEF CountInv
<1> QED BY <1>3, <1>4, <1>5, <1>6, <1>7 DEF Next, Begin, WorkerStep

(* The account is kept always.                                              *)
LEMMA CountInvariance == Spec => []CountInv
<1>1. TypeInv /\ NamesInv /\ FinalizerInv /\ CountInv /\ [Next]_vars
        => FinalizerInv' /\ CountInv'
  BY FinalizerStep, CountStep
<1> QED BY <1>1, FinalizerInit, CountInit, TypeInvariance, NamesInvariance, PTL
        DEF Spec

(* The cluster never pays for more than one load balancer and one for each  *)
(* call that failed, crash and outdated read, whatever is paused, moved or  *)
(* deleted meanwhile.                                                       *)
THEOREM MakesAtMostOneMore == Spec => []OneMorePerFault
<1>1. CountInv => OneMorePerFault
  BY DEF CountInv, OwesInv, Owes, OneMorePerFault
<1> QED BY <1>1, CountInvariance, PTL

(* ClusterFinalizer keeps the object until no more load balancers are left  *)
(* than there were failed calls, crashes, outdated reads and moves.         *)
THEOREM FinalizerHolds == Spec => []LeavesOnePerFault
<1>1. CountInv => LeavesOnePerFault
  <2> SUFFICES ASSUME CountInv, obj.phase = "finalized"
               PROVE  Cardinality(MadeAndLive) <= Faults + StaleReads + Mishaps
    BY DEF LeavesOnePerFault
  <2>1. Leaves(0) /\ Cardinality(MadeAndLive) \in Nat
    BY FS_CardinalityType DEF CountInv, LeavesInv, BudgetInv
  <2> QED BY <2>1 DEF Leaves
<1> QED BY <1>1, CountInvariance, PTL

=============================================================================
