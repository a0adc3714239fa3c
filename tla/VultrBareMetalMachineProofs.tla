--------------------- MODULE VultrBareMetalMachineProofs --------------------
(* Theorems about VultrBareMetalMachine, for every set of machines and of   *)
(* server IDs, every naming, and every bound on faults, mishaps and pauses. *)
EXTENDS VultrBareMetalMachine, TLAPS

NormalCalls == {"get", "list", "create", "vpcList", "vpcAttach", "lbGet", "lbUpdate"}
DeleteCalls == {"rmGet", "rmUpdate", "delete", "delList", "delRemaining"}
CloseCalls  == {"conditions", "metadata", "status"}
Closing     == CloseCalls \cup {"done"}

(* The calls about a server that was made for the machine.                  *)
ServerCalls == {"vpcList", "vpcAttach", "lbGet", "lbUpdate", "rmGet", "rmUpdate",
                "delete"}

-----------------------------------------------------------------------------
(* Inductive invariants *)

(* The worker has a machine and a server whenever its call uses one.        *)
WorkerOK ==
    /\ w.pc # "idle" => w.m \in Machines
    /\ w.pc = "get" => w.mem.providerID \in ServerIDs
    /\ w.pc \in ServerCalls \cup {"delRemaining"} => w.id \in ServerIDs

TypeInv == TypeOK /\ WorkerOK

(* The cache is behind the object, never ahead of it; and what lets an      *)
(* object go is a reconcile that has read it as being deleted.              *)
CacheInv ==
    \A m \in Machines :
        /\ obj[m].phase = "deleting" => obj[m].finalizer
        /\ cache[m].phase = "deleting" => cache[m].finalizer
        /\ cache[m].phase # "live" => obj[m].phase # "live"
        /\ obj[m].phase = "finalized" => cache[m].phase # "live"

(* Which path of Reconcile the worker is on, and what it knows there.       *)
PathInv ==
    /\ w.pc # "idle" =>
        /\ Exists(w.base)
        /\ w.base.phase = "deleting" => w.base.finalizer /\ cache[w.m].phase # "live"
        /\ w.base.phase = "live" => obj[w.m].phase # "finalized"
    /\ w.pc \in NormalCalls => w.base.phase = "live" /\ w.mem.finalizer
    /\ w.pc \in DeleteCalls => w.base.phase = "deleting" /\ w.mem.finalizer
    /\ w.pc = "create" => Own(w.m) = {}
    /\ (w.pc \in CloseCalls /\ ~w.mem.finalizer)
        => w.base.phase = "deleting" /\ Own(w.m) = {}

(* MachineLifecycle as an invariant.                                        *)
HeldInv ==
    \A m \in Machines : /\ \A i, j \in Own(m) : i = j
                        /\ obj[m].phase = "finalized" => Own(m) = {}

LifeInv == CacheInv /\ PathInv /\ HeldInv

(* A server that was ever made has a maker.                                 *)
MakerInv ==
    \A i \in ServerIDs : IF srv[i].place = "free" THEN srv[i].maker = NoMachine
                                                  ELSE srv[i].maker \in Machines \cup Foreign

(* A provider ID is the ID of a server that was made for the machine.       *)
HasOwnID(o, m) == o.providerID # NoID => srv[o.providerID].maker = m

IdInv ==
    /\ \A m \in Machines : HasOwnID(obj[m], m) /\ HasOwnID(cache[m], m)
    /\ w.pc # "idle" => HasOwnID(w.base, w.m) /\ HasOwnID(w.mem, w.m)
    /\ w.pc \in ServerCalls \cup {"delRemaining"} => srv[w.id].maker = w.m

(* The servers that are members because this controller made them members.  *)
Settled == (lb.members \cap ServerIDs) \ lb.undone

(* The list of members that the worker writes back lacks no such server,    *)
(* and a server is deleted once it is off the list, or where it stays by    *)
(* design, or was put back.                                                 *)
MemberInv ==
    /\ w.pc \in {"lbUpdate", "rmUpdate"} => Settled \subseteq w.seen
    /\ w.pc = "rmGet" => w.seen = {}
    /\ w.pc = "delete" => w.seen \in {{}, {w.id}} \/ w.id \notin Settled

Connected(m) ==
    \E i \in ServerIDs : /\ srv[i].maker = m
                         /\ m \in WantsVPC => srv[i].vpc = "attached"
                         /\ m \in ControlPlane => i \in lb.members \cup lb.undone

(* What the reconcile is about to report as provisioned is connected.       *)
ConnectedInv ==
    /\ \A m \in Machines : cache[m].provisioned => obj[m].provisioned
    /\ w.pc # "idle" =>
        /\ w.base.provisioned => w.mem.provisioned /\ obj[w.m].provisioned
        /\ (w.mem.provisioned /\ obj[w.m].phase = "live") => Connected(w.m)
    /\ (w.pc \in {"lbGet", "lbUpdate"} /\ w.m \in WantsVPC) => srv[w.id].vpc = "attached"
    /\ \A m \in Machines : (obj[m].provisioned /\ obj[m].phase = "live") => Connected(m)

(* A reconcile that may set the Ready condition of a live object has not    *)
(* read a terminal failure.                                                 *)
StickyInv ==
    (w.pc \in NormalCalls \cup CloseCalls /\ w.base.phase = "live")
        => w.base.reason \notin TerminalReasons

-----------------------------------------------------------------------------
(* What the local code between two calls does to the worker's record.       *)

(* r is the same reconcile as k, with the same server in hand.              *)
Same(k, r) ==
    /\ r \in Worker /\ r.m = k.m /\ r.base = k.base /\ r.id = k.id
    /\ r.mem.finalizer = k.mem.finalizer
    /\ r.mem.providerID = k.mem.providerID

(* Its body has returned.                                                   *)
Ended(k, r) == Same(k, r) /\ r.pc \in Closing

(* Returned ends the reconcile on a call of Close, or on none.              *)
LEMMA ReturnedFacts ==
    ASSUME NEW k \in Worker, NEW retry \in BOOLEAN
    PROVE  Ended(k, Returned(k, retry)) /\ Returned(k, retry).mem = k.mem
<1>1. ClosePC(k) \in Closing /\ ClosePC(k) \in Calls
  BY DEF AfterMetadata, AfterConditions, ClosePC, Closing, CloseCalls, Calls
<1> QED BY <1>1 DEF Returned, Worker, Same, Ended

(* Setting the Ready condition changes no other field.                      *)
LEMMA SetReadyConditionFacts ==
    ASSUME NEW k \in Worker, NEW reason \in Reasons
    PROVE  LET r == SetReadyCondition(k, reason) IN
           /\ Same(k, r) /\ r.pc = k.pc /\ r.seen = k.seen
           /\ r.mem.provisioned = k.mem.provisioned
  BY DEF SetReadyCondition, Worker, Object, Same

(* A return with a condition.                                               *)
LEMMA ReturnedReasonFacts ==
    ASSUME NEW k \in Worker, NEW reason \in Reasons, NEW retry \in BOOLEAN
    PROVE  LET r == Returned(SetReadyCondition(k, reason), retry) IN
           Ended(k, r) /\ r.mem.provisioned = k.mem.provisioned
<1> DEFINE s == SetReadyCondition(k, reason)
<1>1. s \in Worker /\ Same(k, s) /\ s.mem.provisioned = k.mem.provisioned
  BY SetReadyConditionFacts DEF Same
<1> HIDE DEF s
<1>2. Ended(s, Returned(s, retry)) /\ Returned(s, retry).mem = s.mem
  BY <1>1, ReturnedFacts
<1>3. Ended(k, Returned(s, retry)) /\ Returned(s, retry).mem.provisioned = k.mem.provisioned
  BY <1>1, <1>2 DEF Same, Ended
<1> QED BY <1>3 DEF s

(* A waiting return.                                                        *)
LEMMA WaitingFacts ==
    ASSUME NEW k \in Worker, NEW reason \in Reasons
    PROVE  Ended(k, Waiting(k, reason))
           /\ Waiting(k, reason).mem.provisioned = k.mem.provisioned
  BY ReturnedReasonFacts DEF Waiting

(* A terminal failure leaves provisioned alone.                             *)
LEMMA TerminalFacts ==
    ASSUME NEW k \in Worker, NEW reason \in Reasons
    PROVE  LET r == Returned(SetTerminalFailure(k, reason), FALSE) IN
           Ended(k, r) /\ r.mem.provisioned = k.mem.provisioned
<1> DEFINE s == SetReadyCondition(k, reason)
           t == SetTerminalFailure(k, reason)
<1>1. s \in Worker /\ Same(k, s) /\ s.mem.provisioned = k.mem.provisioned
  BY SetReadyConditionFacts DEF Same
<1>2. t = [s EXCEPT !.mem.ready = FALSE]
  BY DEF SetTerminalFailure
<1> HIDE DEF s, t
<1>3. t \in Worker /\ Same(k, t) /\ t.mem.provisioned = k.mem.provisioned
  BY <1>1, <1>2 DEF Worker, Object, Same
<1>4. Ended(t, Returned(t, FALSE)) /\ Returned(t, FALSE).mem = t.mem
  BY <1>3, ReturnedFacts
<1>5. Ended(k, Returned(t, FALSE)) /\ Returned(t, FALSE).mem.provisioned = k.mem.provisioned
  BY <1>3, <1>4 DEF Same, Ended
<1> QED BY <1>5 DEF t

(* The one return that reports the machine as provisioned.                  *)
LEMMA ActivatedFacts ==
    ASSUME NEW k \in Worker
    PROVE  Ended(k, Activated(k)) /\ Activated(k).mem.provisioned
<1> DEFINE s == SetReadyCondition(k, "ServerActive")
           t == [s EXCEPT !.mem.ready = TRUE, !.mem.provisioned = TRUE]
<1>1. s \in Worker /\ Same(k, s)
  BY SetReadyConditionFacts DEF Same, Reasons
<1> HIDE DEF s
<1>2. t \in Worker /\ Same(k, t) /\ t.mem.provisioned
  BY <1>1 DEF Worker, Object, Same
<1> HIDE DEF t
<1>3. Ended(t, Returned(t, FALSE)) /\ Returned(t, FALSE).mem = t.mem
  BY <1>2, ReturnedFacts
<1>4. Ended(k, Returned(t, FALSE)) /\ Returned(t, FALSE).mem.provisioned
  BY <1>2, <1>3 DEF Same, Ended
<1> QED BY <1>4 DEF Activated, s, t

(* Only a machine that is not of the control plane is done at once.         *)
LEMMA JoinFacts ==
    ASSUME NEW k \in Worker
    PROVE  LET r == Join(k) IN
           /\ Same(k, r) /\ r.pc \in Closing \cup {"lbGet"}
           /\ \/ r.mem.provisioned = k.mem.provisioned
              \/ r.mem.provisioned /\ k.m \notin ControlPlane
<1>1. LET r == [k EXCEPT !.pc = "lbGet"] IN
      Same(k, r) /\ r.pc = "lbGet" /\ r.mem.provisioned = k.mem.provisioned
  BY DEF Worker, Calls, Same
<1>2. "WaitingForLoadBalancer" \in Reasons
  BY DEF Reasons
<1> QED BY <1>1, <1>2, ActivatedFacts, WaitingFacts DEF Join, Ended

(* A server that needs no VPC goes on at once.                              *)
LEMMA AttachFacts ==
    ASSUME NEW k \in Worker
    PROVE  LET r == Attach(k) IN
           /\ Same(k, r) /\ r.pc \in Closing \cup {"vpcList", "lbGet"}
           /\ r.pc = "lbGet" => k.m \notin WantsVPC
           /\ \/ r.mem.provisioned = k.mem.provisioned
              \/ r.mem.provisioned /\ k.m \notin WantsVPC \cup ControlPlane
<1>1. LET r == [k EXCEPT !.pc = "vpcList"] IN
      Same(k, r) /\ r.pc = "vpcList" /\ r.mem.provisioned = k.mem.provisioned
  BY DEF Worker, Calls, Same
<1>2. CASE k.m \in WantsVPC
  BY <1>1, <1>2 DEF Attach
<1>3. CASE k.m \notin WantsVPC
  BY <1>3, JoinFacts DEF Attach
<1> QED BY <1>2, <1>3

(* With a server in hand its ID goes into the copy in memory.               *)
LEMMA FoundFacts ==
    ASSUME NEW k \in Worker, NEW i \in ServerIDs, NEW s \in Statuses
    PROVE  LET r == Found(k, i, s) IN
           /\ r \in Worker /\ r.m = k.m /\ r.base = k.base
           /\ r.id = i /\ r.mem.providerID = i
           /\ r.mem.finalizer = k.mem.finalizer
           /\ r.pc \in Closing \cup {"vpcList", "lbGet"}
           /\ r.pc = "lbGet" => k.m \notin WantsVPC
           /\ \/ r.mem.provisioned = k.mem.provisioned
              \/ r.mem.provisioned /\ k.m \notin WantsVPC \cup ControlPlane
<1> DEFINE k1 == [k EXCEPT !.id = i, !.mem.providerID = i]
<1>1. /\ k1 \in Worker /\ k1.m = k.m /\ k1.base = k.base /\ k1.id = i
      /\ k1.mem.providerID = i /\ k1.mem.finalizer = k.mem.finalizer
      /\ k1.mem.provisioned = k.mem.provisioned
  BY DEF Worker, Object, MaybeID
<1>2. Found(k, i, s) = CASE s = "pending" -> Waiting(k1, "ServerPending")
        [] s = "active" -> Attach(k1)
        [] s = "other" -> Returned(SetTerminalFailure(k1, "UnexpectedStatus"), FALSE)
  BY DEF Found
<1> HIDE DEF k1
<1>3. "ServerPending" \in Reasons /\ "UnexpectedStatus" \in Reasons
  BY DEF Reasons
<1>4. CASE s = "pending"
  BY <1>1, <1>2, <1>3, <1>4, WaitingFacts DEF Ended, Same, Closing, CloseCalls
<1>5. CASE s = "active"
  BY <1>1, <1>2, <1>5, AttachFacts DEF Same
<1>6. CASE s = "other"
  <2> DEFINE r == Returned(SetTerminalFailure(k1, "UnexpectedStatus"), FALSE)
  <2>1. Found(k, i, s) = r
    BY <1>2, <1>6
  <2>2. Ended(k1, r) /\ r.mem.provisioned = k1.mem.provisioned
    BY <1>1, <1>3, TerminalFacts
  <2> HIDE DEF r
  <2> QED BY <1>1, <2>1, <2>2 DEF Ended, Same, Closing, CloseCalls
<1> QED BY <1>4, <1>5, <1>6 DEF Statuses

(* Taking the finalizer off changes nothing else.                           *)
LEMMA RemoveFinalizerFacts ==
    ASSUME NEW k \in Worker
    PROVE  LET r == Returned(RemoveFinalizer(k), FALSE) IN
           /\ r \in Worker /\ r.m = k.m /\ r.base = k.base /\ r.pc \in Closing
           /\ r.mem.providerID = k.mem.providerID
           /\ r.mem.provisioned = k.mem.provisioned
<1> DEFINE t == RemoveFinalizer(k)
<1>1. /\ t \in Worker /\ t.m = k.m /\ t.base = k.base
      /\ t.mem.providerID = k.mem.providerID
      /\ t.mem.provisioned = k.mem.provisioned
  BY DEF RemoveFinalizer, Worker, Object
<1> HIDE DEF t
<1>2. Ended(t, Returned(t, FALSE)) /\ Returned(t, FALSE).mem = t.mem
  BY <1>1, ReturnedFacts
<1>3. LET r == Returned(t, FALSE) IN
      /\ r \in Worker /\ r.m = k.m /\ r.base = k.base /\ r.pc \in Closing
      /\ r.mem.providerID = k.mem.providerID
      /\ r.mem.provisioned = k.mem.provisioned
  BY <1>1, <1>2 DEF Same, Ended
<1> QED BY <1>3 DEF t

(* The idle worker is well typed.                                           *)
LEMMA IdleType ==
    NewObject \in Object /\ Idle \in Worker /\ Idle.pc = "idle"
  BY DEF NewObject, Idle, Object, Worker, Phases, Reasons, MaybeID, Calls, Members

(* A new reconcile works on the cached object.                              *)
LEMMA RunFacts ==
    ASSUME TypeOK, NEW m \in Machines
    PROVE  LET r == Run(m) IN
           /\ r \in Worker /\ r.m = m /\ r.base = cache[m] /\ r.mem = cache[m]
           /\ r.pc = "idle" /\ r.seen = {}
<1>1. cache[m] \in Object /\ infra.lbID \in BOOLEAN
  BY DEF TypeOK
<1>2. Idle \in Worker /\ Idle.pc = "idle" /\ Idle.seen = {}
  BY IdleType DEF Idle
<1> HIDE DEF Idle
<1> QED BY <1>1, <1>2 DEF Run, Worker

Budget == [faults : Nat, mishaps : Nat, pauses : Nat]

(* Spending keeps the budget a record of naturals.                          *)
LEMMA BudgetType ==
    ASSUME TypeOK
    PROVE  /\ NoFault => budget' \in Budget
           /\ Fault => budget' \in Budget
           /\ Spend("mishaps") => budget' \in Budget
           /\ Spend("pauses") => budget' \in Budget
           /\ \A reason \in BOOLEAN : FailsIf(reason) => budget' \in Budget
  BY DEF TypeOK, Spend, Fault, NoFault, FailsIf, Budget

-----------------------------------------------------------------------------
(* What the steps of the worker do, as far as the invariants see it.        *)

(* A reconcile begins from the cached object, on one of three paths.        *)
LEMMA BeginEffect ==
    ASSUME TypeInv, NEW m \in Machines,
           BeginPaused(m) \/ BeginNormal(m) \/ BeginDelete(m)
    PROVE  /\ obj' = obj /\ cache' = cache /\ queued' \in SUBSET Machines
           /\ owner' = owner /\ infra' = infra
           /\ srv' = srv /\ lb' = lb /\ budget' = budget
           /\ w.pc = "idle" /\ Exists(cache[m])
           /\ w' \in Worker /\ w'.m = m /\ w'.base = cache[m]
           /\ w'.mem.providerID = cache[m].providerID
           /\ w'.mem.provisioned = cache[m].provisioned
           /\ \/ w'.pc = "paused"
              \/ /\ cache[m].phase = "live" /\ ~HasTerminalFailure(cache[m])
                 /\ w'.pc \in {"get", "list"} \cup Closing /\ w'.mem.finalizer
                 /\ w'.pc = "get" => cache[m].providerID \in ServerIDs
              \/ /\ cache[m].phase = "deleting"
                 /\ w'.mem.finalizer = cache[m].finalizer /\ w'.seen = {}
                 /\ \/ w'.pc = "delList"
                    \/ /\ w'.pc \in {"rmGet", "delete"}
                       /\ w'.id = cache[m].providerID /\ w'.id \in ServerIDs
<1> DEFINE r == Run(m)
<1>1. /\ r \in Worker /\ r.m = m /\ r.base = cache[m] /\ r.mem = cache[m]
      /\ r.pc = "idle" /\ r.seen = {} /\ cache[m] \in Object
      /\ cache[m].providerID \in ServerIDs \cup {NoID}
  BY RunFacts DEF TypeInv, TypeOK, Object, MaybeID
<1> HIDE DEF r
<1>2. /\ obj' = obj /\ cache' = cache /\ queued' \in SUBSET Machines
      /\ owner' = owner /\ infra' = infra
      /\ srv' = srv /\ lb' = lb /\ budget' = budget
      /\ w.pc = "idle" /\ Exists(cache[m])
  BY DEF BeginPaused, BeginNormal, BeginDelete, Dequeue, Call, gates, vultr,
     Unpaused, Linked, TypeInv, TypeOK
<1>3. CASE BeginPaused(m)
  <2>1. w' = [r EXCEPT !.pc = "paused", !.mem.pausedCond = PausedStatus]
    BY <1>3 DEF BeginPaused, r
  <2>2. /\ w' \in Worker /\ w'.m = m /\ w'.base = cache[m] /\ w'.pc = "paused"
        /\ w'.mem.providerID = cache[m].providerID
        /\ w'.mem.provisioned = cache[m].provisioned
    BY <1>1, <2>1 DEF Worker, Calls, Object, PausedStatus
  <2> QED BY <1>2, <2>2
<1>4. CASE BeginNormal(m)
  <2> DEFINE k == [r EXCEPT !.mem.finalizer = TRUE]
  <2>1. /\ k \in Worker /\ k.m = m /\ k.base = cache[m] /\ k.mem.finalizer
        /\ k.mem.providerID = cache[m].providerID
        /\ k.mem.provisioned = cache[m].provisioned
    BY <1>1 DEF Worker, Object
  <2>2. cache[m].phase = "live" /\ ~HasTerminalFailure(cache[m])
    BY <1>4 DEF BeginNormal
  <2> HIDE DEF k
  <2>3. \/ \E reason \in Reasons : w' = Returned(SetReadyCondition(k, reason), FALSE)
        \/ w' = [k EXCEPT !.pc = "get"] /\ k.mem.providerID # NoID
        \/ w' = [k EXCEPT !.pc = "list"]
    BY <1>4 DEF BeginNormal, k, r, Reasons
  <2>4. CASE \E reason \in Reasons : w' = Returned(SetReadyCondition(k, reason), FALSE)
    <3>1. PICK reason \in Reasons : w' = Returned(SetReadyCondition(k, reason), FALSE)
      BY <2>4
    <3>2. Ended(k, w') /\ w'.mem.provisioned = k.mem.provisioned
      BY <2>1, <3>1, ReturnedReasonFacts
    <3> QED BY <1>2, <2>1, <2>2, <3>2 DEF Ended, Same, Closing, CloseCalls
  <2>5. CASE \/ w' = [k EXCEPT !.pc = "get"] /\ k.mem.providerID # NoID
             \/ w' = [k EXCEPT !.pc = "list"]
    <3>1. /\ w' \in Worker /\ w'.m = k.m /\ w'.base = k.base /\ w'.mem = k.mem
          /\ w'.pc \in {"get", "list"}
          /\ w'.pc = "get" => k.mem.providerID # NoID
      BY <2>1, <2>5 DEF Worker, Calls
    <3> QED BY <1>1, <1>2, <2>1, <2>2, <3>1
  <2> QED BY <2>3, <2>4, <2>5
<1>5. CASE BeginDelete(m)
  <2> DEFINE j == [r EXCEPT !.id = cache[m].providerID]
             k == SetReadyCondition(j, "Deleting")
  <2>1. /\ j \in Worker /\ j.m = m /\ j.base = cache[m] /\ j.mem = cache[m]
        /\ j.id = cache[m].providerID /\ j.seen = {}
    BY <1>1 DEF Worker, MaybeID
  <2>2. cache[m].phase = "deleting"
    BY <1>5 DEF BeginDelete
  <2> HIDE DEF j
  <2>3. Same(j, k) /\ k.seen = {} /\ k.mem.provisioned = j.mem.provisioned
    BY <2>1, SetReadyConditionFacts DEF Reasons
  <2> HIDE DEF k
  <2>4. \E c \in {"delList", "rmGet", "delete"} :
            /\ w' = [k EXCEPT !.pc = c]
            /\ c # "delList" => k.id # NoID
    BY <1>5 DEF BeginDelete, k, j, r
  <2>5. /\ w' \in Worker /\ w'.m = k.m /\ w'.base = k.base /\ w'.mem = k.mem
        /\ w'.id = k.id /\ w'.seen = k.seen
        /\ w'.pc \in {"delList", "rmGet", "delete"}
        /\ w'.pc # "delList" => k.id # NoID
    BY <2>3, <2>4 DEF Worker, Calls, Same
  <2>6. w'.pc # "delList" => w'.id \in ServerIDs
    BY <1>1, <2>1, <2>3, <2>5 DEF Same
  <2> QED BY <1>2, <2>1, <2>2, <2>3, <2>5, <2>6 DEF Same
<1> QED BY <1>3, <1>4, <1>5

(* The server is taken in hand: by its ID, from the listing, or just made.  *)
Takes(i) ==
    \/ w.pc = "get" /\ i = w.mem.providerID /\ srv' = srv
    \/ w.pc = "list" /\ Matches(w.m) = {i} /\ srv' = srv
    \/ w.pc = "create" /\ Created(i)

(* How a call to Vultr changes the servers.                                 *)
ServersAfterCall ==
    \/ srv' = srv
    \/ w.pc = "create" /\ \E i \in ServerIDs : Created(i)
    \/ w.pc \in {"delete", "delRemaining"} /\ Destroyed(w.id)
    \/ w.pc = "vpcAttach"
       /\ srv' = [srv EXCEPT ![w.id].vpc = IF @ = "none" THEN "requested" ELSE @]

(* How it leads to the next call.                                           *)
PathAfterCall ==
    /\ w' \in Worker /\ w'.m = w.m /\ w'.base = w.base
    /\ \/ /\ w.pc \in NormalCalls /\ w'.pc \in NormalCalls \cup Closing
          /\ w'.mem.finalizer = w.mem.finalizer
       \/ /\ w.pc \in DeleteCalls /\ w'.pc \in DeleteCalls \cup Closing
          /\ w'.mem.finalizer = w.mem.finalizer
       \/ /\ w.pc = "delList" /\ w'.pc \in Closing
          /\ Matches(w.m) = {} /\ srv' = srv
    /\ w'.pc = "create" => w.pc = "list" /\ Matches(w.m) = {} /\ srv' = srv
    /\ w'.pc \notin {"get", "list"}

(* Which server is in hand after it.                                        *)
HandAfterCall ==
    /\ \/ /\ w'.mem.providerID = w.mem.providerID
          /\ w'.pc \in ServerCalls => w.pc \in ServerCalls /\ w'.id = w.id
       \/ \E i \in ServerIDs :
            w'.mem.providerID = i /\ w'.id = i /\ w'.pc # "delRemaining" /\ Takes(i)
    /\ w'.pc = "delRemaining" => /\ w'.id \in ServerIDs
                                 /\ Matches(w.m) = {w'.id} /\ srv' = srv

CallEffect == PathAfterCall /\ HandAfterCall

(* A call that ends the reconcile, or only moves on to the next call.       *)
LEMMA SameEffect ==
    ASSUME Same(w, w'), w'.pc # "delRemaining", w'.pc \notin {"get", "list", "create"},
           \/ w.pc \in NormalCalls /\ w'.pc \in NormalCalls \cup Closing
           \/ w.pc \in DeleteCalls /\ w'.pc \in DeleteCalls \cup Closing,
           w'.pc \in ServerCalls => w.pc \in ServerCalls
    PROVE  CallEffect
  BY DEF CallEffect, PathAfterCall, HandAfterCall, Same

(* A call that takes a server in hand.                                      *)
LEMMA FoundEffect ==
    ASSUME w \in Worker, NEW i \in ServerIDs, NEW s \in Statuses,
           w' = Found(w, i, s), Takes(i), w.pc \in {"get", "list", "create"}
    PROVE  CallEffect
<1>1. /\ w' \in Worker /\ w'.m = w.m /\ w'.base = w.base
      /\ w'.id = i /\ w'.mem.providerID = i
      /\ w'.mem.finalizer = w.mem.finalizer
      /\ w'.pc \in Closing \cup {"vpcList", "lbGet"}
  BY FoundFacts
<1> QED BY <1>1 DEF CallEffect, PathAfterCall, HandAfterCall, NormalCalls, Closing,
        CloseCalls

(* The calls of reconcileNormal.                                            *)
LEMMA NormalEffect ==
    ASSUME TypeInv,
           \/ GetServer \/ FindServer \/ CreateServer \/ ListVPC \/ AttachVPC
           \/ GetLoadBalancer \/ UpdateLoadBalancer
    PROVE  CallEffect /\ ServersAfterCall
<1>1. w \in Worker /\ srv \in [ServerIDs -> Server]
  BY DEF TypeInv, TypeOK
<1>2. ServersAfterCall
  BY DEF GetServer, FindServer, CreateServer, ListVPC, AttachVPC, GetLoadBalancer,
     UpdateLoadBalancer, ServersAfterCall, Call, vultr
<1>3. ASSUME w.pc \in NormalCalls,
             \/ Ended(w, w')
             \/ Same(w, w') /\ w.pc \in ServerCalls
                /\ w'.pc \in Closing \cup {"vpcAttach", "lbGet", "lbUpdate"}
      PROVE  CallEffect
  <2>1. Same(w, w') /\ w'.pc \in Closing \cup {"vpcAttach", "lbGet", "lbUpdate"}
        /\ (w'.pc \in ServerCalls => w.pc \in ServerCalls)
    BY <1>3 DEF Ended, ServerCalls, Closing, CloseCalls
  <2> QED BY <1>3, <2>1, SameEffect DEF NormalCalls, Closing, CloseCalls
<1>4. CASE GetServer
  <2>1. w.pc = "get" /\ w.mem.providerID \in ServerIDs /\ srv' = srv
    BY <1>4 DEF GetServer, Call, TypeInv, WorkerOK, vultr
  <2>2. CASE w' = Found(w, w.mem.providerID, srv[w.mem.providerID].status)
    <3>1. srv[w.mem.providerID].status \in Statuses
      BY <1>1, <2>1 DEF Server
    <3> QED BY <1>1, <1>2, <2>1, <2>2, <3>1, FoundEffect DEF Takes
  <2>3. CASE w' = Waiting(w, "ServerNotFound") \/ w' = Returned(w, TRUE)
    <3>1. Ended(w, w')
      BY <1>1, <2>3, WaitingFacts, ReturnedFacts DEF Reasons
    <3> QED BY <1>2, <1>3, <2>1, <3>1 DEF NormalCalls
  <2> QED BY <1>4, <2>2, <2>3 DEF GetServer
<1>5. CASE FindServer
  <2>1. w.pc = "list" /\ srv' = srv
    BY <1>5 DEF FindServer, Call, vultr
  <2>2. CASE Matches(w.m) = {} /\ w' = [w EXCEPT !.pc = "create"]
    <3>1. /\ w' \in Worker /\ w'.m = w.m /\ w'.base = w.base /\ w'.mem = w.mem
          /\ w'.pc = "create"
      BY <1>1, <2>2 DEF Worker, Calls
    <3> QED BY <1>2, <2>1, <2>2, <3>1 DEF CallEffect, PathAfterCall, HandAfterCall,
               NormalCalls, ServerCalls
  <2>3. CASE \E i \in ServerIDs : Matches(w.m) = {i} /\ w' = Found(w, i, srv[i].status)
    <3>1. PICK i \in ServerIDs : Matches(w.m) = {i} /\ w' = Found(w, i, srv[i].status)
      BY <2>3
    <3>2. srv[i].status \in Statuses
      BY <1>1 DEF Server
    <3> QED BY <1>1, <1>2, <2>1, <3>1, <3>2, FoundEffect DEF Takes
  <2>4. CASE w' = Returned(w, TRUE)
    <3>1. Ended(w, w')
      BY <1>1, <2>4, ReturnedFacts
    <3> QED BY <1>2, <1>3, <2>1, <3>1 DEF NormalCalls
  <2> QED BY <1>5, <2>2, <2>3, <2>4 DEF FindServer
<1>6. CASE CreateServer
  <2>1. w.pc = "create"
    BY <1>6 DEF CreateServer, Call
  <2>2. CASE \E i \in ServerIDs : Created(i) /\ w' = Found(w, i, "pending")
    <3>1. PICK i \in ServerIDs : Created(i) /\ w' = Found(w, i, "pending")
      BY <2>2
    <3>2. "pending" \in Statuses
      BY DEF Statuses
    <3> QED BY <1>1, <1>2, <2>1, <3>1, <3>2, FoundEffect DEF Takes
  <2>3. CASE w' = Waiting(w, "ServerCreationFailed")
    <3>1. Ended(w, w')
      BY <1>1, <2>3, WaitingFacts DEF Reasons
    <3> QED BY <1>2, <1>3, <2>1, <3>1 DEF NormalCalls
  <2> QED BY <1>6, <2>2, <2>3 DEF CreateServer
<1>7. CASE ListVPC
  <2>1. w.pc = "vpcList"
    BY <1>7 DEF ListVPC, Call
  <2>2. /\ Same(w, w')
        /\ w'.pc \in Closing \cup {"vpcAttach", "lbGet", "lbUpdate"}
    <3>1. CASE w' = Join(w)
      BY <1>1, <3>1, JoinFacts
    <3>2. CASE w' = [w EXCEPT !.pc = "vpcAttach"]
      BY <1>1, <3>2 DEF Same, Worker, Calls
    <3>3. CASE w' = Returned(w, TRUE)
      BY <1>1, <3>3, ReturnedFacts DEF Ended
    <3>4. CASE w' = Returned(SetTerminalFailure(w, "VPCAttachFailed"), FALSE)
      BY <1>1, <3>4, TerminalFacts DEF Ended, Reasons
    <3> QED BY <1>7, <3>1, <3>2, <3>3, <3>4 DEF ListVPC, VPCFails
  <2> QED BY <1>2, <1>3, <2>1, <2>2 DEF NormalCalls, ServerCalls
<1>8. CASE AttachVPC
  <2>1. w.pc = "vpcAttach"
    BY <1>8 DEF AttachVPC, Call
  <2>2. "VPCAttachRequested" \in Reasons /\ "VPCAttachFailed" \in Reasons
    BY DEF Reasons
  <2>3. CASE w' = AttachRequested(w) \/ w' = Returned(w, TRUE)
    <3>1. Ended(w, w')
      BY <1>1, <2>2, <2>3, WaitingFacts, ReturnedFacts DEF AttachRequested
    <3> QED BY <1>2, <1>3, <2>1, <3>1 DEF NormalCalls
  <2>4. CASE w' = Returned(SetTerminalFailure(w, "VPCAttachFailed"), FALSE)
    <3>1. Ended(w, w')
      BY <1>1, <2>2, <2>4, TerminalFacts
    <3> QED BY <1>2, <1>3, <2>1, <3>1 DEF NormalCalls
  <2> QED BY <1>8, <2>3, <2>4 DEF AttachVPC, VPCFails
<1>9. CASE GetLoadBalancer
  <2>1. w.pc = "lbGet" /\ lb.members \in Members
    BY <1>9 DEF GetLoadBalancer, Call, TypeInv, TypeOK, Balancer
  <2>2. CASE \/ w' = Waiting(w, "WaitingForLoadBalancer")
             \/ w' = Activated(w) \/ w' = Returned(w, TRUE)
    <3>1. Ended(w, w')
      BY <1>1, <2>2, WaitingFacts, ActivatedFacts, ReturnedFacts DEF Reasons
    <3> QED BY <1>2, <1>3, <2>1, <3>1 DEF NormalCalls
  <2>3. CASE w' = [w EXCEPT !.pc = "lbUpdate", !.seen = lb.members]
    <3>1. Same(w, w') /\ w'.pc = "lbUpdate"
      BY <1>1, <2>1, <2>3 DEF Same, Worker, Calls
    <3> QED BY <1>2, <1>3, <2>1, <3>1 DEF NormalCalls, ServerCalls
  <2> QED BY <1>9, <2>2, <2>3 DEF GetLoadBalancer
<1>10. CASE UpdateLoadBalancer
  <2>1. w.pc = "lbUpdate"
    BY <1>10 DEF UpdateLoadBalancer, Call
  <2>2. Ended(w, w')
    BY <1>1, <1>10, WaitingFacts, ActivatedFacts, ReturnedFacts
    DEF UpdateLoadBalancer, Reasons
  <2> QED BY <1>2, <1>3, <2>1, <2>2 DEF NormalCalls
<1> QED BY <1>4, <1>5, <1>6, <1>7, <1>8, <1>9, <1>10

(* The calls of reconcileDelete.                                            *)
LEMMA DeleteEffect ==
    ASSUME TypeInv,
           \/ GetForRemoval \/ RemoveMember \/ DeleteServer \/ FindRemaining
           \/ DeleteRemaining
    PROVE  CallEffect /\ ServersAfterCall
<1>1. w \in Worker
  BY DEF TypeInv, TypeOK
<1>2. ServersAfterCall
  BY DEF GetForRemoval, RemoveMember, DeleteServer, FindRemaining, DeleteRemaining,
     ServersAfterCall, Call, vultr
<1>3. ASSUME w.pc \in DeleteCalls,
             \/ Ended(w, w')
             \/ Same(w, w') /\ w.pc \in ServerCalls
                /\ w'.pc \in {"rmUpdate", "delete", "delList"}
      PROVE  CallEffect
  <2>1. Same(w, w') /\ w'.pc \in Closing \cup {"rmUpdate", "delete", "delList"}
        /\ (w'.pc \in ServerCalls => w.pc \in ServerCalls)
    BY <1>3 DEF Ended, ServerCalls, Closing, CloseCalls
  <2> QED BY <1>3, <2>1, SameEffect DEF DeleteCalls, Closing, CloseCalls
<1>4. CASE GetForRemoval
  <2>1. w.pc = "rmGet" /\ lb.members \in Members
    BY <1>4 DEF GetForRemoval, Call, TypeInv, TypeOK, Balancer
  <2>2. CASE w' = Returned(w, TRUE)
    <3>1. Ended(w, w')
      BY <1>1, <2>2, ReturnedFacts
    <3> QED BY <1>2, <1>3, <2>1, <3>1 DEF DeleteCalls
  <2>3. CASE w' # Returned(w, TRUE)
    <3>1. \/ \E c \in {"rmUpdate", "delete"} :
                w' = [w EXCEPT !.seen = lb.members, !.pc = c]
          \/ w' = [w EXCEPT !.pc = "delete"]
      BY <1>4, <2>3 DEF GetForRemoval
    <3>2. Same(w, w') /\ w'.pc \in {"rmUpdate", "delete"}
      BY <1>1, <2>1, <3>1 DEF Same, Worker, Calls
    <3> QED BY <1>2, <1>3, <2>1, <3>2 DEF DeleteCalls, ServerCalls
  <2> QED BY <2>2, <2>3
<1>5. CASE RemoveMember
  <2>1. w.pc = "rmUpdate"
    BY <1>5 DEF RemoveMember, Call
  <2>2. CASE w' = Returned(w, TRUE)
    <3>1. Ended(w, w')
      BY <1>1, <2>2, ReturnedFacts
    <3> QED BY <1>2, <1>3, <2>1, <3>1 DEF DeleteCalls
  <2>3. CASE w' = [w EXCEPT !.pc = "delete"]
    <3>1. Same(w, w') /\ w'.pc = "delete"
      BY <1>1, <2>3 DEF Same, Worker, Calls
    <3> QED BY <1>2, <1>3, <2>1, <3>1 DEF DeleteCalls, ServerCalls
  <2> QED BY <1>5, <2>2, <2>3 DEF RemoveMember
<1>6. CASE DeleteServer
  <2>1. w.pc = "delete"
    BY <1>6 DEF DeleteServer, Call
  <2>2. CASE w' = Returned(w, TRUE)
    <3>1. Ended(w, w')
      BY <1>1, <2>2, ReturnedFacts
    <3> QED BY <1>2, <1>3, <2>1, <3>1 DEF DeleteCalls
  <2>3. CASE w' = [w EXCEPT !.pc = "delList"]
    <3>1. Same(w, w') /\ w'.pc = "delList"
      BY <1>1, <2>3 DEF Same, Worker, Calls
    <3> QED BY <1>2, <1>3, <2>1, <3>1 DEF DeleteCalls, ServerCalls
  <2> QED BY <1>6, <2>2, <2>3 DEF DeleteServer
<1>7. CASE FindRemaining
  <2>1. w.pc = "delList" /\ srv' = srv
    BY <1>7 DEF FindRemaining, Call, vultr
  <2>2. CASE w' = Returned(w, TRUE)
    <3>1. Ended(w, w')
      BY <1>1, <2>2, ReturnedFacts
    <3> QED BY <1>2, <1>3, <2>1, <3>1 DEF DeleteCalls
  <2>3. CASE Matches(w.m) = {} /\ w' = Returned(RemoveFinalizer(w), FALSE)
    <3>1. /\ w' \in Worker /\ w'.m = w.m /\ w'.base = w.base /\ w'.pc \in Closing
          /\ w'.mem.providerID = w.mem.providerID
      BY <1>1, <2>3, RemoveFinalizerFacts
    <3> QED BY <1>2, <2>1, <2>3, <3>1 DEF CallEffect, PathAfterCall, HandAfterCall,
               ServerCalls, Closing, CloseCalls
  <2>4. CASE \E i \in ServerIDs : /\ Matches(w.m) = {i}
                                  /\ w' = [w EXCEPT !.id = i, !.pc = "delRemaining"]
    <3>1. /\ w' \in Worker /\ w'.m = w.m /\ w'.base = w.base /\ w'.mem = w.mem
          /\ w'.pc = "delRemaining" /\ w'.id \in ServerIDs /\ Matches(w.m) = {w'.id}
      BY <1>1, <2>4 DEF Worker, Calls, MaybeID
    <3> QED BY <1>2, <2>1, <3>1 DEF CallEffect, PathAfterCall, HandAfterCall,
               ServerCalls, DeleteCalls
  <2> QED BY <1>7, <2>2, <2>3, <2>4 DEF FindRemaining
<1>8. CASE DeleteRemaining
  <2>1. w.pc = "delRemaining"
    BY <1>8 DEF DeleteRemaining, Call
  <2>2. Ended(w, w')
    BY <1>1, <1>8, ReturnedFacts DEF DeleteRemaining
  <2> QED BY <1>2, <1>3, <2>1, <2>2 DEF DeleteCalls
<1> QED BY <1>4, <1>5, <1>6, <1>7, <1>8

(* Every call to Vultr leaves the objects alone.                            *)
LEMMA VultrCallEffect ==
    ASSUME TypeInv, VultrCall
    PROVE  /\ obj' = obj /\ cache' = cache /\ queued' = queued
           /\ owner' = owner /\ infra' = infra /\ budget' \in Budget
           /\ CallEffect /\ ServersAfterCall
<1>1. /\ obj' = obj /\ cache' = cache /\ queued' = queued
      /\ owner' = owner /\ infra' = infra
  BY DEF VultrCall, GetServer, FindServer, CreateServer, ListVPC, AttachVPC,
     GetLoadBalancer, UpdateLoadBalancer, GetForRemoval, RemoveMember, DeleteServer,
     FindRemaining, DeleteRemaining, kube, gates
<1>2. NoFault \/ Fault \/ Spend("mishaps")
  BY DEF VultrCall, GetServer, FindServer, CreateServer, ListVPC, AttachVPC,
     GetLoadBalancer, UpdateLoadBalancer, GetForRemoval, RemoveMember, DeleteServer,
     FindRemaining, DeleteRemaining, FailsIf, VPCFails
<1>3. budget' \in Budget
  BY <1>2, BudgetType DEF TypeInv
<1>4. CallEffect /\ ServersAfterCall
  BY NormalEffect, DeleteEffect DEF VultrCall
<1> QED BY <1>1, <1>3, <1>4

(* The object p that a patch makes of o.                                    *)
PatchedTo(o, p) ==
    /\ \/ /\ p.phase = o.phase /\ p.finalizer = o.finalizer
          /\ p.providerID = o.providerID
       \/ /\ w.pc = "metadata"
          /\ p.finalizer = Merged(o.finalizer, w.base.finalizer, w.mem.finalizer)
          /\ p.providerID = Merged(o.providerID, w.base.providerID, w.mem.providerID)
          /\ p.phase = IF o.phase = "deleting" /\ ~p.finalizer THEN "finalized"
                                                               ELSE o.phase
    /\ \/ p.provisioned = o.provisioned
       \/ /\ w.pc = "status"
          /\ p.provisioned = Merged(o.provisioned, w.base.provisioned,
                                    w.mem.provisioned)
    /\ \/ p.reason = o.reason
       \/ /\ w.pc = "conditions" /\ p.reason = w.mem.reason
          /\ o.reason \in {w.base.reason, w.mem.reason}

(* A patch writes its part of the object, or nothing.                       *)
LEMMA KubeCallEffect ==
    ASSUME TypeInv, KubeCall
    PROVE  /\ cache' = cache /\ queued' = queued /\ owner' = owner
           /\ infra' = infra /\ srv' = srv /\ lb' = lb /\ budget' \in Budget
           /\ w.m \in Machines /\ w.pc \in CloseCalls \cup {"paused"}
           /\ w' \in Worker /\ w'.m = w.m /\ w'.base = w.base /\ w'.mem = w.mem
           /\ w'.pc \in Closing /\ (w.pc = "paused" => w'.pc = "done")
           /\ \/ obj' = obj
              \/ /\ Exists(obj[w.m])
                 /\ \E p \in Object : /\ obj' = [obj EXCEPT ![w.m] = p]
                                      /\ PatchedTo(obj[w.m], p)
<1> DEFINE o == obj[w.m]
<1>1. /\ w \in Worker /\ w.pc \in CloseCalls \cup {"paused"} /\ w.m \in Machines
      /\ obj \in [Machines -> Object] /\ o \in Object
  BY DEF KubeCall, PatchPaused, PatchConditions, PatchMetadata, PatchStatus, Call,
     CloseCalls, TypeInv, TypeOK, WorkerOK
<1>2. /\ cache' = cache /\ queued' = queued /\ owner' = owner
      /\ infra' = infra /\ srv' = srv /\ lb' = lb /\ (NoFault \/ Fault)
  BY DEF KubeCall, PatchPaused, PatchConditions, PatchMetadata, PatchStatus,
     PatchCall, FailsIf, gates, vultr
<1>3. budget' \in Budget
  BY <1>2, BudgetType DEF TypeInv
<1>4. /\ w.mem.reason \in Reasons /\ w.mem.pausedCond \in {"", "False", "True"}
      /\ w.mem.finalizer \in BOOLEAN /\ w.mem.providerID \in MaybeID
      /\ w.mem.ready \in BOOLEAN /\ w.mem.provisioned \in BOOLEAN
  BY <1>1 DEF Worker, Object
<1> DEFINE p1 == [o EXCEPT !.pausedCond = w.mem.pausedCond]
           p2 == [o EXCEPT !.reason = w.mem.reason]
           p3 == MetadataPatched(o, w)
           p4 == StatusPatched(o, w)
<1>5. p1 \in Object /\ PatchedTo(o, p1)
  BY <1>1, <1>4 DEF Object, PatchedTo
<1>6. p2 \in Object /\ (w.pc = "conditions" /\ o.reason \in {w.base.reason, w.mem.reason}
                          => PatchedTo(o, p2))
  BY <1>1, <1>4 DEF Object, PatchedTo
<1>7. p3 \in Object /\ (w.pc = "metadata" => PatchedTo(o, p3))
  BY <1>1, <1>4 DEF MetadataPatched, Merged, Object, PatchedTo, Phases
<1>8. p4 \in Object /\ (w.pc = "status" => PatchedTo(o, p4))
  BY <1>1, <1>4 DEF StatusPatched, Merged, Object, PatchedTo
<1>9. \/ obj' = obj
      \/ Exists(o) /\ obj' = [obj EXCEPT ![w.m] = p1]
      \/ /\ Exists(o) /\ obj' = [obj EXCEPT ![w.m] = p2] /\ w.pc = "conditions"
         /\ o.reason \in {w.base.reason, w.mem.reason}
      \/ Exists(o) /\ obj' = [obj EXCEPT ![w.m] = p3] /\ w.pc = "metadata"
      \/ Exists(o) /\ obj' = [obj EXCEPT ![w.m] = p4] /\ w.pc = "status"
  BY DEF KubeCall, PatchPaused, PatchConditions, PatchMetadata, PatchStatus, Call,
     PatchCall, ReasonMergeable
<1>10. \/ obj' = obj
       \/ /\ Exists(o)
          /\ \E p \in Object : obj' = [obj EXCEPT ![w.m] = p] /\ PatchedTo(o, p)
  <2> HIDE DEF o, p1, p2, p3, p4
  <2> QED BY <1>5, <1>6, <1>7, <1>8, <1>9
<1>11. /\ AfterConditions(w) \in Closing /\ AfterMetadata(w) \in Closing
       /\ \E c \in Closing, t \in BOOLEAN :
            /\ w' = [w EXCEPT !.pc = c, !.retry = t]
            /\ w.pc = "paused" => c = "done"
  <2>1. AfterConditions(w) \in Closing /\ AfterMetadata(w) \in Closing
    BY DEF AfterConditions, AfterMetadata, Closing, CloseCalls
  <2>2. /\ [w EXCEPT !.retry = w.retry] = w /\ w.retry \in BOOLEAN
        /\ \A c : [w EXCEPT !.pc = c] = [w EXCEPT !.pc = c, !.retry = w.retry]
    BY <1>1 DEF Worker
  <2>3. \E c \in Closing, t \in {w.retry, w.retry \/ FALSE, w.retry \/ TRUE, TRUE} :
            /\ w' = [w EXCEPT !.pc = c, !.retry = t]
            /\ w.pc = "paused" => c = "done"
    BY <1>1, <2>1, <2>2 DEF KubeCall, PatchPaused, PatchConditions, PatchMetadata,
       PatchStatus, PatchCall, Call, Closing, CloseCalls
  <2> QED BY <2>1, <2>2, <2>3
<1>12. /\ w' \in Worker /\ w'.m = w.m /\ w'.base = w.base /\ w'.mem = w.mem
       /\ w'.pc \in Closing /\ (w.pc = "paused" => w'.pc = "done")
  BY <1>1, <1>11 DEF Worker, Calls, Closing, CloseCalls
<1> QED BY <1>1, <1>2, <1>3, <1>10, <1>12

(* What a server a can become when nobody makes it: b.                      *)
Ages(a, b) ==
    /\ b.maker = a.maker
    /\ a.vpc = "attached" => b.vpc = "attached"
    /\ \/ b.place = a.place
       \/ a.place = "running" /\ b.place = "destroyed"
       \/ a.place = "destroyed" /\ b.place = "purged"

(* A free server is made for the machine of the worker.                     *)
Makes(i, new) ==
    /\ VultrCall /\ w.pc = "create"
    /\ srv[i].place = "free" /\ new.place = "running" /\ new.maker = w.m

(* A step changes at most one server; the controller makes one only in its  *)
(* create call.                                                             *)
LEMMA ServerEffect ==
    ASSUME TypeInv, [Next]_vars
    PROVE  \/ srv' = srv
           \/ \E i \in ServerIDs, new \in Server :
                /\ srv' = [srv EXCEPT ![i] = new]
                /\ Ages(srv[i], new) \/ Makes(i, new)
<1>1. srv \in [ServerIDs -> Server] /\ w.m \in Machines \cup {NoMachine}
  BY DEF TypeInv, TypeOK, Worker
<1>2. ASSUME NEW i \in ServerIDs, NEW s \in Statuses, NEW v \in {"requested", "attached"}
      PROVE  /\ [srv[i] EXCEPT !.status = s] \in Server
             /\ Ages(srv[i], [srv[i] EXCEPT !.status = s])
             /\ [srv[i] EXCEPT !.vpc = v] \in Server
             /\ srv[i].vpc # "attached" \/ v = "attached"
                    => Ages(srv[i], [srv[i] EXCEPT !.vpc = v])
             /\ [srv[i] EXCEPT !.place = "destroyed"] \in Server
             /\ srv[i].place = "running"
                    => Ages(srv[i], [srv[i] EXCEPT !.place = "destroyed"])
             /\ [srv[i] EXCEPT !.place = "purged"] \in Server
             /\ srv[i].place = "destroyed"
                    => Ages(srv[i], [srv[i] EXCEPT !.place = "purged"])
  BY <1>1 DEF Server, Ages
<1>3. ASSUME VultrCall PROVE \/ srv' = srv
           \/ \E i \in ServerIDs, new \in Server :
                /\ srv' = [srv EXCEPT ![i] = new]
                /\ Ages(srv[i], new) \/ Makes(i, new)
  <2>1. ServersAfterCall
    BY <1>3, VultrCallEffect
  <2>2. CASE w.pc = "create" /\ \E i \in ServerIDs : Created(i)
    <3>1. PICK i \in ServerIDs : Created(i)
      BY <2>2
    <3> DEFINE new == [place |-> "running", status |-> "pending", maker |-> w.m,
                       vpc |-> "none"]
    <3>2. srv' = [srv EXCEPT ![i] = new] /\ srv[i].place = "free"
      BY <3>1 DEF Created
    <3>3. new \in Server /\ new.place = "running" /\ new.maker = w.m
      BY <1>1 DEF Server, Statuses
    <3> HIDE DEF new
    <3> QED BY <1>3, <2>2, <3>2, <3>3 DEF Makes
  <2>3. CASE w.pc \in {"delete", "delRemaining"} /\ Destroyed(w.id)
    <3>1. w.id \in ServerIDs /\ srv[w.id].place = "running"
      BY <2>3 DEF TypeInv, WorkerOK, ServerCalls, Destroyed
    <3>2. srv' = [srv EXCEPT ![w.id] = [srv[w.id] EXCEPT !.place = "destroyed"]]
      BY <2>3 DEF Destroyed
    <3> QED BY <1>2, <3>1, <3>2 DEF Statuses
  <2>4. CASE w.pc = "vpcAttach"
             /\ srv' = [srv EXCEPT ![w.id].vpc = IF @ = "none" THEN "requested" ELSE @]
    <3>1. w.id \in ServerIDs
      BY <2>4 DEF TypeInv, WorkerOK, ServerCalls
    <3>2. CASE srv[w.id].vpc = "none"
      <4>1. srv' = [srv EXCEPT ![w.id] = [srv[w.id] EXCEPT !.vpc = "requested"]]
        BY <2>4, <3>1, <3>2
      <4> QED BY <1>2, <3>1, <3>2, <4>1 DEF Statuses
    <3>3. CASE srv[w.id].vpc # "none"
      <4>1. srv' = srv
        BY <1>1, <2>4, <3>1, <3>3 DEF Server
      <4> QED BY <4>1
    <3> QED BY <3>2, <3>3
  <2> QED BY <2>1, <2>2, <2>3, <2>4 DEF ServersAfterCall
<1>4. ASSUME NEW i \in ServerIDs,
             ServerActive(i) \/ VPCAttached(i) \/ ServerOdd(i) \/ ServerLost(i)
             \/ ListCatchesUp(i)
      PROVE  \E new \in Server : /\ srv' = [srv EXCEPT ![i] = new]
                                 /\ Ages(srv[i], new)
  <2>1. \/ srv' = [srv EXCEPT ![i] = [srv[i] EXCEPT !.status = "active"]]
        \/ srv' = [srv EXCEPT ![i] = [srv[i] EXCEPT !.status = "other"]]
        \/ srv' = [srv EXCEPT ![i] = [srv[i] EXCEPT !.vpc = "attached"]]
        \/ /\ srv[i].place = "running"
           /\ srv' = [srv EXCEPT ![i] = [srv[i] EXCEPT !.place = "destroyed"]]
        \/ /\ srv[i].place = "destroyed"
           /\ srv' = [srv EXCEPT ![i] = [srv[i] EXCEPT !.place = "purged"]]
    BY <1>4 DEF ServerActive, VPCAttached, ServerOdd, ServerLost, ListCatchesUp,
       ServerChanges
  <2> QED BY <1>2, <2>1 DEF Statuses
<1>5. CASE \/ \E m \in Machines : Begin(m)
           \/ KubeCall \/ Finish \/ TimeOut \/ Crash \/ UNCHANGED vars
           \/ \E m \in Machines : \/ CacheSync(m) \/ Event(m)
                                  \/ OwnerAdvances(m) \/ DeleteObject(m)
           \/ ClusterAppears \/ ClusterReady \/ ClusterLost \/ Pause \/ Unpause
           \/ LoadBalancerActive \/ OtherUpdate \/ \E v \in OtherMembers : OtherGet(v)
  <2>1. srv' = srv
    BY <1>5, KubeCallEffect DEF Begin, Skip, BeginPaused, BeginNormal, BeginDelete,
       Dequeue, Finish, TimeOut, Crash, vars, CacheSync, Event, OwnerAdvances,
       DeleteObject, ClusterAppears, ClusterReady, ClusterLost, Pause, Unpause,
       InfraChanges, LoadBalancerActive, OtherGet, OtherUpdate, vultr
  <2> QED BY <2>1
<1> QED BY <1>3, <1>4, <1>5 DEF Next, WorkerStep, Environment

(* A write of the VultrMachine controller: what it changes is undone.       *)
OtherWrites ==
    /\ Settled' \subseteq Settled
    /\ lb.members \cap ServerIDs \subseteq lb'.members \cup lb'.undone
    /\ lb.undone \subseteq lb'.undone

(* That is all it changes for the servers.                                  *)
LEMMA OtherUpdateEffect ==
    ASSUME TypeInv, OtherUpdate
    PROVE  lb' \in Balancer /\ w' = w /\ OtherWrites
<1> DEFINE changed == ((lb.members \ other.list) \cup (other.list \ lb.members))
                      \cap ServerIDs
<1>1. /\ lb \in Balancer /\ lb.undone \in SUBSET ServerIDs
      /\ other.list \in Members /\ changed \in SUBSET ServerIDs
  BY DEF TypeInv, TypeOK, Balancer, OtherWorker
<1>2. /\ lb' = [lb EXCEPT !.members = other.list, !.undone = @ \cup changed]
      /\ w' = w
  BY DEF OtherUpdate
<1>3. /\ lb' \in Balancer /\ lb'.members = other.list
      /\ lb'.undone = lb.undone \cup changed
  BY <1>1, <1>2 DEF Balancer
<1> QED BY <1>2, <1>3 DEF OtherWrites, Settled

(* How a step changes the load balancer.                                    *)
LEMMA LoadBalancerEffect ==
    ASSUME TypeInv, [Next]_vars
    PROVE  /\ lb' \in Balancer
           /\ \/ lb'.members = lb.members /\ lb'.undone = lb.undone
              \/ w' = w /\ OtherWrites
              \/ /\ w.pc = "lbUpdate" /\ UpdateLoadBalancer
                 /\ lb'.members = w.seen \cup {w.id} /\ lb'.undone = lb.undone \ {w.id}
              \/ /\ w.pc = "rmUpdate" /\ RemoveMember
                 /\ lb'.members = w.seen \ {w.id} /\ lb'.undone = lb.undone \ {w.id}
<1>1. /\ lb \in Balancer /\ lb.undone \in SUBSET ServerIDs
      /\ other \in OtherWorker /\ other.list \in Members
      /\ w.seen \in SUBSET (ServerIDs \cup OtherMembers)
      /\ lb.members \in SUBSET (ServerIDs \cup OtherMembers)
  BY DEF TypeInv, TypeOK, Worker, Members, Balancer, OtherWorker
<1>2. CASE UpdateLoadBalancer
  <2>1. w.pc = "lbUpdate" /\ w.id \in ServerIDs
    BY <1>2 DEF UpdateLoadBalancer, Call, TypeInv, WorkerOK, ServerCalls
  <2>2. \/ lb' = lb
        \/ lb' = [lb EXCEPT !.members = w.seen \cup {w.id}, !.undone = @ \ {w.id}]
    BY <1>2 DEF UpdateLoadBalancer, MembersWritten
  <2>3. w.seen \cup {w.id} \in Members /\ lb.undone \ {w.id} \in SUBSET ServerIDs
    BY <1>1, <2>1 DEF Members
  <2> QED BY <1>1, <1>2, <2>1, <2>2, <2>3 DEF Balancer
<1>3. CASE RemoveMember
  <2>1. w.pc = "rmUpdate"
    BY <1>3 DEF RemoveMember, Call
  <2>2. \/ lb' = lb
        \/ lb' = [lb EXCEPT !.members = w.seen \ {w.id}, !.undone = @ \ {w.id}]
    BY <1>3 DEF RemoveMember, MembersWritten
  <2> QED BY <1>1, <1>3, <2>1, <2>2 DEF Members, Balancer
<1>4. CASE OtherUpdate
  BY <1>4, OtherUpdateEffect
<1>5. CASE LoadBalancerActive
  BY <1>1, <1>5 DEF LoadBalancerActive, Balancer
<1>6. CASE \/ \E m \in Machines : Begin(m)
           \/ KubeCall \/ Finish \/ TimeOut \/ Crash \/ UNCHANGED vars
           \/ GetServer \/ FindServer \/ CreateServer \/ ListVPC \/ AttachVPC
           \/ GetLoadBalancer \/ GetForRemoval \/ DeleteServer
           \/ FindRemaining \/ DeleteRemaining
           \/ \E m \in Machines : \/ CacheSync(m) \/ Event(m)
                                  \/ OwnerAdvances(m) \/ DeleteObject(m)
           \/ ClusterAppears \/ ClusterReady \/ ClusterLost \/ Pause \/ Unpause
           \/ \E v \in OtherMembers : OtherGet(v)
           \/ \E i \in ServerIDs : \/ ServerActive(i) \/ VPCAttached(i)
                                   \/ ServerOdd(i) \/ ServerLost(i)
                                   \/ ListCatchesUp(i)
  <2>1. lb' = lb
    BY <1>6, KubeCallEffect DEF Begin, Skip, BeginPaused, BeginNormal, BeginDelete,
       Dequeue, Finish, TimeOut, Crash, vars, CacheSync, Event, OwnerAdvances,
       DeleteObject, ClusterAppears, ClusterReady, ClusterLost, Pause, Unpause,
       InfraChanges, OtherGet, vultr, GetServer, FindServer, CreateServer, ListVPC,
       AttachVPC,
       GetLoadBalancer, GetForRemoval, DeleteServer, FindRemaining, DeleteRemaining,
       ServerActive, VPCAttached, ServerOdd, ServerLost, ServerChanges, ListCatchesUp
  <2> QED BY <1>1, <2>1
<1> QED BY <1>2, <1>3, <1>4, <1>5, <1>6 DEF Next, WorkerStep, VultrCall, Environment

(* The environment never touches the worker.                                *)
LEMMA EnvironmentEffect ==
    ASSUME TypeInv, Environment
    PROVE  /\ w' = w
           /\ \/ obj' = obj /\ cache' = cache
              \/ obj' = obj /\ \E m \in Machines : cache' = [cache EXCEPT ![m] = obj[m]]
              \/ cache' = cache /\ \E m \in Machines :
                    /\ obj[m].phase = "live"
                    /\ obj' = [obj EXCEPT ![m] =
                        [obj[m] EXCEPT !.phase =
                            IF obj[m].finalizer THEN "deleting" ELSE "gone"]]
  BY DEF Environment, CacheSync, Event, OwnerAdvances, DeleteObject, ClusterAppears,
     ClusterReady, ClusterLost, Pause, Unpause, InfraChanges, LoadBalancerActive,
     OtherGet, OtherUpdate, ServerActive, VPCAttached, ServerOdd, ServerLost,
     ServerChanges,
     ListCatchesUp, kube

-----------------------------------------------------------------------------
(* Type correctness *)

(* The servers in the account at first are those of other managers.         *)
LEMMA ServersAtStart ==
    ASSUME Init
    PROVE  /\ srv \in [ServerIDs -> Server]
           /\ \A i \in ServerIDs :
                IF srv[i].place = "free" THEN srv[i].maker = NoMachine
                                         ELSE srv[i].maker \in Foreign
<1>1. FreeServer \in Server /\ \A m \in Foreign : ForeignServer(m) \in Server
  BY DEF FreeServer, ForeignServer, Server, Statuses
<1>2. srv \in [ServerIDs -> {FreeServer} \cup {ForeignServer(m) : m \in Foreign}]
  BY DEF Init
<1>3. \A i \in ServerIDs :
        srv[i] = FreeServer \/ \E m \in Foreign : srv[i] = ForeignServer(m)
  BY <1>2
<1>4. srv \in [ServerIDs -> Server]
  BY <1>1, <1>2, <1>3
<1> QED BY <1>3, <1>4 DEF FreeServer, ForeignServer

(* TypeInv holds when the manager starts.                                   *)
LEMMA TypeInit == Init => TypeInv
  BY IdleType, ServersAtStart, ConstantsAssumption
  DEF Init, TypeInv, TypeOK, WorkerOK, Members, ServerCalls, Balancer, OtherIdle,
      OtherWorker

(* The worker stays well typed.                                             *)
LEMMA TypeWorker ==
    ASSUME TypeInv, [Next]_vars
    PROVE  w' \in Worker /\ WorkerOK'
<1>1. ASSUME NEW m \in Machines, Begin(m) PROVE w' \in Worker /\ WorkerOK'
  <2>1. CASE Skip(m)
    BY <2>1 DEF Skip, TypeInv, TypeOK, WorkerOK
  <2>2. CASE BeginPaused(m) \/ BeginNormal(m) \/ BeginDelete(m)
    <3>1. w' \in Worker /\ w'.m = m /\ w'.mem.providerID = cache[m].providerID
      BY <2>2, BeginEffect
    <3>2. /\ w'.pc \in {"paused", "get", "list", "delList", "rmGet", "delete"} \cup Closing
          /\ w'.pc = "get" => cache[m].providerID \in ServerIDs
          /\ w'.pc \in {"rmGet", "delete"} => w'.id \in ServerIDs
      BY <2>2, BeginEffect DEF Closing, CloseCalls
    <3> QED BY <3>1, <3>2 DEF WorkerOK, ServerCalls, Closing, CloseCalls
  <2> QED BY <1>1, <2>1, <2>2 DEF Begin
<1>2. CASE VultrCall
  <2>1. PathAfterCall /\ HandAfterCall
    BY <1>2, VultrCallEffect DEF CallEffect
  <2>2. w' \in Worker /\ w'.m = w.m /\ w.pc # "idle" /\ w'.pc # "get"
    BY <2>1 DEF PathAfterCall, NormalCalls, DeleteCalls
  <2>3. w'.pc \in ServerCalls \cup {"delRemaining"} => w'.id \in ServerIDs
    BY <2>1 DEF HandAfterCall, TypeInv, WorkerOK
  <2> QED BY <2>2, <2>3 DEF TypeInv, WorkerOK
<1>3. CASE KubeCall
  BY <1>3, KubeCallEffect DEF WorkerOK, ServerCalls, Closing, CloseCalls
<1>4. CASE Finish \/ Crash
  BY <1>4, IdleType DEF Finish, Crash, WorkerOK, ServerCalls
<1>5. CASE TimeOut
  <2>1. w' = [w EXCEPT !.pc = "done", !.retry = TRUE] /\ w.pc # "idle" /\ w \in Worker
    BY <1>5 DEF TimeOut, Call, TypeInv, TypeOK
  <2>2. w' \in Worker /\ w'.pc = "done" /\ w'.m = w.m
    BY <2>1 DEF Worker, Calls
  <2> QED BY <2>1, <2>2 DEF TypeInv, WorkerOK, ServerCalls
<1>6. CASE Environment \/ UNCHANGED vars
  <2>1. w' = w
    BY <1>6, EnvironmentEffect DEF vars
  <2> QED BY <2>1 DEF TypeInv, TypeOK, WorkerOK
<1> QED BY <1>1, <1>2, <1>3, <1>4, <1>5, <1>6 DEF Next, WorkerStep

(* The objects and the cache of them stay well typed.                       *)
LEMMA TypeObjects ==
    ASSUME TypeInv, [Next]_vars
    PROVE  obj' \in [Machines -> Object] /\ cache' \in [Machines -> Object]
<1>1. obj \in [Machines -> Object] /\ cache \in [Machines -> Object]
  BY DEF TypeInv, TypeOK
<1>2. CASE KubeCall
  BY <1>1, <1>2, KubeCallEffect
<1>3. CASE Environment
  <2>1. \A o \in Object, q \in Phases : [o EXCEPT !.phase = q] \in Object
    BY DEF Object
  <2>2. \A m \in Machines :
            /\ [obj[m] EXCEPT !.phase = "deleting"] \in Object
            /\ [obj[m] EXCEPT !.phase = "gone"] \in Object
    BY <1>1, <2>1 DEF Phases
  <2> QED BY <1>1, <1>3, <2>2, EnvironmentEffect
<1>4. CASE VultrCall
  BY <1>1, <1>4, VultrCallEffect
<1>5. CASE Crash
  BY <1>1, <1>5 DEF Crash
<1>6. CASE \/ \E m \in Machines : Begin(m)
           \/ Finish \/ TimeOut \/ UNCHANGED vars
  BY <1>1, <1>6 DEF Begin, Skip, BeginPaused, BeginNormal, BeginDelete, Dequeue,
     Finish, TimeOut, vars, kube
<1> QED BY <1>2, <1>3, <1>4, <1>5, <1>6 DEF Next, WorkerStep

(* The VultrMachine controller keeps a list of members in hand.             *)
LEMMA TypeOther ==
    ASSUME TypeInv, [Next]_vars
    PROVE  other' \in OtherWorker
<1>1. other \in OtherWorker /\ lb.members \in SUBSET (ServerIDs \cup OtherMembers)
  BY DEF TypeInv, TypeOK, Balancer, Members
<1>2. OtherIdle \in OtherWorker
  BY DEF OtherIdle, OtherWorker, Members
<1>3. ASSUME NEW v \in OtherMembers, OtherGet(v) PROVE other' \in OtherWorker
  BY <1>1, <1>3 DEF OtherGet, OtherWorker, Members
<1>4. CASE OtherUpdate
  BY <1>2, <1>4 DEF OtherUpdate
<1>5. CASE VultrCall \/ KubeCall
  <2>1. other' = other
    BY <1>5 DEF VultrCall, GetServer, FindServer, CreateServer, ListVPC, AttachVPC,
       GetLoadBalancer, UpdateLoadBalancer, GetForRemoval, RemoveMember, DeleteServer,
       FindRemaining, DeleteRemaining, KubeCall, PatchPaused, PatchConditions,
       PatchMetadata, PatchStatus, PatchCall, gates
  <2> QED BY <1>1, <2>1
<1>6. CASE \/ \E m \in Machines : Begin(m)
           \/ Finish \/ TimeOut \/ Crash \/ UNCHANGED vars
           \/ \E m \in Machines : \/ CacheSync(m) \/ Event(m)
                                  \/ OwnerAdvances(m) \/ DeleteObject(m)
           \/ ClusterAppears \/ ClusterReady \/ ClusterLost \/ Pause \/ Unpause
           \/ LoadBalancerActive
           \/ \E i \in ServerIDs : \/ ServerActive(i) \/ VPCAttached(i)
                                   \/ ServerOdd(i) \/ ServerLost(i)
                                   \/ ListCatchesUp(i)
  <2>1. other' = other
    BY <1>6 DEF Begin, Skip, BeginPaused, BeginNormal, BeginDelete, Dequeue, Finish,
       TimeOut, Crash, vars, CacheSync, Event, OwnerAdvances, DeleteObject,
       ClusterAppears, ClusterReady, ClusterLost, Pause, Unpause, InfraChanges,
       LoadBalancerActive, ServerActive, VPCAttached, ServerOdd, ServerLost,
       ServerChanges, ListCatchesUp, gates
  <2> QED BY <1>1, <2>1
<1> QED BY <1>3, <1>4, <1>5, <1>6 DEF Next, WorkerStep, Environment

(* So does the rest of the state.                                           *)
LEMMA TypeRest ==
    ASSUME TypeInv, [Next]_vars
    PROVE  /\ queued' \in SUBSET Machines
           /\ owner' \in [Machines -> {"none", "linked", "bootstrapped"}]
           /\ infra' \in [present : BOOLEAN, lbID : BOOLEAN, ready : BOOLEAN,
                          paused : BOOLEAN]
           /\ budget' \in Budget
<1>1. /\ queued \in SUBSET Machines
      /\ owner \in [Machines -> {"none", "linked", "bootstrapped"}]
      /\ infra \in [present : BOOLEAN, lbID : BOOLEAN, ready : BOOLEAN,
                    paused : BOOLEAN]
      /\ budget \in Budget
      /\ w.pc # "idle" => w.m \in Machines
  BY DEF TypeInv, TypeOK, WorkerOK, Budget
<1>2. CASE VultrCall \/ KubeCall
  BY <1>1, <1>2, VultrCallEffect, KubeCallEffect
<1>3. CASE Finish \/ TimeOut \/ Crash
  <2>1. NoFault \/ Fault
    BY <1>3 DEF Finish, TimeOut, Crash, NoFault
  <2> QED BY <1>1, <1>3, <2>1, BudgetType DEF Finish, TimeOut, Crash, Call, kube,
             gates, TypeInv
<1>4. CASE (\E m \in Machines : Begin(m)) \/ UNCHANGED vars
  BY <1>1, <1>4 DEF Begin, Skip, BeginPaused, BeginNormal, BeginDelete, Dequeue,
     vars, gates
<1>5. CASE Environment
  <2>1. budget' = budget \/ Spend("mishaps") \/ Spend("pauses")
    BY <1>5 DEF Environment, CacheSync, Event, OwnerAdvances, DeleteObject,
       ClusterAppears, ClusterReady, ClusterLost, Pause, Unpause, InfraChanges,
       LoadBalancerActive, OtherGet, OtherUpdate, ServerActive, VPCAttached, ServerOdd,
       ServerLost, ServerChanges, ListCatchesUp
  <2>2. queued' \in SUBSET Machines
    BY <1>1, <1>5 DEF Environment, CacheSync, Event, OwnerAdvances, DeleteObject,
       ClusterAppears, ClusterReady, ClusterLost, Pause, Unpause, InfraChanges,
       LoadBalancerActive, OtherGet, OtherUpdate, ServerActive, VPCAttached, ServerOdd,
       ServerLost, ServerChanges, ListCatchesUp, kube
  <2>3. owner' = owner \/ \E m \in Machines, v \in {"linked", "bootstrapped"} :
            owner' = [owner EXCEPT ![m] = v]
    BY <1>5 DEF Environment, CacheSync, Event, OwnerAdvances, DeleteObject,
       ClusterAppears, ClusterReady, ClusterLost, Pause, Unpause, InfraChanges,
       LoadBalancerActive, OtherGet, OtherUpdate, ServerActive, VPCAttached, ServerOdd,
       ServerLost, ServerChanges, ListCatchesUp, gates
  <2>4. \/ infra' = infra
        \/ \E id \in BOOLEAN :
             infra' = [infra EXCEPT !.present = TRUE, !.lbID = @ \/ id]
        \/ infra' = [infra EXCEPT !.ready = TRUE]
        \/ infra' = [infra EXCEPT !.present = FALSE, !.lbID = FALSE]
        \/ \E b \in BOOLEAN : infra' = [infra EXCEPT !.paused = b]
    BY <1>5 DEF Environment, CacheSync, Event, OwnerAdvances, DeleteObject,
       ClusterAppears, ClusterReady, ClusterLost, Pause, Unpause, InfraChanges,
       LoadBalancerActive, OtherGet, OtherUpdate, ServerActive, VPCAttached, ServerOdd,
       ServerLost, ServerChanges, ListCatchesUp, gates
  <2>5. infra' \in [present : BOOLEAN, lbID : BOOLEAN, ready : BOOLEAN,
                    paused : BOOLEAN]
    BY <1>1, <2>4
  <2> QED BY <1>1, <2>1, <2>2, <2>3, <2>5, BudgetType DEF TypeInv
<1> QED BY <1>2, <1>3, <1>4, <1>5 DEF Next, WorkerStep

(* Every step keeps TypeInv.                                                *)
LEMMA TypeStep == TypeInv /\ [Next]_vars => TypeInv'
<1> SUFFICES ASSUME TypeInv, [Next]_vars PROVE TypeInv'
  OBVIOUS
<1>1. srv' \in [ServerIDs -> Server]
  BY ServerEffect DEF TypeInv, TypeOK
<1>2. lb' \in Balancer
  BY LoadBalancerEffect
<1> QED BY <1>1, <1>2, TypeWorker, TypeObjects, TypeOther, TypeRest
        DEF TypeInv, TypeOK, Budget

(* TypeInv holds always.                                                    *)
LEMMA TypeInvariance == Spec => []TypeInv
  BY TypeInit, TypeStep, PTL DEF Spec

(* Every reachable state is well typed: no call, answer or patch puts a     *)
(* value where the code would not expect it.                                *)
THEOREM BareMetalTyped == Spec => []TypeOK
<1>1. TypeInv => TypeOK
  BY DEF TypeInv
<1> QED BY <1>1, TypeInvariance, PTL

-----------------------------------------------------------------------------
(* The life of a machine and its server *)

(* The listing by tags shows at least the machine's own servers.            *)
LEMMA OwnMatches == \A m \in Machines : Own(m) \subseteq Matches(m)
  BY DEF Own, Matches, TagsOwnedByMachine

(* A step takes servers away from machines, or makes the first of one.      *)
LEMMA OwnEffect ==
    ASSUME TypeInv, PathInv, [Next]_vars
    PROVE  \/ \A m \in Machines : Own(m)' \subseteq Own(m)
           \/ /\ VultrCall /\ w.pc = "create" /\ w.m \in Machines
              /\ \E i \in ServerIDs : \A m \in Machines :
                    Own(m)' = IF m = w.m THEN {i} ELSE Own(m)
<1>1. srv \in [ServerIDs -> Server]
  BY DEF TypeInv, TypeOK
<1>2. CASE srv' = srv
  BY <1>2 DEF Own, Listed
<1>3. ASSUME NEW i \in ServerIDs, NEW new \in Server,
             srv' = [srv EXCEPT ![i] = new], Ages(srv[i], new)
      PROVE  \A m \in Machines : Own(m)' \subseteq Own(m)
  BY <1>1, <1>3 DEF Own, Listed, Ages
<1>4. ASSUME NEW i \in ServerIDs, NEW new \in Server,
             srv' = [srv EXCEPT ![i] = new], Makes(i, new)
      PROVE  /\ VultrCall /\ w.pc = "create" /\ w.m \in Machines
             /\ \A m \in Machines : Own(m)' = IF m = w.m THEN {i} ELSE Own(m)
  <2>1. /\ VultrCall /\ w.pc = "create" /\ w.m \in Machines /\ Own(w.m) = {}
        /\ srv[i].place = "free" /\ new.place = "running" /\ new.maker = w.m
    BY <1>4 DEF Makes, TypeInv, WorkerOK, PathInv
  <2>2. /\ srv'[i].place = "running" /\ srv'[i].maker = w.m
        /\ \A j \in ServerIDs : j # i => srv'[j] = srv[j]
    BY <1>1, <1>4, <2>1
  <2>3. ASSUME NEW m \in Machines PROVE Own(m)' = IF m = w.m THEN {i} ELSE Own(m)
    <3>1. CASE m = w.m
      <4>1. Own(m) = {}
        BY <2>1, <3>1
      <4> QED BY <2>2, <3>1, <4>1 DEF Own, Listed
    <3>2. CASE m # w.m
      BY <2>1, <2>2, <3>2 DEF Own, Listed
    <3> QED BY <3>1, <3>2
  <2> QED BY <2>1, <2>3
<1> QED BY <1>2, <1>3, <1>4, ServerEffect

(* The manager starts with live objects and no servers of their own.        *)
LEMMA LifeInit == Init => LifeInv
<1> SUFFICES ASSUME Init PROVE LifeInv
  OBVIOUS
<1>1. \A m \in Machines : obj[m].phase = "live" /\ cache[m].phase = "live" /\ Own(m) = {}
  BY ServersAtStart, ConstantsAssumption DEF Init, NewObject, Own, Listed
<1>2. w.pc = "idle"
  BY IdleType DEF Init
<1> QED BY <1>1, <1>2 DEF LifeInv, CacheInv, PathInv, HeldInv, NormalCalls,
        DeleteCalls, CloseCalls

(* A patch that lets the object go is one after an empty listing.           *)
LEMMA ReleaseFacts ==
    ASSUME TypeInv, LifeInv, KubeCall, NEW m \in Machines
    PROVE  \/ /\ obj'[m].phase = obj[m].phase
              /\ obj[m].phase = "deleting" => obj'[m].finalizer
           \/ /\ m = w.m /\ w.pc = "metadata" /\ ~w.mem.finalizer
              /\ obj[m].phase = "deleting" /\ obj'[m].phase = "finalized"
              /\ w.base.phase = "deleting" /\ Own(m) = {}
<1>1. obj \in [Machines -> Object] /\ (obj[m].phase = "deleting" => obj[m].finalizer)
  BY DEF TypeInv, TypeOK, LifeInv, CacheInv
<1>2. CASE obj'[m] = obj[m]
  BY <1>1, <1>2
<1>3. CASE obj'[m] # obj[m]
  <2>1. PICK p \in Object : /\ obj' = [obj EXCEPT ![w.m] = p]
                            /\ PatchedTo(obj[w.m], p)
    BY <1>3, KubeCallEffect
  <2>2. m = w.m /\ obj'[m] = p
    BY <1>1, <1>3, <2>1
  <2>3. \/ p.phase = obj[m].phase /\ p.finalizer = obj[m].finalizer
        \/ /\ w.pc = "metadata"
           /\ p.finalizer = Merged(obj[m].finalizer, w.base.finalizer, w.mem.finalizer)
           /\ p.phase = IF obj[m].phase = "deleting" /\ ~p.finalizer THEN "finalized"
                                                                    ELSE obj[m].phase
    BY <2>1, <2>2 DEF PatchedTo
  <2>4. (w.pc = "metadata" /\ ~w.mem.finalizer)
            => w.base.phase = "deleting" /\ Own(m) = {}
    BY <2>2 DEF LifeInv, PathInv, CloseCalls
  <2> QED BY <1>1, <2>2, <2>3, <2>4 DEF Merged
<1> QED BY <1>2, <1>3

(* Every step keeps the cache behind the object.                            *)
LEMMA CacheStep ==
    ASSUME TypeInv, LifeInv, [Next]_vars
    PROVE  CacheInv'
<1>1. obj \in [Machines -> Object] /\ cache \in [Machines -> Object] /\ CacheInv
  BY DEF TypeInv, TypeOK, LifeInv
<1>2. CASE obj' = obj /\ cache' = cache
  BY <1>1, <1>2 DEF CacheInv
<1>3. CASE obj' = obj /\ \E n \in Machines : cache' = [cache EXCEPT ![n] = obj[n]]
  BY <1>1, <1>3 DEF CacheInv
<1>4. CASE Crash
  <2>1. obj' = obj /\ cache' = obj
    BY <1>4 DEF Crash
  <2> QED BY <1>1, <2>1 DEF CacheInv
<1>5. CASE cache' = cache /\ \E m \in Machines :
                /\ obj[m].phase = "live"
                /\ obj' = [obj EXCEPT ![m] = [obj[m] EXCEPT !.phase =
                            IF obj[m].finalizer THEN "deleting" ELSE "gone"]]
  <2>1. PICK m \in Machines :
                /\ obj[m].phase = "live"
                /\ obj' = [obj EXCEPT ![m] = [obj[m] EXCEPT !.phase =
                            IF obj[m].finalizer THEN "deleting" ELSE "gone"]]
    BY <1>5
  <2>2. /\ obj'[m].phase = IF obj[m].finalizer THEN "deleting" ELSE "gone"
        /\ obj'[m].finalizer = obj[m].finalizer
        /\ \A n \in Machines : n # m => obj'[n] = obj[n]
    <3>1. obj'[m] = [obj[m] EXCEPT !.phase =
                        IF obj[m].finalizer THEN "deleting" ELSE "gone"]
      BY <1>1, <2>1
    <3>2. \A n \in Machines : n # m => obj'[n] = obj[n]
      BY <1>1, <2>1
    <3>3. obj[m] \in Object
      BY <1>1
    <3> QED BY <3>1, <3>2, <3>3 DEF Object
  <2>3. ASSUME NEW n \in Machines
        PROVE  /\ obj'[n].phase = "deleting" => obj'[n].finalizer
               /\ cache[n].phase # "live" => obj'[n].phase # "live"
               /\ obj'[n].phase = "finalized" => cache[n].phase # "live"
    BY <1>1, <2>2 DEF CacheInv
  <2> QED BY <1>1, <1>5, <2>3 DEF CacheInv
<1>6. CASE KubeCall
  <2>1. cache' = cache
    BY <1>6, KubeCallEffect
  <2>2. ASSUME NEW n \in Machines
        PROVE  /\ obj'[n].phase = "deleting" => obj'[n].finalizer
               /\ cache[n].phase # "live" => obj'[n].phase # "live"
               /\ obj'[n].phase = "finalized" => cache[n].phase # "live"
    <3>1. (w.pc # "idle" /\ w.base.phase = "deleting") => cache[w.m].phase # "live"
      BY DEF LifeInv, PathInv
    <3> QED BY <1>1, <1>6, <3>1, ReleaseFacts DEF CacheInv
  <2> QED BY <1>1, <2>1, <2>2 DEF CacheInv
<1>7. CASE Environment
  BY <1>2, <1>3, <1>5, <1>7, EnvironmentEffect
<1>8. CASE VultrCall
  BY <1>2, <1>8, VultrCallEffect
<1>9. CASE \/ \E m \in Machines : Begin(m)
           \/ Finish \/ TimeOut \/ UNCHANGED vars
  BY <1>2, <1>9 DEF Begin, Skip, BeginPaused, BeginNormal, BeginDelete, Dequeue,
     Finish, TimeOut, vars, kube
<1> QED BY <1>4, <1>6, <1>7, <1>8, <1>9 DEF Next, WorkerStep

(* At most one server is held, none once the object is let go.              *)
LEMMA HeldStep ==
    ASSUME TypeInv, LifeInv, [Next]_vars
    PROVE  HeldInv'
<1>1. ASSUME NEW m \in Machines, obj'[m].phase = "finalized"
      PROVE  Own(m) = {} /\ (w.pc # "create" \/ m # w.m)
  <2>1. CASE obj[m].phase = "finalized"
    BY <2>1 DEF LifeInv, HeldInv, PathInv, NormalCalls
  <2>2. CASE obj[m].phase # "finalized"
    <3>1. KubeCall
      <4>1. CASE Environment
        <5>1. obj' = obj \/ \E n \in Machines :
                obj' = [obj EXCEPT ![n] = [obj[n] EXCEPT !.phase =
                            IF obj[n].finalizer THEN "deleting" ELSE "gone"]]
          BY <4>1, EnvironmentEffect
        <5>2. obj \in [Machines -> Object]
          BY DEF TypeInv, TypeOK
        <5>3. ASSUME NEW n \in Machines,
                     obj' = [obj EXCEPT ![n] = [obj[n] EXCEPT !.phase =
                               IF obj[n].finalizer THEN "deleting" ELSE "gone"]]
              PROVE  obj'[m].phase \in {obj[m].phase, "deleting", "gone"}
          <6>1. obj[n] \in Object /\ obj'[m] = IF m = n THEN obj'[n] ELSE obj[m]
            BY <5>2, <5>3
          <6>2. obj'[n] = [obj[n] EXCEPT !.phase =
                             IF obj[n].finalizer THEN "deleting" ELSE "gone"]
            BY <5>2, <5>3
          <6>3. obj'[n].phase = IF obj[n].finalizer THEN "deleting" ELSE "gone"
            BY <6>1, <6>2 DEF Object
          <6> QED BY <6>1, <6>3
        <5>4. obj'[m].phase \in {obj[m].phase, "deleting", "gone"}
          BY <5>1, <5>3
        <5> QED BY <1>1, <2>2, <5>4
      <4>2. CASE VultrCall
        BY <1>1, <2>2, <4>2, VultrCallEffect
      <4>3. CASE \/ \E n \in Machines : Begin(n)
                 \/ Finish \/ TimeOut \/ Crash \/ UNCHANGED vars
        BY <1>1, <2>2, <4>3 DEF Begin, Skip, BeginPaused, BeginNormal, BeginDelete,
           Dequeue, Finish, TimeOut, Crash, vars, kube
      <4> QED BY <4>1, <4>2, <4>3 DEF Next, WorkerStep
    <3> QED BY <1>1, <2>2, <3>1, ReleaseFacts
  <2> QED BY <2>1, <2>2
<1>2. ASSUME NEW m \in Machines
      PROVE  /\ \A i, j \in Own(m)' : i = j
             /\ obj'[m].phase = "finalized" => Own(m)' = {}
  <2>1. \A i, j \in Own(m) : i = j
    BY DEF LifeInv, HeldInv
  <2>2. CASE Own(m)' \subseteq Own(m)
    BY <1>1, <2>1, <2>2
  <2>3. CASE \E i \in ServerIDs :
                w.pc = "create" /\ Own(m)' = IF m = w.m THEN {i} ELSE Own(m)
    BY <1>1, <2>1, <2>3
  <2> QED BY <2>2, <2>3, OwnEffect DEF LifeInv
<1> QED BY <1>2 DEF HeldInv

(* The worker's knowledge stays true.                                       *)
LEMMA PathStep ==
    ASSUME TypeInv, LifeInv, [Next]_vars
    PROVE  PathInv'
<1>1. CASE Finish \/ Crash
  <2>1. w'.pc = "idle"
    BY <1>1, IdleType DEF Finish, Crash
  <2> QED BY <2>1 DEF PathInv, NormalCalls, DeleteCalls, CloseCalls
<1>2. ASSUME NEW m \in Machines, BeginPaused(m) \/ BeginNormal(m) \/ BeginDelete(m)
      PROVE  PathInv'
  <2>1. /\ w'.m = m /\ w'.base = cache[m] /\ Exists(cache[m])
        /\ obj' = obj /\ cache' = cache
    BY <1>2, BeginEffect
  <2>2. \/ w'.pc = "paused"
        \/ /\ cache[m].phase = "live" /\ w'.mem.finalizer
           /\ w'.pc \in {"get", "list"} \cup Closing
        \/ /\ cache[m].phase = "deleting" /\ w'.mem.finalizer = cache[m].finalizer
           /\ w'.pc \in {"rmGet", "delete", "delList"}
    BY <1>2, BeginEffect
  <2>3. /\ cache[m].phase = "deleting" => cache[m].finalizer
        /\ cache[m].phase = "live" => obj[m].phase # "finalized"
    BY DEF LifeInv, CacheInv
  <2> QED BY <2>1, <2>2, <2>3 DEF PathInv, NormalCalls, DeleteCalls, Closing,
             CloseCalls
<1>3. CASE VultrCall
  <2>1. PathAfterCall /\ obj' = obj /\ cache' = cache
    BY <1>3, VultrCallEffect DEF CallEffect
  <2>2. w.m \in Machines /\ w.pc # "idle"
    BY <2>1 DEF PathAfterCall, NormalCalls, DeleteCalls, TypeInv, WorkerOK
  <2>3. (Matches(w.m) = {} /\ srv' = srv /\ w'.m = w.m) => Own(w.m)' = {}
    BY <2>2, OwnMatches DEF Own, Listed
  <2>4. w'.pc = "create" => Own(w.m)' = {}
    BY <2>1, <2>3 DEF PathAfterCall
  <2>5. (w'.pc \in CloseCalls /\ ~w'.mem.finalizer)
            => w.base.phase = "deleting" /\ Own(w.m)' = {}
    BY <2>1, <2>3 DEF PathAfterCall, LifeInv, PathInv, DeleteCalls
  <2>6. w'.pc \in NormalCalls \cup DeleteCalls => w'.mem.finalizer
    BY <2>1 DEF PathAfterCall, LifeInv, PathInv, NormalCalls, DeleteCalls, Closing,
       CloseCalls
  <2>7. /\ w'.pc \in NormalCalls => w.pc \in NormalCalls
        /\ w'.pc \in DeleteCalls => w.pc \in DeleteCalls
    BY <2>1 DEF PathAfterCall, NormalCalls, DeleteCalls, Closing, CloseCalls
  <2>8. w'.m = w.m /\ w'.base = w.base
    BY <2>1 DEF PathAfterCall
  <2> QED BY <2>1, <2>2, <2>4, <2>5, <2>6, <2>7, <2>8 DEF LifeInv, PathInv
<1>4. CASE KubeCall
  <2>1. /\ cache' = cache /\ w'.m = w.m /\ w'.base = w.base /\ w'.mem = w.mem
        /\ w.m \in Machines /\ w.pc \in CloseCalls \cup {"paused"}
        /\ w'.pc \in Closing /\ (w.pc = "paused" => w'.pc = "done") /\ srv' = srv
    BY <1>4, KubeCallEffect
  <2>2. w.base.phase = "live" => obj'[w.m].phase # "finalized"
    BY <1>4, <2>1, ReleaseFacts DEF LifeInv, PathInv, CloseCalls
  <2>3. Own(w.m)' = Own(w.m)
    BY <2>1 DEF Own, Listed
  <2> QED BY <2>1, <2>2, <2>3 DEF LifeInv, PathInv, NormalCalls, DeleteCalls,
             Closing, CloseCalls
<1>5. CASE TimeOut
  <2>1. /\ w' = [w EXCEPT !.pc = "done", !.retry = TRUE] /\ w.pc # "idle"
        /\ w \in Worker /\ obj' = obj /\ cache' = cache
    BY <1>5 DEF TimeOut, Call, kube, TypeInv, TypeOK
  <2>2. w'.pc = "done" /\ w'.m = w.m /\ w'.base = w.base
    BY <2>1 DEF Worker
  <2> QED BY <2>1, <2>2 DEF LifeInv, PathInv, NormalCalls, DeleteCalls, CloseCalls
<1>6. CASE Environment
  <2>1. w' = w
    BY <1>6, EnvironmentEffect
  <2>2. w.pc # "idle" => w.m \in Machines
    BY DEF TypeInv, WorkerOK
  <2>3. \A m \in Machines : Own(m)' \subseteq Own(m)
    <3>1. ~(VultrCall /\ w.pc = "create")
      <4>1. VultrCall => PathAfterCall
        BY VultrCallEffect DEF CallEffect
      <4> QED BY <2>1, <4>1 DEF PathAfterCall
    <3> QED BY <3>1, OwnEffect DEF LifeInv
  <2>4. ASSUME NEW m \in Machines
        PROVE  /\ obj[m].phase # "finalized" => obj'[m].phase # "finalized"
               /\ cache[m].phase # "live" => cache'[m].phase # "live"
    <3>1. cache[m].phase # "live" => obj[m].phase # "live"
      BY DEF LifeInv, CacheInv
    <3>2. obj \in [Machines -> Object] /\ cache \in [Machines -> Object]
      BY DEF TypeInv, TypeOK
    <3> QED BY <1>6, <3>1, <3>2, EnvironmentEffect DEF Object
  <2> QED BY <2>1, <2>2, <2>3, <2>4 DEF LifeInv, PathInv, NormalCalls, DeleteCalls,
             CloseCalls
<1>7. CASE (\E m \in Machines : Skip(m)) \/ UNCHANGED vars
  <2>1. w' = w /\ obj' = obj /\ cache' = cache /\ srv' = srv
    BY <1>7 DEF Skip, Dequeue, vars, vultr
  <2>2. Own(w.m)' = Own(w.m)
    BY <2>1 DEF Own, Listed
  <2> QED BY <2>1, <2>2 DEF LifeInv, PathInv
<1> QED BY <1>1, <1>2, <1>3, <1>4, <1>5, <1>6, <1>7 DEF Next, Begin, WorkerStep

(* LifeInv holds always.                                                    *)
LEMMA LifeInvariance == Spec => []LifeInv
<1>1. TypeInv /\ LifeInv /\ [Next]_vars => LifeInv'
  BY CacheStep, HeldStep, PathStep DEF LifeInv
<1> QED BY <1>1, LifeInit, TypeInvariance, PTL DEF Spec

-----------------------------------------------------------------------------
(* The refinement of MachineLifecycle *)

LifecycleStep == [Lifecycle!Next]_(Lifecycle!vars)

SamePhases == \A m \in Machines : obj'[m].phase = obj[m].phase

SameServers == \A m \in Machines : Own(m)' = Own(m)

(* When the manager starts all objects are live and no server is held.      *)
LEMMA LifecycleInit == Init => Lifecycle!Init
<1> SUFFICES ASSUME Init PROVE Lifecycle!Init
  OBVIOUS
<1>1. \A m \in Machines : obj[m].phase = "live"
  BY DEF Init, NewObject
<1>2. \A m \in Machines : Own(m) = {}
  BY ServersAtStart, ConstantsAssumption DEF Own, Listed
<1> QED BY <1>1, <1>2 DEF Lifecycle!Init

(* A step that changes neither phases nor listed servers.                   *)
LEMMA Stutters == SamePhases /\ SameServers => LifecycleStep
<1> SUFFICES ASSUME SamePhases, SameServers PROVE UNCHANGED Lifecycle!vars
  BY DEF LifecycleStep
<1> QED BY DEF SamePhases, SameServers, Lifecycle!vars

(* Servers that are left alone are listed as before.                        *)
LEMMA ServersStay == srv' = srv => SameServers
  BY DEF SameServers, Own, Listed

(* No step changes both an object and a server.                             *)
LEMMA OneSide ==
    ASSUME TypeInv, [Next]_vars
    PROVE  \/ obj' = obj
           \/ srv' = srv /\ (KubeCall \/ \E m \in Machines : DeleteObject(m))
<1>1. CASE VultrCall
  BY <1>1, VultrCallEffect
<1>2. CASE KubeCall
  BY <1>2, KubeCallEffect
<1>3. CASE Environment
  BY <1>3 DEF Environment, CacheSync, Event, OwnerAdvances, DeleteObject,
     ClusterAppears, ClusterReady, ClusterLost, Pause, Unpause, InfraChanges,
     LoadBalancerActive, OtherGet, OtherUpdate, ServerActive, VPCAttached, ServerOdd,
     ServerLost, ServerChanges, ListCatchesUp, kube, vultr
<1>4. CASE \/ \E m \in Machines : Begin(m)
           \/ Finish \/ TimeOut \/ Crash \/ UNCHANGED vars
  BY <1>4 DEF Begin, Skip, BeginPaused, BeginNormal, BeginDelete, Dequeue,
     Finish, TimeOut, Crash, vars, kube
<1> QED BY <1>1, <1>2, <1>3, <1>4 DEF Next, WorkerStep

(* A server grows older: its machine, which has no other, loses it when the *)
(* listing forgets it.                                                      *)
LEMMA AgeStep ==
    ASSUME TypeInv, LifeInv, SamePhases, NEW i \in ServerIDs, NEW new \in Server,
           srv' = [srv EXCEPT ![i] = new], Ages(srv[i], new)
    PROVE  LifecycleStep
<1>1. srv \in [ServerIDs -> Server]
  BY DEF TypeInv, TypeOK
<1>2. CASE \/ new.place = srv[i].place
           \/ srv[i].place = "running" /\ new.place = "destroyed"
           \/ srv[i].maker \notin Machines
  <2>1. SameServers
    BY <1>1, <1>2 DEF SameServers, Own, Listed, Ages
  <2> QED BY <2>1, Stutters
<1>3. CASE srv[i].place = "destroyed" /\ new.place = "purged" /\ srv[i].maker \in Machines
  <2> DEFINE m == srv[i].maker
  <2>1. i \in Own(m)
    BY <1>3 DEF Own, Listed
  <2>2. Own(m) = {i}
    BY <1>3, <2>1 DEF LifeInv, HeldInv
  <2>3. ASSUME NEW n \in Machines
        PROVE  Own(n)' = IF n = m THEN {} ELSE Own(n)
    <3>1. Own(n)' = Own(n) \ {i}
      BY <1>1, <1>3 DEF Own, Listed, Ages
    <3>2. n # m => i \notin Own(n)
      BY DEF Own
    <3> QED BY <2>2, <3>1, <3>2
  <2>4. Lifecycle!Lose(m)
    BY <1>3, <2>2, <2>3 DEF Lifecycle!Lose, SamePhases
  <2> QED BY <1>3, <2>4 DEF LifecycleStep, Lifecycle!Next
<1> QED BY <1>2, <1>3 DEF Ages

(* A create, answered or not, makes the only server of a machine that was   *)
(* not let go.                                                              *)
LEMMA MakeStep ==
    ASSUME TypeInv, LifeInv, SamePhases, NEW i \in ServerIDs, NEW new \in Server,
           srv' = [srv EXCEPT ![i] = new], Makes(i, new)
    PROVE  LifecycleStep
<1>1. /\ w.m \in Machines /\ Own(w.m) = {} /\ obj[w.m].phase # "finalized"
      /\ srv \in [ServerIDs -> Server]
  BY DEF Makes, TypeInv, TypeOK, WorkerOK, LifeInv, PathInv, NormalCalls
<1>2. PICK m \in Machines : m = w.m
  BY <1>1
<1>3. /\ srv'[i].place = "running" /\ srv'[i].maker = m
      /\ \A j \in ServerIDs : j # i => srv'[j] = srv[j]
  BY <1>1, <1>2 DEF Makes
<1>4. ASSUME NEW n \in Machines
      PROVE  Own(n)' = IF n = m THEN {i} ELSE Own(n)
  <2>1. CASE n = m
    <3>1. Own(n) = {}
      BY <1>1, <1>2, <2>1
    <3> QED BY <1>3, <2>1, <3>1 DEF Own, Listed
  <2>2. CASE n # m
    <3>1. srv[i].place = "free"
      BY DEF Makes
    <3> QED BY <1>3, <2>2, <3>1 DEF Own, Listed
  <2> QED BY <2>1, <2>2
<1>5. Own(m) = {} /\ obj[m].phase # "finalized"
  BY <1>1, <1>2
<1>6. Lifecycle!Make(m, i)
  BY <1>4, <1>5 DEF Lifecycle!Make, SamePhases
<1> QED BY <1>6 DEF LifecycleStep, Lifecycle!Next

(* The deletion of an object, and its end.                                  *)
LEMMA PhaseStep ==
    ASSUME TypeInv, LifeInv, srv' = srv,
           KubeCall \/ \E m \in Machines : DeleteObject(m)
    PROVE  LifecycleStep
<1>1. SameServers
  BY ServersStay
<1>2. ASSUME NEW m \in Machines, DeleteObject(m)
      PROVE  LifecycleStep
  <2>1. /\ obj[m].phase = "live" /\ obj \in [Machines -> Object]
        /\ obj' = [obj EXCEPT ![m].phase = IF obj[m].finalizer THEN "deleting" ELSE "gone"]
    BY <1>2 DEF DeleteObject, TypeInv, TypeOK
  <2>2. PICK p \in {"deleting", "gone"} :
            \A n \in Machines : obj'[n].phase = IF n = m THEN p ELSE obj[n].phase
    BY <2>1 DEF Object
  <2>3. Lifecycle!Delete(m)
    BY <1>1, <2>1, <2>2 DEF Lifecycle!Delete, SameServers
  <2> QED BY <2>3 DEF LifecycleStep, Lifecycle!Next
<1>3. CASE KubeCall /\ SamePhases
  BY <1>1, <1>3, Stutters
<1>4. CASE KubeCall /\ ~SamePhases
  <2>1. PICK m \in Machines : obj'[m].phase # obj[m].phase
    BY <1>4 DEF SamePhases
  <2>2. /\ m = w.m /\ obj[m].phase = "deleting" /\ obj'[m].phase = "finalized"
        /\ Own(m) = {}
    BY <1>4, <2>1, ReleaseFacts
  <2>3. \A n \in Machines : obj'[n].phase = IF n = m THEN "finalized" ELSE obj[n].phase
    BY <1>4, <2>2, ReleaseFacts
  <2>4. Lifecycle!Release(m)
    BY <1>1, <2>2, <2>3 DEF Lifecycle!Release, SameServers
  <2> QED BY <2>4 DEF LifecycleStep, Lifecycle!Next
<1> QED BY <1>2, <1>3, <1>4

(* Every step of the model is a step of MachineLifecycle or a stuttering one.*)
LEMMA NextStep == TypeInv /\ LifeInv /\ [Next]_vars => [Lifecycle!Next]_(Lifecycle!vars)
<1> SUFFICES ASSUME TypeInv, LifeInv, [Next]_vars PROVE LifecycleStep
  BY DEF LifecycleStep
<1>1. CASE obj' = obj
  <2>1. SamePhases
    BY <1>1 DEF SamePhases
  <2> QED BY <2>1, ServerEffect, AgeStep, MakeStep, ServersStay, Stutters
<1>2. CASE srv' = srv /\ (KubeCall \/ \E m \in Machines : DeleteObject(m))
  BY <1>2, PhaseStep
<1> QED BY <1>1, <1>2, OneSide

(* The VultrBareMetalMachine controller implements MachineLifecycle: a      *)
(* machine object holds at most one server, and its finalizer lets it go    *)
(* only when it holds none and never will, although the provider ID is      *)
(* written only by Close, which a timeout or a restart may keep from        *)
(* running.                                                                 *)
THEOREM BareMetalRefinement == Spec => ImplementsLifecycle
<1>1. Spec => Lifecycle!Spec
  BY LifecycleInit, NextStep, TypeInvariance, LifeInvariance, PTL
  DEF Spec, Lifecycle!Spec
<1> QED BY <1>1 DEF ImplementsLifecycle

-----------------------------------------------------------------------------
(* Terminal failures *)

(* A reconcile that read a terminal failure of a live object changes        *)
(* nothing.                                                                 *)
LEMMA StickyInit == Init => StickyInv
  BY IdleType DEF Init, StickyInv, NormalCalls, CloseCalls

(* Every step keeps that.                                                   *)
LEMMA StickyStep == TypeInv /\ LifeInv /\ StickyInv /\ [Next]_vars => StickyInv'
<1> SUFFICES ASSUME TypeInv, LifeInv, StickyInv, [Next]_vars PROVE StickyInv'
  OBVIOUS
<1>1. CASE Finish \/ Crash
  BY <1>1, IdleType DEF Finish, Crash, StickyInv, NormalCalls, CloseCalls
<1>2. ASSUME NEW m \in Machines, BeginPaused(m) \/ BeginNormal(m) \/ BeginDelete(m)
      PROVE  StickyInv'
  <2>1. /\ w'.base = cache[m]
        /\ \/ w'.pc = "paused"
           \/ ~HasTerminalFailure(cache[m])
           \/ cache[m].phase = "deleting"
    BY <1>2, BeginEffect
  <2> QED BY <2>1 DEF StickyInv, NormalCalls, CloseCalls, HasTerminalFailure
<1>3. CASE VultrCall
  <2>1. /\ w'.base = w.base
        /\ \/ w.pc \in NormalCalls
           \/ w.pc \in DeleteCalls
    BY <1>3, VultrCallEffect DEF CallEffect, PathAfterCall, DeleteCalls
  <2>2. w.pc \in DeleteCalls => w.base.phase # "live"
    BY DEF LifeInv, PathInv
  <2> QED BY <2>1, <2>2 DEF StickyInv
<1>4. CASE KubeCall
  <2>1. w'.base = w.base /\ (w.pc \in CloseCalls \/ w'.pc = "done")
    BY <1>4, KubeCallEffect
  <2> QED BY <2>1 DEF StickyInv, NormalCalls, CloseCalls
<1>5. CASE TimeOut
  <2>1. w'.pc = "done"
    BY <1>5 DEF TimeOut, TypeInv, TypeOK, Worker
  <2> QED BY <2>1 DEF StickyInv, NormalCalls, CloseCalls
<1>6. CASE Environment \/ (\E m \in Machines : Skip(m)) \/ UNCHANGED vars
  <2>1. w' = w
    BY <1>6, EnvironmentEffect DEF Skip, vars
  <2> QED BY <2>1 DEF StickyInv
<1> QED BY <1>1, <1>2, <1>3, <1>4, <1>5, <1>6 DEF Next, Begin, WorkerStep

(* A terminal failure stays the reason of a live machine: a reconcile that  *)
(* began from a stale read finds, when it patches the condition, a reason   *)
(* that it has not read, and gives way.                                     *)
THEOREM TerminalStays == Spec => TerminalIsSticky
<1>1. TypeInv /\ LifeInv /\ StickyInv /\ [Next]_vars
        => [\A m \in Machines :
              (/\ obj[m].phase = "live" /\ obj'[m].phase = "live"
               /\ obj[m].reason \in {"UnexpectedStatus", "VPCAttachFailed"})
              => obj'[m].reason = obj[m].reason]_vars
  <2> SUFFICES ASSUME TypeInv, LifeInv, StickyInv, Next, NEW m \in Machines,
                      obj[m].phase = "live", obj'[m].phase = "live",
                      obj[m].reason \in TerminalReasons
               PROVE  obj'[m].reason = obj[m].reason
    BY DEF TerminalReasons
  <2>1. obj \in [Machines -> Object]
    BY DEF TypeInv, TypeOK
  <2>2. CASE obj' = obj
    BY <2>2
  <2>3. ASSUME NEW n \in Machines, DeleteObject(n)
        PROVE  obj'[m].reason = obj[m].reason
    BY <2>1, <2>3 DEF DeleteObject, Object
  <2>4. CASE KubeCall /\ obj' # obj
    <3>1. PICK p \in Object : /\ obj' = [obj EXCEPT ![w.m] = p]
                              /\ PatchedTo(obj[w.m], p)
      BY <2>4, KubeCallEffect
    <3>2. CASE m # w.m
      BY <2>1, <3>1, <3>2
    <3>3. CASE m = w.m
      <4>1. obj'[m] = p
        BY <2>1, <3>1, <3>3
      <4>2. \/ p.reason = obj[m].reason
            \/ /\ w.pc = "conditions" /\ p.reason = w.mem.reason
               /\ obj[m].reason \in {w.base.reason, w.mem.reason}
        BY <3>1, <3>3 DEF PatchedTo
      <4>3. w.pc = "conditions" => w.base.phase # "deleting"
        BY <3>3 DEF LifeInv, PathInv, CacheInv
      <4>4. w.pc = "conditions" => w.base.reason \notin TerminalReasons
        BY <4>3 DEF LifeInv, PathInv, Exists, StickyInv, CloseCalls
      <4> QED BY <4>1, <4>2, <4>4
    <3> QED BY <3>2, <3>3
  <2> QED BY <2>2, <2>3, <2>4, OneSide
<1>2. TypeInv /\ LifeInv /\ StickyInv /\ [Next]_vars => StickyInv'
  BY StickyStep
<1>3. Spec => []StickyInv
  BY <1>2, StickyInit, TypeInvariance, LifeInvariance, PTL DEF Spec
<1> QED BY <1>1, <1>3, TypeInvariance, LifeInvariance, PTL DEF Spec, TerminalIsSticky

-----------------------------------------------------------------------------
(* Servers, their makers and the provider IDs *)

(* A server that was made keeps its maker, and its VPC.                     *)
LEMMA MakerKept ==
    ASSUME TypeInv, MakerInv, [Next]_vars, NEW i \in ServerIDs,
           srv[i].maker \in Machines
    PROVE  /\ srv'[i].maker = srv[i].maker
           /\ srv[i].vpc = "attached" => srv'[i].vpc = "attached"
<1>1. srv \in [ServerIDs -> Server] /\ srv[i].place # "free"
  BY ConstantsAssumption DEF TypeInv, TypeOK, MakerInv
<1> QED BY <1>1, ServerEffect DEF Ages, Makes

(* Every server that was made has its maker.                                *)
LEMMA MakerStep == TypeInv /\ MakerInv /\ [Next]_vars => MakerInv'
<1> SUFFICES ASSUME TypeInv, MakerInv, [Next]_vars, NEW i \in ServerIDs
             PROVE  IF srv'[i].place = "free" THEN srv'[i].maker = NoMachine
                                              ELSE srv'[i].maker \in Machines \cup Foreign
  BY DEF MakerInv
<1>1. /\ srv \in [ServerIDs -> Server] /\ (w.pc = "create" => w.m \in Machines)
      /\ IF srv[i].place = "free" THEN srv[i].maker = NoMachine
                                  ELSE srv[i].maker \in Machines \cup Foreign
  BY DEF TypeInv, TypeOK, MakerInv, WorkerOK
<1>2. \/ srv'[i] = srv[i]
      \/ Ages(srv[i], srv'[i])
      \/ w.pc = "create" /\ srv'[i].place = "running" /\ srv'[i].maker = w.m
  BY <1>1, ServerEffect DEF Makes
<1> QED BY <1>1, <1>2 DEF Ages

(* A server that matches was made for the machine.                          *)
LEMMA MatchesOwn ==
    ASSUME MakerInv, NEW m \in Machines, NEW i \in Matches(m)
    PROVE  srv[i].maker = m
<1>1. /\ i \in ServerIDs /\ srv[i].place # "free"
      /\ NameOf[srv[i].maker] = NameOf[m] /\ ClusterOf[srv[i].maker] = ClusterOf[m]
  BY DEF Matches, Listed, TagsOwnedByMachine
<1>2. srv[i].maker \in Machines \cup Foreign
  BY <1>1 DEF MakerInv
<1> QED BY <1>1, <1>2, NamesAssumption

(* The server that is taken in hand was made for the machine.               *)
LEMMA TakesOwn ==
    ASSUME TypeInv, MakerInv, IdInv, NEW i \in ServerIDs, Takes(i)
    PROVE  srv'[i].maker = w.m
<1>1. w.m \in Machines /\ w.pc # "idle" /\ srv \in [ServerIDs -> Server]
  BY DEF Takes, TypeInv, TypeOK, WorkerOK
<1>2. CASE w.pc = "get" /\ i = w.mem.providerID /\ srv' = srv
  BY <1>1, <1>2, ConstantsAssumption DEF IdInv, HasOwnID
<1>3. CASE w.pc = "list" /\ Matches(w.m) = {i} /\ srv' = srv
  BY <1>1, <1>3, MatchesOwn
<1>4. CASE w.pc = "create" /\ Created(i)
  BY <1>1, <1>4 DEF Created
<1> QED BY <1>2, <1>3, <1>4 DEF Takes

(* No provider IDs at first.                                                *)
LEMMA IdInit == Init => MakerInv /\ IdInv
<1> SUFFICES ASSUME Init PROVE MakerInv /\ IdInv
  OBVIOUS
<1>1. w.pc = "idle"
  BY IdleType DEF Init
<1> QED BY <1>1, ServersAtStart DEF Init, MakerInv, IdInv, HasOwnID, NewObject, ServerCalls

(* A provider ID stays the ID of an own server.                             *)
LEMMA OwnIDKept ==
    ASSUME TypeInv, MakerInv, [Next]_vars, NEW o \in Object, NEW m \in Machines,
           HasOwnID(o, m), o.providerID # NoID
    PROVE  srv'[o.providerID].maker = m
<1>1. o.providerID \in ServerIDs /\ srv[o.providerID].maker = m
  BY DEF HasOwnID, Object, MaybeID
<1> QED BY <1>1, MakerKept

(* The cache of an object changes only to the object.                       *)
LEMMA CacheReads ==
    ASSUME TypeInv, [Next]_vars, NEW m \in Machines
    PROVE  cache'[m] \in {cache[m], obj[m]}
<1>1. cache \in [Machines -> Object]
  BY DEF TypeInv, TypeOK
<1>2. CASE VultrCall \/ KubeCall \/ Environment
  BY <1>1, <1>2, VultrCallEffect, KubeCallEffect, EnvironmentEffect
<1>3. CASE \/ \E n \in Machines : Begin(n)
           \/ Finish \/ TimeOut \/ Crash \/ UNCHANGED vars
  BY <1>3 DEF Begin, Skip, BeginPaused, BeginNormal, BeginDelete, Dequeue,
     Finish, TimeOut, Crash, vars, kube
<1> QED BY <1>2, <1>3 DEF Next, WorkerStep

(* Every step keeps provider IDs those of own servers.                      *)
LEMMA IdStep == TypeInv /\ MakerInv /\ IdInv /\ [Next]_vars => IdInv'
<1> SUFFICES ASSUME TypeInv, MakerInv, IdInv, [Next]_vars PROVE IdInv'
  OBVIOUS
<1>1. /\ obj \in [Machines -> Object] /\ cache \in [Machines -> Object] /\ w \in Worker
      /\ w.base \in Object /\ w.mem \in Object /\ (w.pc # "idle" => w.m \in Machines)
      /\ obj' \in [Machines -> Object]
  BY TypeObjects DEF TypeInv, TypeOK, WorkerOK, Worker
<1>2. ASSUME NEW m \in Machines
      PROVE  HasOwnID(obj[m], m)' /\ HasOwnID(cache[m], m)'
  <2>1. /\ obj[m] \in Object /\ cache[m] \in Object
        /\ HasOwnID(obj[m], m) /\ HasOwnID(cache[m], m)
    BY <1>1 DEF IdInv
  <2>2. \/ obj'[m].providerID = obj[m].providerID
        \/ /\ m = w.m /\ w.pc # "idle"
           /\ obj'[m].providerID \in {obj[m].providerID, w.mem.providerID}
    <3>1. CASE KubeCall /\ obj' # obj
      <4>1. PICK p \in Object : /\ obj' = [obj EXCEPT ![w.m] = p]
                                /\ PatchedTo(obj[w.m], p)
        BY <3>1, KubeCallEffect
      <4>2. w.pc # "idle"
        BY <3>1, KubeCallEffect DEF CloseCalls
      <4> QED BY <1>1, <4>1, <4>2 DEF PatchedTo, Merged
    <3>2. ASSUME NEW n \in Machines, DeleteObject(n)
          PROVE  obj'[m].providerID = obj[m].providerID
      <4>1. PICK x : obj' = [obj EXCEPT ![n] = [obj[n] EXCEPT !.phase = x]]
        BY <3>2 DEF DeleteObject
      <4>2. obj[n] \in Object
        BY <1>1
      <4>3. CASE m = n
        BY <1>1, <4>1, <4>2, <4>3 DEF Object
      <4>4. CASE m # n
        BY <1>1, <4>1, <4>4
      <4> QED BY <4>3, <4>4
    <3> QED BY <3>1, <3>2, OneSide
  <2>3. HasOwnID(obj[m], m)'
    <3>1. CASE obj'[m].providerID = obj[m].providerID
      BY <2>1, <3>1, OwnIDKept DEF HasOwnID
    <3>2. CASE m = w.m /\ w.pc # "idle" /\ obj'[m].providerID = w.mem.providerID
      <4>1. HasOwnID(w.mem, m)
        BY <3>2 DEF IdInv
      <4> QED BY <1>1, <3>2, <4>1, OwnIDKept DEF HasOwnID
    <3> QED BY <2>2, <3>1, <3>2
  <2>4. cache'[m] \in {cache[m], obj[m]}
    BY CacheReads
  <2>5. HasOwnID(cache[m], m)'
    BY <2>1, <2>4, OwnIDKept DEF HasOwnID
  <2> QED BY <2>3, <2>5
<1>3. /\ w'.pc # "idle" => HasOwnID(w.base, w.m)' /\ HasOwnID(w.mem, w.m)'
      /\ w'.pc \in ServerCalls \cup {"delRemaining"} => srv'[w'.id].maker = w'.m
  <2>1. ASSUME w.pc # "idle"
        PROVE  /\ w.base.providerID # NoID => srv'[w.base.providerID].maker = w.m
               /\ w.mem.providerID # NoID => srv'[w.mem.providerID].maker = w.m
    BY <1>1, <2>1, OwnIDKept DEF IdInv
  <2>2. w.pc \in ServerCalls \cup {"delRemaining"}
          => w.id \in ServerIDs /\ srv'[w.id].maker = w.m
    <3>1. w.pc \in ServerCalls \cup {"delRemaining"}
            => w.id \in ServerIDs /\ srv[w.id].maker \in Machines
      BY <1>1 DEF IdInv, TypeInv, WorkerOK, ServerCalls
    <3> QED BY <3>1, MakerKept DEF IdInv
  <2>3. CASE Finish \/ Crash
    BY <2>3, IdleType DEF Finish, Crash, ServerCalls
  <2>4. ASSUME NEW m \in Machines, BeginPaused(m) \/ BeginNormal(m) \/ BeginDelete(m)
        PROVE  /\ HasOwnID(w.base, w.m)' /\ HasOwnID(w.mem, w.m)'
               /\ w'.pc \in ServerCalls \cup {"delRemaining"}
                    => srv'[w'.id].maker = w'.m
    <3>1. /\ w'.m = m /\ w'.base = cache[m] /\ srv' = srv
          /\ w'.mem.providerID = cache[m].providerID
          /\ w'.pc \in ServerCalls => w'.id = cache[m].providerID /\ w'.id \in ServerIDs
          /\ w'.pc # "delRemaining"
      BY <2>4, BeginEffect DEF ServerCalls, Closing, CloseCalls
    <3>2. HasOwnID(cache[m], m)
      BY DEF IdInv
    <3> QED BY <3>1, <3>2, ConstantsAssumption DEF HasOwnID
  <2>5. CASE VultrCall
    <3>1. /\ PathAfterCall /\ HandAfterCall /\ w.pc # "idle"
          /\ w'.base = w.base /\ w'.m = w.m
      BY <2>5, VultrCallEffect DEF CallEffect, PathAfterCall, NormalCalls, DeleteCalls
    <3>2. w'.pc = "delRemaining" => srv'[w'.id].maker = w'.m
      BY <1>1, <3>1, MatchesOwn DEF HandAfterCall
    <3>3. CASE /\ w'.mem.providerID = w.mem.providerID
               /\ w'.pc \in ServerCalls => w.pc \in ServerCalls /\ w'.id = w.id
      BY <2>1, <2>2, <3>1, <3>2, <3>3 DEF HasOwnID
    <3>4. CASE \E i \in ServerIDs : w'.mem.providerID = i /\ w'.id = i /\ Takes(i)
      BY <2>1, <3>1, <3>2, <3>4, TakesOwn DEF HasOwnID
    <3> QED BY <3>1, <3>3, <3>4 DEF HandAfterCall
  <2>6. CASE KubeCall
    <3>1. /\ w'.m = w.m /\ w'.base = w.base /\ w'.mem = w.mem /\ w.pc # "idle"
          /\ w'.pc \notin ServerCalls \cup {"delRemaining"}
      BY <2>6, KubeCallEffect DEF ServerCalls, Closing, CloseCalls
    <3> QED BY <2>1, <3>1 DEF HasOwnID
  <2>7. CASE TimeOut
    <3>1. /\ w'.m = w.m /\ w'.base = w.base /\ w'.mem = w.mem /\ w.pc # "idle"
          /\ w'.pc = "done"
      BY <1>1, <2>7 DEF TimeOut, Call, Worker
    <3> QED BY <2>1, <3>1 DEF HasOwnID, ServerCalls
  <2>8. CASE Environment \/ (\E m \in Machines : Skip(m)) \/ UNCHANGED vars
    <3>1. w' = w
      BY <2>8, EnvironmentEffect DEF Skip, vars
    <3> QED BY <2>1, <2>2, <3>1 DEF HasOwnID
  <2> QED BY <2>3, <2>4, <2>5, <2>6, <2>7, <2>8 DEF Next, Begin, WorkerStep
<1> QED BY <1>2, <1>3 DEF IdInv

(* Provider IDs are those of own servers in every reachable state.          *)
LEMMA IdInvariance == Spec => [](MakerInv /\ IdInv)
<1>1. TypeInv /\ MakerInv /\ IdInv /\ [Next]_vars => (MakerInv /\ IdInv)'
  BY MakerStep, IdStep
<1> QED BY <1>1, IdInit, TypeInvariance, PTL DEF Spec

-----------------------------------------------------------------------------
(* The load balancer *)

(* What a call to Vultr reads from the load balancer and writes to it.      *)
MembersAfterCall ==
    /\ w'.pc # "rmGet"
    /\ w'.pc \in {"lbUpdate", "rmUpdate"} => w'.seen = lb.members /\ lb' = lb
    /\ w'.pc = "delete" =>
        /\ w'.id = w.id
        /\ \/ w.pc = "rmGet" /\ w'.seen = w.seen
           \/ w.pc = "rmGet" /\ lb' = lb /\ w'.seen = {w.id}
           \/ w.pc = "rmGet" /\ lb' = lb /\ w.id \notin lb.members
           \/ w.pc = "rmUpdate" /\ lb'.members = w.seen \ {w.id}

(* What lets it go on to the load balancer, or report the machine as        *)
(* provisioned.                                                             *)
ConnectsAfterCall ==
    /\ w'.pc = "lbGet" /\ w.m \in WantsVPC
        => w.pc = "vpcList" /\ w'.id = w.id /\ srv[w.id].vpc = "attached" /\ srv' = srv
    /\ w'.pc = "lbUpdate" => w.pc = "lbGet" /\ w'.id = w.id /\ srv' = srv
    /\ w'.mem.provisioned = w.mem.provisioned \/ w'.mem.provisioned
    /\ \/ w'.mem.provisioned = w.mem.provisioned
       \/ w.m \notin WantsVPC \cup ControlPlane /\ \E i \in ServerIDs : Takes(i)
       \/ /\ w.pc = "vpcList" /\ srv[w.id].vpc = "attached" /\ srv' = srv
          /\ w.m \notin ControlPlane
       \/ w.pc = "lbGet" /\ w.id \in lb.members /\ srv' = srv /\ lb' = lb
       \/ w.pc = "lbUpdate" /\ lb'.members = w.seen \cup {w.id} /\ srv' = srv

(* A call that has nothing to do with the load balancer.                    *)
LEMMA ElsewhereEffect ==
    ASSUME w'.pc \in Closing \cup {"create", "vpcList", "vpcAttach", "delList",
                                   "delRemaining"},
           w'.mem.provisioned = w.mem.provisioned
    PROVE  MembersAfterCall /\ ConnectsAfterCall
  BY DEF MembersAfterCall, ConnectsAfterCall, Closing, CloseCalls

(* A call that takes a server in hand.                                      *)
LEMMA TakingEffect ==
    ASSUME w \in Worker, NEW i \in ServerIDs, NEW s \in Statuses,
           w' = Found(w, i, s), Takes(i)
    PROVE  MembersAfterCall /\ ConnectsAfterCall
<1>1. /\ w'.pc \in Closing \cup {"vpcList", "lbGet"}
      /\ w'.pc = "lbGet" => w.m \notin WantsVPC
      /\ \/ w'.mem.provisioned = w.mem.provisioned
         \/ w'.mem.provisioned /\ w.m \notin WantsVPC \cup ControlPlane
  BY FoundFacts
<1> QED BY <1>1 DEF MembersAfterCall, ConnectsAfterCall, Closing, CloseCalls

(* A machine is reported as provisioned only when its server is connected,  *)
(* and a list of members is written back as it was read, but for the        *)
(* machine's own server.                                                    *)
LEMMA BalancerEffect ==
    ASSUME TypeInv, VultrCall
    PROVE  MembersAfterCall /\ ConnectsAfterCall
<1>1. w \in Worker /\ srv \in [ServerIDs -> Server]
      /\ lb \in Balancer
  BY DEF TypeInv, TypeOK
<1>2. CASE w' = Returned(w, TRUE)
  <2>1. w'.pc \in Closing /\ w'.mem = w.mem
    BY <1>1, <1>2, ReturnedFacts DEF Ended
  <2> QED BY <2>1, ElsewhereEffect
<1>3. ASSUME NEW reason \in Reasons, w' = Waiting(w, reason)
      PROVE  MembersAfterCall /\ ConnectsAfterCall
  <2>1. w'.pc \in Closing /\ w'.mem.provisioned = w.mem.provisioned
    BY <1>1, <1>3, WaitingFacts DEF Ended
  <2> QED BY <2>1, ElsewhereEffect
<1>4. ASSUME NEW c \in {"create", "vpcAttach", "delList"}, w' = [w EXCEPT !.pc = c]
      PROVE  MembersAfterCall /\ ConnectsAfterCall
  <2>1. w'.pc = c /\ w'.mem = w.mem
    BY <1>1, <1>4 DEF Worker
  <2> QED BY <2>1, ElsewhereEffect
<1>5. CASE GetServer
  <2>1. w.pc = "get" /\ w.mem.providerID \in ServerIDs /\ srv' = srv
    BY <1>5 DEF GetServer, Call, TypeInv, WorkerOK, vultr
  <2>2. CASE w' = Found(w, w.mem.providerID, srv[w.mem.providerID].status)
    <3>1. srv[w.mem.providerID].status \in Statuses
      BY <1>1, <2>1 DEF Server
    <3> QED BY <1>1, <2>1, <2>2, <3>1, TakingEffect DEF Takes
  <2> QED BY <1>2, <1>3, <1>5, <2>2 DEF GetServer, Reasons
<1>6. CASE FindServer
  <2>1. CASE \E i \in ServerIDs : Matches(w.m) = {i} /\ w' = Found(w, i, srv[i].status)
    <3>1. PICK i \in ServerIDs : Matches(w.m) = {i} /\ w' = Found(w, i, srv[i].status)
      BY <2>1
    <3>2. srv[i].status \in Statuses
      BY <1>1 DEF Server
    <3>3. Takes(i)
      BY <1>6, <3>1 DEF FindServer, Call, vultr, Takes
    <3> QED BY <1>1, <3>1, <3>2, <3>3, TakingEffect
  <2> QED BY <1>2, <1>4, <1>6, <2>1 DEF FindServer
<1>7. CASE CreateServer
  <2>1. CASE \E i \in ServerIDs : Created(i) /\ w' = Found(w, i, "pending")
    <3>1. PICK i \in ServerIDs : Created(i) /\ w' = Found(w, i, "pending")
      BY <2>1
    <3>2. Takes(i)
      BY <1>7, <3>1 DEF CreateServer, Call, Takes
    <3> QED BY <1>1, <3>1, <3>2, TakingEffect DEF Statuses
  <2> QED BY <1>3, <1>7, <2>1 DEF CreateServer, Reasons
<1>8. CASE ListVPC
  <2>1. w.pc = "vpcList" /\ srv' = srv
    BY <1>8 DEF ListVPC, Call, vultr
  <2>2. CASE srv[w.id].vpc = "attached" /\ w' = Join(w)
    <3>1. /\ Same(w, w') /\ w'.pc \in Closing \cup {"lbGet"}
          /\ \/ w'.mem.provisioned = w.mem.provisioned
             \/ w'.mem.provisioned /\ w.m \notin ControlPlane
      BY <1>1, <2>2, JoinFacts
    <3> QED BY <2>1, <2>2, <3>1 DEF MembersAfterCall, ConnectsAfterCall, Closing,
               CloseCalls, Same
  <2>3. CASE w' = Returned(SetTerminalFailure(w, "VPCAttachFailed"), FALSE)
    <3>1. w'.pc \in Closing /\ w'.mem.provisioned = w.mem.provisioned
      BY <1>1, <2>3, TerminalFacts DEF Ended, Reasons
    <3> QED BY <3>1, ElsewhereEffect
  <2> QED BY <1>2, <1>4, <1>8, <2>2, <2>3 DEF ListVPC, VPCFails
<1>9. CASE AttachVPC
  <2>1. CASE w' = AttachRequested(w) \/ w' = Returned(w, TRUE)
    BY <1>2, <1>3, <2>1 DEF AttachRequested, Reasons
  <2>2. CASE w' = Returned(SetTerminalFailure(w, "VPCAttachFailed"), FALSE)
    <3>1. w'.pc \in Closing /\ w'.mem.provisioned = w.mem.provisioned
      BY <1>1, <2>2, TerminalFacts DEF Ended, Reasons
    <3> QED BY <3>1, ElsewhereEffect
  <2> QED BY <1>9, <2>1, <2>2 DEF AttachVPC, VPCFails
<1>10. CASE GetLoadBalancer
  <2>1. w.pc = "lbGet" /\ srv' = srv /\ lb' = lb
    BY <1>10 DEF GetLoadBalancer, Call, vultr
  <2>2. CASE w.id \in lb.members /\ w' = Activated(w)
    <3>1. w'.pc \in Closing /\ w'.mem.provisioned
      BY <1>1, <2>2, ActivatedFacts DEF Ended
    <3> QED BY <2>1, <2>2, <3>1 DEF MembersAfterCall, ConnectsAfterCall, Closing,
               CloseCalls
  <2>3. CASE w' = [w EXCEPT !.pc = "lbUpdate", !.seen = lb.members]
    <3>1. w'.pc = "lbUpdate" /\ w'.seen = lb.members /\ w'.id = w.id /\ w'.mem = w.mem
      BY <1>1, <2>3 DEF Worker
    <3> QED BY <2>1, <3>1 DEF MembersAfterCall, ConnectsAfterCall
  <2> QED BY <1>2, <1>3, <1>10, <2>2, <2>3 DEF GetLoadBalancer, Reasons
<1>11. CASE UpdateLoadBalancer
  <2>1. w.pc = "lbUpdate" /\ srv' = srv
    BY <1>11 DEF UpdateLoadBalancer, Call
  <2>2. CASE lb' = MembersWritten(w.seen \cup {w.id}) /\ w' = Activated(w)
    <3>1. w'.pc \in Closing /\ w'.mem.provisioned /\ lb'.members = w.seen \cup {w.id}
      BY <1>1, <2>2, ActivatedFacts DEF Ended, MembersWritten, Balancer
    <3> QED BY <2>1, <3>1 DEF MembersAfterCall, ConnectsAfterCall, Closing, CloseCalls
  <2> QED BY <1>2, <1>3, <1>11, <2>2 DEF UpdateLoadBalancer, Reasons
<1>12. CASE GetForRemoval
  <2>1. w.pc = "rmGet" /\ lb' = lb
    BY <1>12 DEF GetForRemoval, Call, vultr
  <2>2. CASE /\ w' = [w EXCEPT !.seen = lb.members, !.pc = "rmUpdate"]
    <3>1. w'.pc = "rmUpdate" /\ w'.seen = lb.members /\ w'.mem = w.mem
      BY <1>1, <2>2 DEF Worker
    <3> QED BY <2>1, <3>1 DEF MembersAfterCall, ConnectsAfterCall
  <2>3. CASE /\ w' = [w EXCEPT !.seen = lb.members, !.pc = "delete"]
             /\ w.id \notin lb.members \/ lb.members = {w.id}
    <3>1. /\ w'.pc = "delete" /\ w'.seen = lb.members /\ w'.mem = w.mem
          /\ w'.id = w.id
      BY <1>1, <2>3 DEF Worker
    <3> QED BY <2>1, <2>3, <3>1 DEF MembersAfterCall, ConnectsAfterCall
  <2>4. CASE w' = [w EXCEPT !.pc = "delete"]
    <3>1. w'.pc = "delete" /\ w'.seen = w.seen /\ w'.mem = w.mem /\ w'.id = w.id
      BY <1>1, <2>4 DEF Worker
    <3> QED BY <2>1, <3>1 DEF MembersAfterCall, ConnectsAfterCall
  <2> QED BY <1>2, <1>12, <2>2, <2>3, <2>4 DEF GetForRemoval
<1>13. CASE RemoveMember
  <2>1. CASE /\ lb' = MembersWritten(w.seen \ {w.id})
             /\ w' = [w EXCEPT !.pc = "delete"]
    <3>1. /\ w'.pc = "delete" /\ w'.mem = w.mem /\ w'.id = w.id
          /\ lb'.members = w.seen \ {w.id} /\ w.pc = "rmUpdate"
      BY <1>1, <1>13, <2>1 DEF Worker, RemoveMember, Call, MembersWritten, Balancer
    <3> QED BY <3>1 DEF MembersAfterCall, ConnectsAfterCall
  <2> QED BY <1>2, <1>13, <2>1 DEF RemoveMember
<1>14. CASE DeleteServer
  BY <1>2, <1>4, <1>14 DEF DeleteServer
<1>15. CASE FindRemaining
  <2>1. CASE w' = Returned(RemoveFinalizer(w), FALSE)
    <3>1. w'.pc \in Closing /\ w'.mem.provisioned = w.mem.provisioned
      BY <1>1, <2>1, RemoveFinalizerFacts
    <3> QED BY <3>1, ElsewhereEffect
  <2>2. CASE \E i \in ServerIDs : w' = [w EXCEPT !.id = i, !.pc = "delRemaining"]
    <3>1. w'.pc = "delRemaining" /\ w'.mem = w.mem
      BY <1>1, <2>2 DEF Worker
    <3> QED BY <3>1, ElsewhereEffect
  <2> QED BY <1>2, <1>15, <2>1, <2>2 DEF FindRemaining
<1>16. CASE DeleteRemaining
  BY <1>2, <1>16 DEF DeleteRemaining
<1> QED BY <1>5, <1>6, <1>7, <1>8, <1>9, <1>10, <1>11, <1>12, <1>13, <1>14, <1>15,
        <1>16 DEF VultrCall

(* While the worker stands still no server becomes a settled member.        *)
LEMMA MembersWhileWaiting ==
    ASSUME TypeInv, Environment \/ (\E m \in Machines : Skip(m)) \/ UNCHANGED vars
    PROVE  w' = w /\ Settled' \subseteq Settled
<1>1. w' = w
  BY EnvironmentEffect DEF Skip, vars
<1>2. CASE OtherUpdate
  BY <1>1, <1>2, OtherUpdateEffect DEF OtherWrites
<1>3. CASE ~OtherUpdate
  <2>1. lb' = lb \/ lb' = [lb EXCEPT !.active = TRUE]
    BY <1>3 DEF Environment, CacheSync, Event, OwnerAdvances, DeleteObject,
       ClusterAppears, ClusterReady, ClusterLost, Pause, Unpause, InfraChanges,
       LoadBalancerActive, OtherGet, ServerActive, VPCAttached, ServerOdd, ServerLost,
       ServerChanges, ListCatchesUp, Skip, Dequeue, vultr, vars
  <2>2. lb'.members = lb.members /\ lb'.undone = lb.undone
    BY <2>1 DEF TypeInv, TypeOK, Balancer
  <2> QED BY <1>1, <2>2 DEF Settled
<1> QED BY <1>2, <1>3

(* The worker has read no members at first.                                 *)
LEMMA MemberInit == Init => MemberInv
  BY IdleType DEF Init, MemberInv

(* Every step keeps the list that is written back complete.                 *)
LEMMA MemberStep == TypeInv /\ MemberInv /\ [Next]_vars => MemberInv'
<1> SUFFICES ASSUME TypeInv, MemberInv, [Next]_vars PROVE MemberInv'
  OBVIOUS
<1>1. CASE Finish \/ Crash
  BY <1>1, IdleType DEF Finish, Crash, MemberInv
<1>2. ASSUME NEW m \in Machines, BeginPaused(m) \/ BeginNormal(m) \/ BeginDelete(m)
      PROVE  MemberInv'
  <2>1. \/ w'.pc \in {"paused", "get", "list"} \cup Closing
        \/ w'.pc \in {"delList", "rmGet", "delete"} /\ w'.seen = {}
    BY <1>2, BeginEffect
  <2> QED BY <2>1 DEF MemberInv, Closing, CloseCalls
<1>3. CASE VultrCall
  <2>1. MembersAfterCall
    BY <1>3, BalancerEffect
  <2> QED BY <2>1 DEF MembersAfterCall, MemberInv, Settled
<1>4. CASE KubeCall
  <2>1. w'.pc \in Closing
    BY <1>4, KubeCallEffect
  <2> QED BY <2>1 DEF MemberInv, Closing, CloseCalls
<1>5. CASE TimeOut
  <2>1. w'.pc = "done"
    BY <1>5 DEF TimeOut, TypeInv, TypeOK, Worker
  <2> QED BY <2>1 DEF MemberInv
<1>6. CASE Environment \/ (\E m \in Machines : Skip(m)) \/ UNCHANGED vars
  <2>1. w' = w /\ Settled' \subseteq Settled
    BY <1>6, MembersWhileWaiting
  <2> QED BY <2>1 DEF MemberInv
<1> QED BY <1>1, <1>2, <1>3, <1>4, <1>5, <1>6 DEF Next, Begin, WorkerStep

(* MemberInv holds in every reachable state.                                *)
LEMMA MemberInvariance == Spec => []MemberInv
  BY MemberInit, MemberStep, TypeInvariance, PTL DEF Spec

(* A server that reconcileDelete destroys by its provider ID is off the     *)
(* load balancer by then, unless it was seen alone there, the members could *)
(* not be read, or a write of the VultrMachine controller that overlapped   *)
(* the removal has put it back.                                             *)
THEOREM LeavesFirst == Spec => LeavesLoadBalancerFirst
<1>1. TypeInv /\ MemberInv /\ [Next]_vars
      => (\A i \in ServerIDs :
            (/\ w.pc = "delete" /\ w.m \in ControlPlane /\ w' # w
             /\ srv[i].place = "running" /\ srv'[i].place = "destroyed"
             /\ i \in lb.members \ lb.undone)
            => w.seen \in {{}, {i}})
  <2> SUFFICES ASSUME TypeInv, MemberInv, [Next]_vars, NEW i \in ServerIDs,
                      w.pc = "delete", w' # w, srv[i].place = "running",
                      srv'[i].place = "destroyed", i \in lb.members \ lb.undone
               PROVE  w.seen \in {{}, {i}}
    OBVIOUS
  <2>1. /\ srv \in [ServerIDs -> Server] /\ w.id \in ServerIDs
        /\ w.seen \in {{}, {w.id}} \/ w.id \notin Settled
    BY DEF TypeInv, TypeOK, WorkerOK, ServerCalls, MemberInv
  <2>2. CASE VultrCall
    <3>1. Destroyed(w.id)
      BY <2>2, VultrCallEffect DEF ServersAfterCall
    <3>2. i = w.id
      BY <2>1, <3>1 DEF Destroyed
    <3> QED BY <2>1, <3>2 DEF Settled
  <2>3. CASE ~VultrCall
    <3>1. CASE Environment \/ UNCHANGED vars
      BY <3>1, EnvironmentEffect DEF vars
    <3>2. CASE \/ \E m \in Machines : Begin(m)
               \/ KubeCall \/ Finish \/ TimeOut \/ Crash
      <4>1. srv' = srv
        BY <3>2, KubeCallEffect DEF Begin, Skip, BeginPaused, BeginNormal, BeginDelete,
           Dequeue, Finish, TimeOut, Crash, vultr
      <4> QED BY <4>1
    <3> QED BY <2>3, <3>1, <3>2 DEF Next, WorkerStep
  <2> QED BY <2>2, <2>3
<1> QED BY <1>1, TypeInvariance, MemberInvariance, PTL DEF Spec, LeavesLoadBalancerFirst

-----------------------------------------------------------------------------
(* Provisioned machines *)

(* A step does not bring an object back to life, and provisioned is written *)
(* by the status patch alone.                                               *)
LEMMA ObjectEffect ==
    ASSUME TypeInv, [Next]_vars, NEW m \in Machines
    PROVE  /\ obj'[m].phase = "live" => obj[m].phase = "live"
           /\ \/ obj'[m].provisioned = obj[m].provisioned
              \/ /\ m = w.m /\ w.pc = "status"
                 /\ obj'[m].provisioned = Merged(obj[m].provisioned,
                        w.base.provisioned, w.mem.provisioned)
<1>1. obj \in [Machines -> Object]
  BY DEF TypeInv, TypeOK
<1>2. CASE KubeCall /\ obj' # obj
  <2>1. PICK p \in Object : obj' = [obj EXCEPT ![w.m] = p] /\ PatchedTo(obj[w.m], p)
    BY <1>2, KubeCallEffect
  <2>2. CASE m = w.m
    BY <1>1, <2>1, <2>2 DEF PatchedTo
  <2>3. CASE m # w.m
    BY <1>1, <2>1, <2>3
  <2> QED BY <2>2, <2>3
<1>3. ASSUME NEW n \in Machines, DeleteObject(n)
      PROVE  /\ obj'[m].phase = "live" => obj[m].phase = "live"
             /\ obj'[m].provisioned = obj[m].provisioned
  <2>1. PICK x : obj' = [obj EXCEPT ![n] = [obj[n] EXCEPT !.phase = x]]
    BY <1>3 DEF DeleteObject
  <2>2. obj[n] \in Object /\ obj[n].phase = "live"
    BY <1>1, <1>3 DEF DeleteObject
  <2>3. CASE m = n
    BY <1>1, <2>1, <2>2, <2>3 DEF Object
  <2>4. CASE m # n
    BY <1>1, <2>1, <2>4
  <2> QED BY <2>3, <2>4
<1> QED BY <1>2, <1>3, OneSide

(* A connected live machine stays connected: the server that a deletion     *)
(* takes off the load balancer is that of the machine being deleted.        *)
LEMMA ConnectedKept ==
    ASSUME TypeInv, LifeInv, MakerInv, IdInv, MemberInv, [Next]_vars,
           NEW m \in Machines, Connected(m), obj[m].phase = "live"
    PROVE  Connected(m)'
<1>1. PICK i \in ServerIDs : /\ srv[i].maker = m
                             /\ m \in WantsVPC => srv[i].vpc = "attached"
                             /\ m \in ControlPlane => i \in lb.members \cup lb.undone
  BY DEF Connected
<1>2. srv \in [ServerIDs -> Server] /\ srv[i].place # "free"
  BY <1>1, ConstantsAssumption DEF TypeInv, TypeOK, MakerInv
<1>3. srv'[i].maker = m /\ (srv[i].vpc = "attached" => srv'[i].vpc = "attached")
  BY <1>1, <1>2, ServerEffect DEF Ages, Makes
<1>4. i \in lb.members \cup lb.undone => i \in lb'.members \cup lb'.undone
  <2>1. CASE /\ w.pc = "rmUpdate" /\ lb'.members = w.seen \ {w.id}
             /\ lb'.undone = lb.undone \ {w.id}
    <3>1. w.m \in Machines /\ srv[w.id].maker = w.m /\ Settled \subseteq w.seen
      BY <2>1 DEF TypeInv, WorkerOK, IdInv, MemberInv, ServerCalls
    <3>2. obj[w.m].phase # "live"
      BY <2>1, <3>1 DEF LifeInv, PathInv, CacheInv, DeleteCalls
    <3>3. i # w.id
      BY <1>1, <3>1, <3>2
    <3> QED BY <2>1, <3>1, <3>3 DEF Settled
  <2>2. CASE /\ w.pc = "lbUpdate" /\ lb'.members = w.seen \cup {w.id}
             /\ lb'.undone = lb.undone \ {w.id}
    BY <2>2 DEF MemberInv, Settled
  <2> QED BY <2>1, <2>2, LoadBalancerEffect DEF OtherWrites
<1> QED BY <1>1, <1>3, <1>4 DEF Connected

(* No patch takes provisioned back: the reconcile's copy has it whenever    *)
(* what it read had it.                                                     *)
LEMMA ProvisionedKept ==
    ASSUME TypeInv, ConnectedInv, [Next]_vars, NEW m \in Machines, obj[m].provisioned
    PROVE  obj'[m].provisioned
<1>1. w.base \in Object /\ w.mem \in Object
  BY DEF TypeInv, TypeOK, Worker
<1>2. w.pc = "status" => (w.base.provisioned => w.mem.provisioned)
  BY DEF ConnectedInv
<1> QED BY <1>1, <1>2, ObjectEffect DEF Merged, Object

(* A call that reports the machine as provisioned finds it connected.       *)
LEMMA ReportsConnected ==
    ASSUME TypeInv, MakerInv, IdInv, ConnectedInv, VultrCall,
           w'.mem.provisioned # w.mem.provisioned, NEW m \in Machines, m = w.m
    PROVE  Connected(m)'
<1>1. ConnectsAfterCall
  BY BalancerEffect
<1>2. CASE w.m \notin WantsVPC \cup ControlPlane /\ \E i \in ServerIDs : Takes(i)
  <2>1. PICK i \in ServerIDs : Takes(i)
    BY <1>2
  <2>2. srv'[i].maker = m
    BY <2>1, TakesOwn
  <2> QED BY <1>2, <2>2 DEF Connected
<1>3. w.pc \in {"vpcList", "lbGet", "lbUpdate"} => w.id \in ServerIDs /\ srv[w.id].maker = w.m
  BY DEF TypeInv, WorkerOK, IdInv, ServerCalls
<1>4. CASE /\ w.pc = "vpcList" /\ srv[w.id].vpc = "attached" /\ srv' = srv
           /\ w.m \notin ControlPlane
  BY <1>3, <1>4 DEF Connected
<1>5. w.pc \in {"lbGet", "lbUpdate"} => (w.m \in WantsVPC => srv[w.id].vpc = "attached")
  BY DEF ConnectedInv
<1>6. CASE w.pc = "lbGet" /\ w.id \in lb.members /\ srv' = srv /\ lb' = lb
  BY <1>3, <1>5, <1>6 DEF Connected
<1>7. CASE w.pc = "lbUpdate" /\ lb'.members = w.seen \cup {w.id} /\ srv' = srv
  BY <1>3, <1>5, <1>7 DEF Connected
<1> QED BY <1>1, <1>2, <1>4, <1>6, <1>7 DEF ConnectsAfterCall

(* Nothing is provisioned at first.                                         *)
LEMMA ConnectedInit == Init => ConnectedInv
<1> SUFFICES ASSUME Init PROVE ConnectedInv
  OBVIOUS
<1>1. w.pc = "idle"
  BY IdleType DEF Init
<1>2. \A m \in Machines : ~obj[m].provisioned /\ ~cache[m].provisioned
  BY DEF Init, NewObject
<1> QED BY <1>1, <1>2 DEF ConnectedInv

(* Every step keeps provisioned machines connected.                         *)
LEMMA ConnectedStep ==
    TypeInv /\ LifeInv /\ MakerInv /\ IdInv /\ MemberInv /\ ConnectedInv /\ [Next]_vars
    => ConnectedInv'
<1> SUFFICES ASSUME TypeInv, LifeInv, MakerInv, IdInv, MemberInv, ConnectedInv,
                    [Next]_vars
             PROVE  ConnectedInv'
  OBVIOUS
<1>1. /\ obj \in [Machines -> Object] /\ cache \in [Machines -> Object] /\ w \in Worker
      /\ w.base \in Object /\ w.mem \in Object /\ (w.pc # "idle" => w.m \in Machines)
  BY DEF TypeInv, TypeOK, WorkerOK, Worker
<1>2. ASSUME NEW m \in Machines PROVE cache'[m].provisioned => obj'[m].provisioned
  BY <1>2, CacheReads, ProvisionedKept DEF ConnectedInv
<1>3. ASSUME NEW m \in Machines, Connected(m) \/ obj[m].provisioned,
             obj'[m].phase = "live"
      PROVE  Connected(m)'
  <2>1. obj[m].phase = "live"
    BY <1>3, ObjectEffect
  <2>2. Connected(m)
    BY <1>3, <2>1 DEF ConnectedInv
  <2> QED BY <2>1, <2>2, ConnectedKept
<1>4. ASSUME NEW m \in Machines, obj'[m].provisioned, obj'[m].phase = "live"
      PROVE  Connected(m)'
  <2>1. CASE obj[m].provisioned
    BY <1>3, <1>4, <2>1
  <2>2. CASE ~obj[m].provisioned
    <3>1. /\ m = w.m /\ w.pc = "status"
          /\ obj'[m].provisioned = Merged(obj[m].provisioned, w.base.provisioned,
                                          w.mem.provisioned)
      BY <1>4, <2>2, ObjectEffect
    <3>2. w.mem.provisioned
      BY <1>1, <1>4, <2>2, <3>1 DEF Merged, Object
    <3>3. obj[m].phase = "live"
      BY <1>4, ObjectEffect
    <3>4. Connected(m)
      BY <3>1, <3>2, <3>3 DEF ConnectedInv
    <3> QED BY <1>3, <1>4, <3>4
  <2> QED BY <2>1, <2>2
<1>5. ASSUME w.pc # "idle", w'.m = w.m, w'.base = w.base,
             w'.mem.provisioned = w.mem.provisioned, NEW m \in Machines, m = w.m
      PROVE  /\ w'.base.provisioned => w'.mem.provisioned /\ obj'[m].provisioned
             /\ (w'.mem.provisioned /\ obj'[m].phase = "live") => Connected(m)'
  <2>1. /\ w.base.provisioned => w.mem.provisioned /\ obj[m].provisioned
        /\ (w.mem.provisioned /\ obj[m].phase = "live") => Connected(m)
    BY <1>5 DEF ConnectedInv
  <2>2. w.base.provisioned => obj'[m].provisioned
    BY <2>1, ProvisionedKept
  <2>3. (w.mem.provisioned /\ obj'[m].phase = "live") => Connected(m)'
    BY <1>3, <2>1, ObjectEffect
  <2> QED BY <1>5, <2>1, <2>2, <2>3
<1> DEFINE Reported ==
      /\ \A m \in Machines : (w'.pc # "idle" /\ w'.m = m) =>
        /\ w'.base.provisioned => w'.mem.provisioned /\ obj'[m].provisioned
        /\ (w'.mem.provisioned /\ obj'[m].phase = "live") => Connected(m)'
      /\ (w'.pc \in {"lbGet", "lbUpdate"} /\ w'.m \in WantsVPC)
            => srv'[w'.id].vpc = "attached"
<1>6. Reported
  <2>1. CASE Finish \/ Crash
    BY <2>1, IdleType DEF Finish, Crash
  <2>2. ASSUME NEW m \in Machines, BeginPaused(m) \/ BeginNormal(m) \/ BeginDelete(m)
        PROVE  Reported
    <3>1. /\ w'.m = m /\ w'.base = cache[m] /\ w'.pc \notin {"lbGet", "lbUpdate"}
          /\ w'.mem.provisioned = cache[m].provisioned /\ obj' = obj
      BY <2>2, BeginEffect DEF Closing, CloseCalls
    <3>2. cache[m].provisioned => obj[m].provisioned
      BY DEF ConnectedInv
    <3> QED BY <1>4, <3>1, <3>2
  <2>3. CASE VultrCall
    <3>1. PathAfterCall /\ ConnectsAfterCall /\ obj' = obj
      BY <2>3, VultrCallEffect, BalancerEffect DEF CallEffect
    <3>2. w'.m = w.m /\ w'.base = w.base /\ w.pc # "idle" /\ w' \in Worker
      BY <3>1 DEF PathAfterCall, NormalCalls, DeleteCalls
    <3>3. (w'.pc \in {"lbGet", "lbUpdate"} /\ w'.m \in WantsVPC)
            => srv'[w'.id].vpc = "attached"
      BY <3>1, <3>2 DEF ConnectsAfterCall, ConnectedInv
    <3>4. CASE w'.mem.provisioned = w.mem.provisioned
      BY <1>5, <3>2, <3>3, <3>4
    <3>5. CASE w'.mem.provisioned # w.mem.provisioned
      <4>1. ASSUME NEW m \in Machines, m = w.m PROVE Connected(m)'
        BY <2>3, <3>5, <4>1, ReportsConnected
      <4>2. w'.base.provisioned => w'.mem.provisioned /\ obj'[w.m].provisioned
        <5>1. w.base.provisioned => obj[w.m].provisioned
          BY <3>2 DEF ConnectedInv
        <5> QED BY <3>1, <3>2, <3>5, <5>1 DEF ConnectsAfterCall
      <4> QED BY <3>2, <3>3, <4>1, <4>2
    <3> QED BY <3>4, <3>5
  <2>4. CASE KubeCall
    <3>1. /\ w'.m = w.m /\ w'.base = w.base /\ w'.mem = w.mem /\ w.pc # "idle"
          /\ w'.pc \notin {"lbGet", "lbUpdate"}
      BY <2>4, KubeCallEffect DEF Closing, CloseCalls
    <3> QED BY <1>5, <3>1
  <2>5. CASE TimeOut
    <3>1. /\ w'.m = w.m /\ w'.base = w.base /\ w'.mem = w.mem /\ w.pc # "idle"
          /\ w'.pc = "done"
      BY <1>1, <2>5 DEF TimeOut, Call, Worker
    <3> QED BY <1>5, <3>1
  <2>6. CASE Environment \/ (\E m \in Machines : Skip(m)) \/ UNCHANGED vars
    <3>1. w' = w
      BY <2>6, MembersWhileWaiting
    <3>2. (w.pc \in {"lbGet", "lbUpdate"} /\ w.m \in WantsVPC)
            => srv'[w.id].vpc = "attached"
      <4>1. SUFFICES ASSUME w.pc \in {"lbGet", "lbUpdate"}, w.m \in WantsVPC
                     PROVE  srv'[w.id].vpc = "attached"
        OBVIOUS
      <4>2. /\ w.id \in ServerIDs /\ srv[w.id].vpc = "attached"
            /\ srv[w.id].place # "free" /\ srv \in [ServerIDs -> Server]
        BY <1>1, <4>1, ConstantsAssumption DEF TypeInv, TypeOK, WorkerOK, ServerCalls,
           ConnectedInv, IdInv, MakerInv
      <4> QED BY <4>2, ServerEffect DEF Ages, Makes
    <3> QED BY <1>5, <3>1, <3>2
  <2> QED BY <2>1, <2>2, <2>3, <2>4, <2>5, <2>6 DEF Next, Begin, WorkerStep
<1>7. w'.pc # "idle" => w'.m \in Machines
  BY TypeStep DEF TypeInv, WorkerOK
<1> QED BY <1>2, <1>4, <1>6, <1>7 DEF ConnectedInv

(* ConnectedInv holds in every reachable state.                             *)
LEMMA ConnectedInvariance == Spec => []ConnectedInv
  BY ConnectedInit, ConnectedStep, TypeInvariance, LifeInvariance, IdInvariance,
     MemberInvariance, PTL DEF Spec

(* A live machine that says it is provisioned has had a server attached to  *)
(* the VPC of its spec and, for the control plane, behind the load          *)
(* balancer, whatever calls failed, timed out or were cut off by a restart; *)
(* only a write of the VultrMachine controller that overlapped the joining  *)
(* takes it out again.                                                      *)
THEOREM ConnectedWhenProvisioned == Spec => []ProvisionedIsConnected
<1>1. ConnectedInv => ProvisionedIsConnected
  BY DEF ConnectedInv, Connected, ProvisionedIsConnected
<1> QED BY <1>1, ConnectedInvariance, PTL

(* status.initialization.provisioned is never taken back.                   *)
THEOREM ProvisionedStays == Spec => ProvisionedIsStable
<1>1. TypeInv /\ ConnectedInv /\ [Next]_vars
      => (\A m \in Machines : obj[m].provisioned => obj'[m].provisioned)
  BY ProvisionedKept
<1> QED BY <1>1, TypeInvariance, ConnectedInvariance, PTL DEF Spec, ProvisionedIsStable

(* For every naming in which machines of one cluster have different names,  *)
(* a provider ID is the ID of a server made for its machine: a server keeps *)
(* its tags for life, and they are name and cluster.                        *)
THEOREM RecordsOnlyOwn == Spec => []OwnServerOnly
<1>1. IdInv => OwnServerOnly
  BY ConstantsAssumption DEF IdInv, HasOwnID, OwnServerOnly
<1> QED BY <1>1, IdInvariance, PTL

(* The controller destroys only servers of the machine it is reconciling,   *)
(* and only once that machine is no longer live.                            *)
THEOREM DestroysOwn == Spec => DestroysOnlyOwn
<1>1. TypeInv /\ LifeInv /\ IdInv /\ [Next]_vars
      => (\A i \in ServerIDs :
            (srv[i].place = "running" /\ srv'[i].place = "destroyed" /\ w' # w)
            => srv[i].maker = w.m /\ obj[w.m].phase # "live")
  <2> SUFFICES ASSUME TypeInv, LifeInv, IdInv, [Next]_vars,
                      NEW i \in ServerIDs, srv[i].place = "running",
                      srv'[i].place = "destroyed", w' # w
               PROVE  srv[i].maker = w.m /\ obj[w.m].phase # "live"
    OBVIOUS
  <2>1. srv \in [ServerIDs -> Server] /\ (w.pc # "idle" => w.m \in Machines)
    BY DEF TypeInv, TypeOK, WorkerOK
  <2>2. w.pc \in {"delete", "delRemaining"} /\ i = w.id
    <3>1. CASE DeleteServer
      BY <2>1, <3>1 DEF DeleteServer, Call, Destroyed
    <3>2. CASE DeleteRemaining
      BY <2>1, <3>2 DEF DeleteRemaining, Call, Destroyed
    <3>3. CASE CreateServer
      <4>1. srv' = srv \/ \E j \in ServerIDs : Created(j)
        BY <3>3 DEF CreateServer
      <4> QED BY <2>1, <4>1 DEF Created
    <3>4. CASE AttachVPC
      <4>1. /\ w.pc = "vpcAttach" /\ w.id \in ServerIDs
            /\ \/ srv' = srv
               \/ srv' = [srv EXCEPT ![w.id].vpc = IF @ = "none" THEN "requested" ELSE @]
        BY <3>4 DEF AttachVPC, Call, TypeInv, WorkerOK, ServerCalls
      <4>2. srv'[i].place = srv[i].place
        BY <2>1, <4>1 DEF Server
      <4> QED BY <4>2
    <3>5. CASE Environment \/ (\E m \in Machines : Skip(m)) \/ UNCHANGED vars
      BY <3>5, MembersWhileWaiting
    <3>6. CASE \/ \E m \in Machines : BeginPaused(m) \/ BeginNormal(m) \/ BeginDelete(m)
               \/ GetServer \/ FindServer \/ ListVPC \/ GetLoadBalancer
               \/ UpdateLoadBalancer \/ GetForRemoval \/ RemoveMember
               \/ FindRemaining \/ KubeCall \/ Finish \/ TimeOut \/ Crash
      <4>1. srv' = srv
        BY <3>6, BeginEffect, KubeCallEffect DEF GetServer, FindServer, ListVPC,
           GetLoadBalancer, UpdateLoadBalancer, GetForRemoval, RemoveMember,
           FindRemaining, Finish, TimeOut, Crash, vultr
      <4> QED BY <4>1
    <3> QED BY <3>1, <3>2, <3>3, <3>4, <3>5, <3>6 DEF Next, Begin, WorkerStep, VultrCall
  <2>3. srv[i].maker = w.m
    BY <2>2 DEF IdInv, ServerCalls
  <2>4. obj[w.m].phase # "live"
    BY <2>1, <2>2 DEF LifeInv, PathInv, CacheInv, DeleteCalls
  <2> QED BY <2>3, <2>4
<1> QED BY <1>1, TypeInvariance, LifeInvariance, IdInvariance, PTL
        DEF Spec, DestroysOnlyOwn

=============================================================================
