------------------------- MODULE LoadBalancerMembers ------------------------
(***************************************************************************)
(* The members of the API server load balancer, as the two machine         *)
(* controllers change them. Each controller has one worker; a change is a  *)
(* Get of the whole list and an Update with the whole list, and nothing    *)
(* stops the other controller from writing in between.                     *)
(*                                                                         *)
(* What happens to a machine otherwise is in VultrMachine and              *)
(* VultrBareMetalMachine; here a machine is the ID of its VM or server.    *)
(***************************************************************************)
EXTENDS Naturals

CONSTANTS
    VMs,        \* VMs of the control plane, handled by the VultrMachine controller
    Servers,    \* bare metal servers of the control plane, by the other one
    Nothing,    \* what an idle worker works on
    MaxFaults   \* bound on failed calls and wrong answers

Resources == VMs \cup Servers

ASSUME MembersAssumption ==
    VMs \cap Servers = {} /\ Nothing \notin Resources /\ MaxFaults \in Nat

VARIABLES
    active,     \* the load balancer accepts members
    members,    \* the IDs in the load balancer's list
    life,       \* per resource, see Lives
    wk,         \* the two workers
    stale,      \* history: some list was written that had changed since its Get
    faults      \* what is left of MaxFaults

vars == <<active, members, life, wk, stale, faults>>

(* joining: not yet known to be a member; joined: EnsureLoadBalancerMember  *)
(* has answered that it is one, before which no machine is provisioned;     *)
(* failed: a terminal failure, not reconciled any more; leaving: its        *)
(* machine is being deleted; left: taken out of the list and deleted; kept: *)
(* deleted without being taken out.                                         *)
Lives == {"joining", "joined", "failed", "leaving", "left", "kept"}

Controllers == {"VultrMachine", "VultrBareMetalMachine"}

Worker == [pc : {"idle", "add", "remove"}, r : Resources \cup {Nothing},
           seen : SUBSET Resources]

Idle == [pc |-> "idle", r |-> Nothing, seen |-> {}]

Of(c) == IF c = "VultrMachine" THEN VMs ELSE Servers

TypeOK ==
    /\ active \in BOOLEAN
    /\ members \subseteq Resources
    /\ life \in [Resources -> Lives]
    /\ wk \in [Controllers -> Worker]
    /\ stale \in BOOLEAN
    /\ faults \in 0..MaxFaults

Init ==
    /\ active = FALSE
    /\ members = {}
    /\ life = [r \in Resources |-> "joining"]
    /\ wk = [c \in Controllers |-> Idle]
    /\ stale = FALSE
    /\ faults = MaxFaults

Fault == faults > 0 /\ faults' = faults - 1

NoFault == UNCHANGED faults

-----------------------------------------------------------------------------
(* EnsureLoadBalancerMember, in a reconcile of a machine that was live when *)
(* it was read. Provisioned machines come here again on every resync.       *)

Joined(r) ==
    life' = [life EXCEPT ![r] = IF @ = "joining" THEN "joined" ELSE @]

(* Mutant: a provisioned machine is not looked at again.                    *)
GetToAddOnce(c, r) ==
    /\ wk[c].pc = "idle"
    /\ life[r] = "joining"
    /\ active
    /\ IF r \in members
       THEN Joined(r) /\ UNCHANGED wk
       ELSE /\ wk' = [wk EXCEPT ![c] = [pc |-> "add", r |-> r, seen |-> members]]
            /\ UNCHANGED life
    /\ UNCHANGED <<active, members, stale, faults>>

GetToAdd(c, r) ==
    /\ wk[c].pc = "idle"
    /\ life[r] \in {"joining", "joined"}
    /\ active
    /\ IF r \in members
       THEN Joined(r) /\ UNCHANGED wk
       ELSE /\ wk' = [wk EXCEPT ![c] = [pc |-> "add", r |-> r, seen |-> members]]
            /\ UNCHANGED life
    /\ UNCHANGED <<active, members, stale, faults>>

(* The Update call of worker c with this list.                              *)
Write(c, list) ==
    /\ members' = list
    /\ stale' = (stale \/ members # wk[c].seen)

(* Mutant: the request holds the new member alone.                          *)
AddAlone(c) ==
    /\ wk[c].pc = "add"
    /\ Write(c, {wk[c].r}) /\ Joined(wk[c].r) /\ NoFault
    /\ wk' = [wk EXCEPT ![c] = Idle]
    /\ UNCHANGED active

(* A 422 and other errors leave the machine as it is; the list may have     *)
(* been written all the same.                                               *)
Add(c) ==
    LET list == wk[c].seen \cup {wk[c].r} IN
    /\ wk[c].pc = "add"
    /\ \/ Write(c, list) /\ Joined(wk[c].r) /\ NoFault
       \/ Write(c, list) /\ UNCHANGED life /\ Fault
       \/ UNCHANGED <<members, stale, life>> /\ Fault
    /\ wk' = [wk EXCEPT ![c] = Idle]
    /\ UNCHANGED active

-----------------------------------------------------------------------------
(* Deletion. The VultrMachine controller leaves the list alone.             *)

DeleteVM(r) ==
    /\ wk["VultrMachine"].pc = "idle"
    /\ r \in VMs /\ life[r] = "leaving"
    /\ life' = [life EXCEPT ![r] = "kept"]
    /\ UNCHANGED <<active, members, wk, stale, faults>>

(* Mutant: what becomes of the machine is not one of its lives.             *)
RemovedRaw(r, as) ==
    \E l \in {"leaving", "removed"} : life' = [life EXCEPT ![r] = l]

(* RemoveLoadBalancerMember returned without an error. The reconcile goes   *)
(* on to delete the server and comes back as long as it is listed.          *)
Removed(r, as) ==
    \E l \in {"leaving", as} : life' = [life EXCEPT ![r] = l]

(* The last member is not removed. Neither is one whose load balancer is    *)
(* answered to be missing, or whose ID was never recorded.                  *)
GetToRemove(r) ==
    /\ wk["VultrBareMetalMachine"].pc = "idle"
    /\ r \in Servers /\ life[r] = "leaving"
    /\ \/ /\ r \in members /\ members # {r} /\ NoFault
          /\ wk' = [wk EXCEPT !["VultrBareMetalMachine"] =
                       [pc |-> "remove", r |-> r, seen |-> members]]
          /\ UNCHANGED life
       \/ r \notin members /\ Removed(r, "left") /\ NoFault /\ UNCHANGED wk
       \/ members = {r} /\ Removed(r, "kept") /\ NoFault /\ UNCHANGED wk
       \/ Removed(r, "kept") /\ Fault /\ UNCHANGED wk
    /\ UNCHANGED <<active, members, stale>>

(* Mutant: the list is written as it was read.                              *)
RemoveUnfiltered ==
    LET c == "VultrBareMetalMachine" IN
    /\ wk[c].pc = "remove"
    /\ \/ Write(c, wk[c].seen) /\ Removed(wk[c].r, "left") /\ NoFault
       \/ Write(c, wk[c].seen) /\ UNCHANGED life /\ Fault
       \/ UNCHANGED <<members, stale, life>> /\ Fault
    /\ wk' = [wk EXCEPT ![c] = Idle]
    /\ UNCHANGED active

Remove ==
    LET c == "VultrBareMetalMachine"
        list == wk[c].seen \ {wk[c].r} IN
    /\ wk[c].pc = "remove"
    /\ \/ Write(c, list) /\ Removed(wk[c].r, "left") /\ NoFault
       \/ Write(c, list) /\ UNCHANGED life /\ Fault
       \/ UNCHANGED <<members, stale, life>> /\ Fault
    /\ wk' = [wk EXCEPT ![c] = Idle]
    /\ UNCHANGED active

-----------------------------------------------------------------------------
BecomesActive ==
    /\ ~active
    /\ active' = TRUE
    /\ UNCHANGED <<members, life, wk, stale, faults>>

(* A reconcile meets an unexpected status or a VPC that cannot be attached. *)
TerminalFailure(c, r) ==
    /\ wk[c].pc = "idle"
    /\ life[r] \in {"joining", "joined"}
    /\ life' = [life EXCEPT ![r] = "failed"]
    /\ UNCHANGED <<active, members, wk, stale, faults>>

(* The object of the machine is deleted.                                    *)
DeleteObject(r) ==
    /\ life[r] \in {"joining", "joined", "failed"}
    /\ life' = [life EXCEPT ![r] = "leaving"]
    /\ UNCHANGED <<active, members, wk, stale, faults>>

Join(r) == \E c \in Controllers : r \in Of(c) /\ GetToAdd(c, r)

Leave(r) == DeleteVM(r) \/ GetToRemove(r)

Next ==
    \/ \E r \in Resources : Join(r) \/ Leave(r) \/ DeleteObject(r)
    \/ \E c \in Controllers : Add(c) \/ \E r \in Of(c) : TerminalFailure(c, r)
    \/ Remove
    \/ BecomesActive

Spec == Init /\ [][Next]_vars

(* The workers run; a machine that waits is requeued, and a resync brings   *)
(* back every live one, so each is reconciled again and again.              *)
Fairness ==
    /\ \A c \in Controllers : WF_vars(Add(c))
    /\ WF_vars(Remove)
    /\ WF_vars(BecomesActive)
    /\ \A r \in Resources : SF_vars(Join(r))

FairSpec == Spec /\ Fairness

-----------------------------------------------------------------------------
(* Properties *)

(* While no list was written that had changed since its Get, the list is    *)
(* right: every machine that has joined is a backend and no server that was *)
(* taken out is. Failed updates, 422s, repeated removals and the special    *)
(* case of the last member do not break it; only a write in between does.   *)
ListIsRight ==
    ~stale => \A r \in Resources : /\ life[r] = "joined" => r \in members
                                   /\ life[r] = "left" => r \notin members

(* A controller never drops a machine of its own that has joined: its one   *)
(* worker is alone between its Get and its Update as far as its own         *)
(* machines are concerned, whatever the other controller writes.            *)
OwnMembersKept ==
    [][\A c \in Controllers : \A r \in Of(c) :
          (wk[c].pc # "idle" /\ wk'[c].pc = "idle"
             /\ life[r] = "joined" /\ r \in members)
          => r \in members']_vars

(* A machine that was dropped by the other controller's write comes back:   *)
(* from some time on every machine that is neither deleted nor failed is a  *)
(* backend.                                                                 *)
MembersComeBack ==
    \A r \in Resources :
        <>[](r \in members \/ life[r] \notin {"joining", "joined"})
=============================================================================
