---------------------- MODULE MCVultrBareMetalMachine -----------------------
(* Small instances of VultrBareMetalMachine for TLC.                        *)
EXTENDS VultrBareMetalMachine, TLC

CONSTANTS m1, m2, s1, s2, v1, v2

OneMachine == {m1}
NoMachines == {}
OtherMachine == {m2}
TwoIDs == {s1, s2}
OneVM == {v1}
TwoVMs == {v1, v2}

(* Two clusters that each have a machine of the same name.                  *)
SameName == [m \in {m1, m2} |-> "md-0"]
OwnCluster == [m \in {m1, m2} |-> m]

(* The manager starts in a cluster that is ready. The Machine has its owner *)
(* reference and the load balancer a VM, but the cache does not show the    *)
(* load balancer's ID yet.                                                  *)
StartedSpec ==
    /\ obj = [m \in Machines |-> NewObject]
    /\ cache = obj
    /\ queued = Machines
    /\ owner = [m \in Machines |-> "linked"]
    /\ infra = [present |-> ~MachineOnly, lbID |-> FALSE, ready |-> TRUE,
                paused |-> FALSE]
    /\ srv = [i \in ServerIDs |-> FreeServer]
    /\ lb = [active |-> TRUE, members |-> {v1}, undone |-> {}]
    /\ other = OtherIdle
    /\ w = Idle
    /\ budget = [faults |-> MaxFaults, mishaps |-> MaxMishaps,
                 pauses |-> MaxPauses]
    /\ [][Next]_vars

(* From nothing, in an account with the server of another manager's         *)
(* machine and an ID for a server of the machine's own.                     *)
BesideSpec ==
    /\ srv = [i \in ServerIDs |-> IF i = s2 THEN ForeignServer(m2) ELSE FreeServer]
    /\ FairSpec

(* The IDs are interchangeable.                                             *)
Symmetry == Permutations(ServerIDs)
=============================================================================
