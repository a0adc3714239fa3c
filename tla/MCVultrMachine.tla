--------------------------- MODULE MCVultrMachine ---------------------------
(* Small instances of VultrMachine for TLC.                                 *)
EXTENDS VultrMachineLifecycle, TLC

CONSTANTS m1, m2, i1, i2

NoMachines == {}
OneMachine == {m1}
TwoMachines == {m1, m2}
TwoIDs == {i1, i2}

(* Two machines of one cluster.                                             *)
DistinctNames == [m \in {m1, m2} |-> m]
OneCluster == [m \in {m1, m2} |-> "uid1"]

(* Two clusters that each have a machine of the same name.                  *)
SameName == [m \in {m1, m2} |-> "md-0"]
TwoClusters == [m \in {m1, m2} |-> IF m = m1 THEN "uid1" ELSE "uid2"]

(* The manager starts in a cluster that is ready. Each Machine has its      *)
(* owner reference and perhaps its bootstrap data; the load balancer is up, *)
(* or not even its ID is known.                                             *)
Started(machine, up) ==
    /\ obj = [m \in Machines |-> NewObject]
    /\ cache = obj
    /\ queued = Machines
    /\ owner = [m \in Machines |-> machine]
    /\ infra = [present |-> ~MachineOnly, lbID |-> up /\ ~MachineOnly,
                ready |-> TRUE, paused |-> FALSE]
    /\ inst = [i \in InstanceIDs |-> FreeInstance]
    /\ lb = [active |-> up, members |-> {}]
    /\ w = Idle
    /\ budget = [faults |-> MaxFaults, mishaps |-> MaxMishaps,
                 pauses |-> MaxPauses]

EarlySpec == Started("linked", FALSE) /\ [][Next]_vars

LateSpec == Started("bootstrapped", TRUE) /\ [][Next]_vars

(* A new machine m1 beside the VM that m2 left in the account: the object   *)
(* of m2 was deleted before it got its finalizer (GoneLeavesNoInstance).    *)
NeighbourInit ==
    /\ obj = [m \in Machines |->
                [NewObject EXCEPT !.phase = IF m = m1 THEN "live" ELSE "gone"]]
    /\ cache = obj
    /\ queued = {m1}
    /\ owner = [m \in Machines |-> IF m = m1 THEN "none" ELSE "bootstrapped"]
    /\ infra = [present |-> FALSE, lbID |-> FALSE, ready |-> FALSE,
                paused |-> FALSE]
    /\ inst = [i \in InstanceIDs |->
                IF i # i2 THEN FreeInstance
                ELSE [place |-> "running", status |-> "active",
                      maker |-> m2, tagged |-> TRUE]]
    /\ lb = [active |-> FALSE, members |-> {}]
    /\ w = Idle
    /\ budget = [faults |-> MaxFaults, mishaps |-> MaxMishaps,
                 pauses |-> MaxPauses]

NeighbourSpec == NeighbourInit /\ [][Next]_vars /\ Fairness

(* The IDs are interchangeable.                                             *)
Symmetry == Permutations(InstanceIDs)
=============================================================================
