------------------------ MODULE VultrMachineLifecycle -----------------------
(* The VultrMachine controller as an implementation of MachineLifecycle.    *)
EXTENDS VultrMachine

Lifecycle == INSTANCE MachineLifecycle WITH
    Servers <- InstanceIDs,
    phase <- [m \in Machines |-> obj[m].phase],
    held <- [m \in Machines |-> Own(m)]

(* Every step of the VultrMachine controller and of what surrounds it is a  *)
(* step of MachineLifecycle or changes neither object phase nor VMs: creates*)
(* with lost answers or lost tags, adoption, stale reads, 404s, a lagging   *)
(* listing, restarts and patches that fail half way included.               *)
ImplementsLifecycle == Lifecycle!Spec
=============================================================================
