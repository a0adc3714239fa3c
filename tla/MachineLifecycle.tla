-------------------------- MODULE MachineLifecycle --------------------------
(***************************************************************************)
(* What a machine controller of the provider promises, whether it manages  *)
(* VMs or bare metal servers: a machine object holds at most one server in *)
(* the Vultr account, and the finalizer lets the object go only when it    *)
(* holds none and never will again. How a server is found, recorded and    *)
(* deleted, and what fails meanwhile, is left to the controllers.          *)
(***************************************************************************)
CONSTANTS Machines, Servers

VARIABLES
    phase,    \* per machine: the phase of its object, see PatchHelper
    held      \* per machine: the servers made for it that a listing can show

vars == <<phase, held>>

Init ==
    /\ phase = [m \in Machines |-> "live"]
    /\ held = [m \in Machines |-> {}]

(* A reconcile that read the object before it was deleted may still make a *)
(* server, but never beside another one, nor for an object let go.         *)
Make(m, s) ==
    /\ phase[m] # "finalized"
    /\ held[m] = {}
    /\ held' = [held EXCEPT ![m] = {s}]
    /\ UNCHANGED phase

(* Deleted by the controller or behind its back.                           *)
Lose(m) ==
    /\ held[m] # {}
    /\ held' = [held EXCEPT ![m] = {}]
    /\ UNCHANGED phase

Delete(m) ==
    /\ phase[m] = "live"
    /\ \E p \in {"deleting", "gone"} : phase' = [phase EXCEPT ![m] = p]
    /\ UNCHANGED held

Release(m) ==
    /\ phase[m] = "deleting"
    /\ held[m] = {}
    /\ phase' = [phase EXCEPT ![m] = "finalized"]
    /\ UNCHANGED held

Next ==
    \E m \in Machines :
        \/ \E s \in Servers : Make(m, s)
        \/ Lose(m) \/ Delete(m) \/ Release(m)

Spec == Init /\ [][Next]_vars
=============================================================================
