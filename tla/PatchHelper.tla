---------------------------- MODULE PatchHelper -----------------------------
(***************************************************************************)
(* What the controllers share of Kubernetes: the life of an object, and    *)
(* the merge patches that the Cluster API patch helper sends.              *)
(***************************************************************************)

Phases == {"live", "deleting",
           "finalized",     \* removed once our finalizer was taken off
           "gone"}          \* removed at once: it had no finalizer

Exists(o) == o.phase \in {"live", "deleting"}

(* A merge patch carries only the fields in which the new copy differs from *)
(* the base that was read, and no resource version.                         *)
Merged(old, base, new) == IF new = base THEN old ELSE new
=============================================================================
