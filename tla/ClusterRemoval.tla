--------------------------- MODULE ClusterRemoval ---------------------------
(***************************************************************************)
(* What destroying a cluster resource promises, whatever the provider does *)
(* in between: a run either ends with an error and the resource still in   *)
(* the Terraform state, or it ends after CAST AI archived the cluster, and *)
(* only then is the resource forgotten.                                    *)
(*                                                                         *)
(* ClusterDelete implements this module; ClusterResource uses it in place  *)
(* of the retry loop when it replaces or destroys a cluster.               *)
(***************************************************************************)

VARIABLES
  gone,      \* CAST AI has archived the cluster (or even forgotten it)
  tracked,   \* the resource is in the saved Terraform state
  outcome    \* "idle", "running", "failed" or "removed"

removalVars == <<gone, tracked, outcome>>

RemovalTypeOK ==
  /\ gone \in BOOLEAN
  /\ tracked \in BOOLEAN
  /\ outcome \in {"idle", "running", "failed", "removed"}

RemovalInit ==
  /\ gone \in BOOLEAN
  /\ tracked = TRUE
  /\ outcome = "idle"

Begin ==
  /\ tracked
  /\ outcome \in {"idle", "failed"}
  /\ outcome' = "running"
  /\ UNCHANGED <<gone, tracked>>

BackendArchives ==
  /\ ~gone
  /\ gone' = TRUE
  /\ UNCHANGED <<tracked, outcome>>

Succeed ==
  /\ outcome = "running"
  /\ gone
  /\ tracked' = FALSE
  /\ outcome' = "removed"
  /\ UNCHANGED gone

\* The run may end because the answer that would have told it was lost.
Fail ==
  /\ outcome = "running"
  /\ gone' \in BOOLEAN
  /\ gone => gone'
  /\ outcome' = "failed"
  /\ UNCHANGED tracked

RemovalNext == Begin \/ BackendArchives \/ Succeed \/ Fail

RemovalSpec == RemovalInit /\ [][RemovalNext]_removalVars
=============================================================================
