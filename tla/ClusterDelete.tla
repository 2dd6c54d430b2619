---------------------------- MODULE ClusterDelete ----------------------------
(***************************************************************************)
(* resourceCastaiClusterDelete (castai/cluster.go): the retry loop that    *)
(* disconnects and deletes an EKS, GKE or AKS cluster, against a cluster   *)
(* whose status, agent and credentials change between its calls.           *)
(*                                                                         *)
(* The remote cluster is external: its lifecycle is the one the loop's     *)
(* branches and the comments in cluster.go assume.  Each call is a step of *)
(* its own, so the cluster may move between the GET a decision is based on *)
(* and the DELETE or disconnect that carries it out, and a call may fail   *)
(* with or without having taken effect.                                    *)
(***************************************************************************)
EXTENDS Naturals

CONSTANT
  MaxTrouble   \* bound on the faults, timeouts and outside interventions

ASSUME TroubleAssumption == MaxTrouble \in Nat

VARIABLES
  status,       \* remote: status of the cluster
  agent,        \* remote: agent status
  creds,        \* remote: credentials_id is not empty
  nodes,        \* remote: CAST AI provisioned nodes: "run", "doomed" or "removed"
  tracked,      \* the resource is in the saved state
  deleteNodes,  \* saved state: delete_nodes_on_disconnect
  pc,           \* where the destroy is
  trouble       \* how much trouble is still to come

remoteVars == <<status, agent, creds, nodes>>
vars == <<remoteVars, tracked, deleteNodes, pc, trouble>>

-----------------------------------------------------------------------------
(* State *)

Status == {"ready", "failed", "deleting", "deleted", "archived", "purged"}
AgentStatus == {"online", "disconnecting", "disconnected"}
Calling == {"get", "delete", "disconnect"}
Running == {"refresh", "wait"} \cup Calling
Ended == {"failed", "panicked"}

\* "archived" clusters are still returned by GET; "purged" ones answer 404.
Gone == status \in {"archived", "purged"}

TypeOK ==
  /\ status \in Status
  /\ agent \in AgentStatus
  /\ creds \in BOOLEAN
  /\ nodes \in {"run", "doomed", "removed"}
  /\ tracked \in BOOLEAN
  /\ deleteNodes \in BOOLEAN
  /\ pc \in {"idle", "removed"} \cup Running \cup Ended
  /\ trouble \in 0..MaxTrouble

Init ==
  /\ status \in {"ready", "failed"}
  /\ agent \in {"online", "disconnected"}
  /\ creds \in BOOLEAN
  /\ nodes = "run"
  /\ tracked = TRUE
  /\ deleteNodes \in BOOLEAN
  /\ pc = "idle"
  /\ trouble = MaxTrouble

\* Faults and interventions draw on one budget.
Trouble ==
  /\ trouble > 0
  /\ trouble' = trouble - 1

-----------------------------------------------------------------------------
(* What the three calls do to the remote cluster (external) *)

\* POST disconnect: nothing happens to a cluster without credentials, or to
\* one that has no agent left to disconnect.
DisconnectEffect(withNodes) ==
  IF creds /\ agent = "online"
  THEN /\ agent' = "disconnecting"
       /\ nodes' = IF withNodes /\ nodes = "run" THEN "doomed" ELSE nodes
       /\ UNCHANGED <<status, creds>>
  ELSE UNCHANGED remoteVars

\* DELETE is refused with 400 while CAST AI still manages a connected cluster.
Refuses ==
  /\ status = "ready"
  /\ creds
  /\ agent # "disconnected"

DeleteEffect ==
  /\ status' = CASE status \in {"ready", "failed"} -> "deleting"
                 [] status = "deleted" -> "archived"
                 [] OTHER -> status
  /\ UNCHANGED <<agent, creds, nodes>>

-----------------------------------------------------------------------------
(* terraform destroy *)

\* The user runs destroy, again if the run before ended with an error.
StartDestroy ==
  /\ pc \in {"idle"} \cup Ended
  /\ tracked
  /\ pc' = "refresh"
  /\ UNCHANGED <<remoteVars, tracked, deleteNodes, trouble>>

\* Mutant: a cluster that is only "deleted" is forgotten as well.
TreatedAsGone_Deleted == status \in {"deleted", "archived", "purged"}

\* fetchClusterData reports no cluster for a 404 and for an archived one.
TreatedAsGone == status \in {"archived", "purged"}

\* The refresh before the plan drops such a cluster from the state: there is
\* nothing left to destroy.
Refresh ==
  /\ pc = "refresh"
  /\ tracked' = ~TreatedAsGone
  /\ pc' = IF TreatedAsGone THEN "removed" ELSE "get"
  /\ UNCHANGED <<remoteVars, deleteNodes, trouble>>

\* Mutant: clusters without credentials are disconnected like the others.
Decision_IgnoresCredentials ==
  CASE status = "archived" -> "removed"
    [] agent = "disconnected" \/ status \in {"deleted", "failed"} -> "delete"
    [] agent = "disconnecting" \/ status = "deleting" -> "wait"
    [] OTHER -> "disconnect"

\* What the closure does next, from the statuses one GET returned.
Decision ==
  CASE status = "archived" -> "removed"
    [] agent = "disconnected" \/ status = "deleted" -> "delete"
    [] ~creds -> "delete"
    [] status = "failed" -> "delete"
    [] agent = "disconnecting" -> "wait"
    [] status = "deleting" -> "wait"
    [] OTHER -> "disconnect"

\* One round of the retry loop up to its decision.
GetAndDecide ==
  /\ pc = "get"
  /\ status # "purged"
  /\ tracked' = (Decision # "removed")
  /\ pc' = Decision
  /\ UNCHANGED <<remoteVars, deleteNodes, trouble>>

\* 404: the answer is not OK, which is not retried.
GetPurged ==
  /\ pc = "get"
  /\ status = "purged"
  /\ pc' = "failed"
  /\ UNCHANGED <<remoteVars, tracked, deleteNodes, trouble>>

\* triggerDelete, 204: the closure asks for another round.
TriggerDelete ==
  /\ pc = "delete"
  /\ status # "purged"
  /\ ~Refuses
  /\ DeleteEffect
  /\ pc' = "wait"
  /\ UNCHANGED <<tracked, deleteNodes, trouble>>

\* triggerDelete, 400: falls through to triggerDisconnect.
DeleteRefused ==
  /\ pc = "delete"
  /\ Refuses
  /\ pc' = "disconnect"
  /\ UNCHANGED <<remoteVars, tracked, deleteNodes, trouble>>

\* Mutant: the flag is taken as set when the state has no value for it.
TriggerDisconnect_NodesByDefault ==
  /\ pc = "disconnect"
  /\ status # "purged"
  /\ DisconnectEffect(TRUE)
  /\ pc' = "wait"
  /\ UNCHANGED <<tracked, deleteNodes, trouble>>

\* triggerDisconnect; DeleteProvisionedNodes comes from the saved state.
TriggerDisconnect ==
  /\ pc = "disconnect"
  /\ status # "purged"
  /\ DisconnectEffect(deleteNodes)
  /\ pc' = "wait"
  /\ UNCHANGED <<tracked, deleteNodes, trouble>>

\* DELETE or disconnect of a cluster that is not there any more.
CallPurged ==
  /\ pc \in {"delete", "disconnect"}
  /\ status = "purged"
  /\ pc' = "failed"
  /\ UNCHANGED <<remoteVars, tracked, deleteNodes, trouble>>

\* RetryContext waits and calls the closure again.
NextRound ==
  /\ pc = "wait"
  /\ pc' = "get"
  /\ UNCHANGED <<remoteVars, tracked, deleteNodes, trouble>>

\* Mutant: the loop gives up in a way Terraform does not know.
TimeOut_NoOutcome ==
  /\ pc = "wait"
  /\ Trouble
  /\ pc' = "timeout"
  /\ UNCHANGED <<remoteVars, tracked, deleteNodes>>

\* The delete timeout (15 minutes) expires between two rounds.
TimeOut ==
  /\ pc = "wait"
  /\ Trouble
  /\ pc' = "failed"
  /\ UNCHANGED <<remoteVars, tracked, deleteNodes>>

\* Mutant: the resource ID is cleared although a call failed.
CallFails_Forgets ==
  /\ pc \in Calling \cup {"refresh"}
  /\ Trouble
  /\ pc' = "failed"
  /\ tracked' = FALSE
  /\ UNCHANGED <<remoteVars, deleteNodes>>

\* A call is answered with an unexpected status, before it had any effect.
CallFails ==
  /\ pc \in Calling \cup {"refresh"}
  /\ Trouble
  /\ pc' = "failed"
  /\ UNCHANGED <<remoteVars, tracked, deleteNodes>>

\* A call gets no answer, and may have taken effect.  triggerDelete reads the
\* status code of the missing answer before it looks at the error, and panics.
AnswerLost ==
  /\ pc \in Calling
  /\ Trouble
  /\ \/ UNCHANGED remoteVars
     \/ pc = "delete" /\ ~Refuses /\ DeleteEffect
     \/ pc = "disconnect" /\ DisconnectEffect(deleteNodes)
  /\ pc' = IF pc = "delete" THEN "panicked" ELSE "failed"
  /\ UNCHANGED <<tracked, deleteNodes>>

-----------------------------------------------------------------------------
(* The remote cluster moves on its own (external) *)

AgentLeaves ==
  /\ agent = "disconnecting"
  /\ agent' = "disconnected"
  /\ nodes' = IF nodes = "doomed" THEN "removed" ELSE nodes
  /\ UNCHANGED <<status, creds, tracked, deleteNodes, pc, trouble>>

\* A deletion ends in "deleted", which a second DELETE archives, or is
\* archived at once.
DeletionProgresses ==
  /\ status = "deleting"
  /\ status' \in {"deleted", "archived"}
  /\ UNCHANGED <<agent, creds, nodes, tracked, deleteNodes, pc, trouble>>

\* The agent goes away or comes back, onboarding fails, CAST AI loses the
\* credentials, or someone uses the console or another client.
Intervention ==
  /\ Trouble
  /\ \/ /\ status = "ready" /\ agent # "disconnecting"
        /\ agent' \in {"online", "disconnected"} \ {agent}
        /\ UNCHANGED <<status, creds, nodes>>
     \/ /\ status = "ready"
        /\ status' = "failed"
        /\ UNCHANGED <<agent, creds, nodes>>
     \/ /\ creds' = ~creds
        /\ UNCHANGED <<status, agent, nodes>>
     \/ DisconnectEffect(FALSE)
     \/ ~Gone /\ ~Refuses /\ DeleteEffect
     \/ /\ status = "archived"
        /\ status' = "purged"
        /\ UNCHANGED <<agent, creds, nodes>>
  /\ UNCHANGED <<tracked, deleteNodes, pc>>

-----------------------------------------------------------------------------
Destroy ==
  \/ StartDestroy \/ Refresh
  \/ GetAndDecide \/ GetPurged
  \/ TriggerDelete \/ DeleteRefused
  \/ TriggerDisconnect
  \/ CallPurged \/ NextRound

Faults == TimeOut \/ CallFails \/ AnswerLost

Remote == AgentLeaves \/ DeletionProgresses

Next == Destroy \/ Faults \/ Remote \/ Intervention

Spec == Init /\ [][Next]_vars

\* The handler runs to its end and CAST AI carries out what it accepted; a
\* user who wants the cluster gone repeats a failed destroy.  Faults and
\* interventions are not fair.
FairSpec ==
  /\ Spec
  /\ WF_vars(Destroy)
  /\ WF_vars(AgentLeaves)
  /\ WF_vars(DeletionProgresses)

-----------------------------------------------------------------------------
(* Properties *)

\* The resource leaves the Terraform state only for a cluster that CAST AI has
\* archived or no longer knows: no error, timeout, panic or lost answer of the
\* loop in resourceCastaiClusterDelete makes Terraform forget a live cluster.
ForgottenOnlyWhenGone == ~tracked => Gone

\* delete_nodes_on_disconnect: nodes CAST AI provisioned are taken down only if
\* the saved state asks for it, on whichever path (400 fallback, retry,
\* repeated run) the disconnect is sent.
NodesKeptUnlessAsked == nodes \in {"doomed", "removed"} => deleteNodes

\* From every status, agent status and credentials the cluster can have, the
\* loop gets it archived and the resource out of the state; it does not send
\* for ever a disconnect that "will do nothing on cluster with empty
\* credentials" or a DELETE that is refused.
EventuallyRemoved == <>(~tracked)

\* The loop implements what ClusterRemoval promises.
Outcome ==
  IF pc \in Running THEN "running" ELSE IF pc \in Ended THEN "failed" ELSE pc

Removal == INSTANCE ClusterRemoval WITH gone <- Gone, outcome <- Outcome

ImplementsRemoval == Removal!RemovalSpec
=============================================================================
