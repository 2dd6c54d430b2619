---------------------------- MODULE NodeTemplate ----------------------------
(***************************************************************************)
(* castai_node_template (castai/resource_node_template.go), other than the *)
(* default template, which AutoscalerPolicies has.  The ID is the name, so *)
(* that a template is whichever has the name in the cluster of the state;  *)
(* cluster_id can be changed in place and taken out, and is not among the  *)
(* attributes whose change is sent.                                        *)
(*                                                                         *)
(* Attributes differ in when they are sent and read: labels and taints are *)
(* sent if there are any; price is sent if there is one or it changed, and *)
(* an absence is not read; the minimum of nodes and extended memory are    *)
(* not part of the create request, and of a minimum that is not there the  *)
(* absence may not be read.  The GPU and the edge locations, sent like     *)
(* labels and read like a price, are left out.                             *)
(*                                                                         *)
(* CAST AI gives a name to one template of a cluster.  Whether it keeps    *)
(* what an update leaves out (remote.keeps), and whether it answers a      *)
(* rebalancing configuration for a template without a minimum of nodes     *)
(* (remote.shows), the code does not settle: they are either.              *)
(***************************************************************************)
EXTENDS Naturals

CONSTANTS
  Clusters,
  Settings,    \* the values of an attribute, one being
  Empty,       \* its absence, and what CAST AI begins with
  Contents,    \* the attributes that are configured together
  Contradictory, \* those of them with taints and without should_taint
  NoCluster,   \* cluster_id is not configured
  NoTemplate,  \* no template of this name
  Absent,      \* the resource is not in the configuration
  MaxTrouble   \* bound on the faults, interventions and edits

Attributes == [labels: Settings, price: Settings, nodes: Settings]
Values == [cluster: Clusters \cup {NoCluster}, content: Attributes]

\* What the parameters have to be.
TemplateAssumption ==
  /\ Empty \in Settings
  /\ Contents \subseteq Attributes
  /\ NoCluster \notin Clusters
  /\ NoTemplate \notin Attributes
  /\ Absent \notin Values
  /\ MaxTrouble \in Nat

VARIABLES
  remote,    \* the template of this name in each cluster, and how CAST AI acts
  want,      \* the configuration
  saved,     \* the Terraform state
  run,       \* what Terraform is doing
  quiet,     \* since the run began nobody else has changed anything
  trouble    \* how much trouble is still to come

vars == <<remote, want, saved, run, quiet, trouble>>

-----------------------------------------------------------------------------
(* State *)

NotSaved == [status |-> "none", values |-> Absent]
Saved(status, values) == [status |-> status, values |-> values]

Ended == {"idle", "done", "failed", "killed"}
Steps == {"read", "plan", "post", "put", "reread", "delete"}

\* The call that is next and the operation it is part of; "move" is an update
\* that changes cluster_id.
Run(pc, op) == [pc |-> pc, op |-> op]
Goes(pc) == run' = [run EXCEPT !.pc = pc]

TypeOK ==
  /\ remote \in [keeps: BOOLEAN, shows: BOOLEAN,
                 templates: [Clusters -> Attributes \cup {NoTemplate}]]
  /\ want \in Values \cup {Absent}
  /\ saved \in {NotSaved} \cup [status: {"ok", "tainted"}, values: Values]
  /\ run \in [pc: Ended \cup Steps, op: {"none", "create", "update", "move", "delete"}]
  /\ quiet \in BOOLEAN
  /\ trouble \in 0..MaxTrouble

Template(cluster) == remote.templates[cluster]
Exists(cluster) == cluster # NoCluster /\ Template(cluster) # NoTemplate
Becomes(cluster, template) == remote' = [remote EXCEPT !.templates[cluster] = template]

Configurations == {v \in Values : v.content \in Contents}

Init ==
  /\ \E keeps \in BOOLEAN, shows \in BOOLEAN :
       remote = [keeps |-> keeps, shows |-> shows,
                 templates |-> [c \in Clusters |-> NoTemplate]]
  /\ want \in Configurations
  /\ saved = NotSaved
  /\ run = Run("idle", "none")
  /\ quiet = TRUE
  /\ trouble = MaxTrouble

Trouble ==
  /\ trouble > 0
  /\ trouble' = trouble - 1

-----------------------------------------------------------------------------
(* What the calls do at CAST AI *)

\* Mutant: the update request has no nodes, as the create request.
Updated_NoNodes(old) ==
  LET leftOut(sent, new, before) == IF ~sent /\ remote.keeps THEN before ELSE new
      new == want.content
  IN [labels |-> leftOut(new.labels # Empty, new.labels, old.labels),
      price |-> leftOut(new.price # Empty \/ saved.values.content.price # new.price,
                        new.price, old.price),
      nodes |-> leftOut(FALSE, new.nodes, old.nodes)]

\* What an update makes of a template.
Updated(old) ==
  LET leftOut(sent, new, before) == IF ~sent /\ remote.keeps THEN before ELSE new
      new == want.content
  IN [labels |-> leftOut(new.labels # Empty, new.labels, old.labels),
      price |-> leftOut(new.price # Empty \/ saved.values.content.price # new.price,
                        new.price, old.price),
      nodes |-> new.nodes]

\* "shouldTaint must be true for the node template to get created with custom
\* taints": before the call.
Contradicts == want # Absent /\ want.content \in Contradictory

\* A template is made of what the create request has.
Post ==
  /\ run.pc = "post"
  /\ ~Contradicts
  /\ want.cluster # NoCluster
  /\ ~Exists(want.cluster)
  /\ Becomes(want.cluster, [want.content EXCEPT !.nodes = Empty])

Put ==
  /\ run.pc = "put"
  /\ ~Contradicts
  /\ Exists(want.cluster)
  /\ Becomes(want.cluster, Updated(Template(want.cluster)))

Delete ==
  /\ run.pc = "delete"
  /\ Exists(saved.values.cluster)
  /\ Becomes(saved.values.cluster, NoTemplate)

\* A call whose answer does not arrive: carried out or not.
MaybeCarriedOut ==
  \/ UNCHANGED remote
  \/ Post
  \/ Put
  \/ Delete

-----------------------------------------------------------------------------
(* Refresh and plan *)

StartApply ==
  /\ run.pc \in Ended
  /\ run' = IF saved # NotSaved THEN Run("read", "none")
            ELSE IF want # Absent THEN Run("post", "create")
            ELSE Run("done", "none")
  /\ quiet' = TRUE
  /\ UNCHANGED <<remote, want, saved, trouble>>

\* Mutant: Read sets no nodes.
Shown_WithoutNodes(given) ==
  LET template == Template(given.cluster)
  IN [given EXCEPT !.content =
       [template EXCEPT !.price = IF @ = Empty THEN given.content.price ELSE @,
                        !.nodes = Empty]]

\* What Read makes of the values it is given: a price that is not there leaves
\* the attribute as it was, and so does a minimum of nodes when the answer has
\* no rebalancing configuration.
Shown(given) ==
  LET template == Template(given.cluster)
      before == given.content
  IN [given EXCEPT !.content =
       [template EXCEPT
          !.price = IF @ = Empty THEN before.price ELSE @,
          !.nodes = IF @ = Empty /\ ~remote.shows THEN before.nodes ELSE @]]

\* The template that is not found is removed from the state, and created in the
\* same run if it is wanted.
Forgets ==
  /\ saved' = NotSaved
  /\ run' = IF want # Absent THEN Run("post", "create") ELSE Run("done", run.op)

\* "ClusterId is missing. Will skip operation."
ReadSkips ==
  /\ run.pc = "read"
  /\ saved.values.cluster = NoCluster
  /\ Goes("plan")
  /\ UNCHANGED <<remote, want, saved, quiet, trouble>>

Refresh ==
  /\ run.pc = "read"
  /\ Exists(saved.values.cluster)
  /\ saved' = [saved EXCEPT !.values = Shown(saved.values)]
  /\ Goes("plan")
  /\ UNCHANGED <<remote, want, quiet, trouble>>

RefreshMissing ==
  /\ run.pc = "read"
  /\ saved.values.cluster # NoCluster
  /\ ~Exists(saved.values.cluster)
  /\ Forgets
  /\ UNCHANGED <<remote, want, quiet, trouble>>

PlanDelete ==
  /\ run.pc = "plan"
  /\ want = Absent \/ saved.status = "tainted"
  /\ run' = Run("delete", "delete")
  /\ UNCHANGED <<remote, want, saved, quiet, trouble>>

PlanNothing ==
  /\ run.pc = "plan"
  /\ saved = Saved("ok", want)
  /\ Goes("done")
  /\ UNCHANGED <<remote, want, saved, quiet, trouble>>

Stays == want # Absent /\ saved.status = "ok"

PlanUpdate ==
  /\ run.pc = "plan"
  /\ Stays
  /\ saved.values.content # want.content
  /\ run' = Run("put", IF saved.values.cluster = want.cluster THEN "update" ELSE "move")
  /\ UNCHANGED <<remote, want, saved, quiet, trouble>>

\* "Nothing to update in node template": the planned cluster is saved.
Move ==
  /\ run.pc = "plan"
  /\ Stays
  /\ saved.values.content = want.content
  /\ saved.values.cluster # want.cluster
  /\ saved' = Saved("ok", want)
  /\ run' = Run("done", "move")
  /\ UNCHANGED <<remote, want, quiet, trouble>>

-----------------------------------------------------------------------------
(* Create, Update, Delete *)

Call ==
  /\ Post \/ Put
  /\ Goes("reread")
  /\ UNCHANGED <<want, saved, quiet, trouble>>

\* Mutant: what was planned is saved without reading it back.
Reread_Planned ==
  /\ run.pc = "reread"
  /\ Exists(want.cluster)
  /\ saved' = Saved("ok", want)
  /\ Goes("done")
  /\ UNCHANGED <<remote, want, quiet, trouble>>

Reread ==
  /\ run.pc = "reread"
  /\ Exists(want.cluster)
  /\ saved' = Saved("ok", Shown(want))
  /\ Goes("done")
  /\ UNCHANGED <<remote, want, quiet, trouble>>

\* Terraform takes it for a failure that a created or updated resource is gone,
\* and keeps what it had.
RereadMissing ==
  /\ run.pc = "reread"
  /\ ~Exists(want.cluster)
  /\ Goes("failed")
  /\ UNCHANGED <<remote, want, saved, quiet, trouble>>

Destroy ==
  /\ Delete
  /\ Forgets
  /\ UNCHANGED <<want, quiet, trouble>>

\* SDKv2 saves the planned values of an update that fails, and as tainted a
\* resource whose create fails after SetId.
AfterError ==
  IF run.op \in {"update", "move"} THEN Saved("ok", want)
  ELSE IF run.op = "create" /\ run.pc = "reread" THEN Saved("tainted", want)
  ELSE saved

Fails ==
  /\ saved' = AfterError
  /\ Goes("failed")

\* The name is taken in the cluster, or there is no template of the name, or no
\* cluster.
Refused ==
  /\ \/ run.pc = "post" /\ (Exists(want.cluster) \/ want.cluster = NoCluster)
     \/ run.pc \in {"post", "put"} /\ Contradicts
     \/ run.pc = "put" /\ ~Exists(want.cluster)
     \/ run.pc = "delete" /\ ~Exists(saved.values.cluster)
  /\ Fails
  /\ UNCHANGED <<remote, want, quiet, trouble>>

CallFails ==
  /\ run.pc \in Steps
  /\ Trouble
  /\ MaybeCarriedOut
  /\ Fails
  /\ UNCHANGED <<want, quiet>>

Killed ==
  /\ run.pc \in Steps
  /\ Trouble
  /\ MaybeCarriedOut
  /\ Goes("killed")
  /\ UNCHANGED <<want, saved, quiet>>

-----------------------------------------------------------------------------
(* Everybody else *)

\* terraform import by cluster and name, and its Read.
Import == \E c \in Clusters :
  /\ Trouble
  /\ run.pc \in Ended
  /\ saved = NotSaved
  /\ Exists(c)
  /\ saved' = Saved("ok", [cluster |-> c, content |-> Template(c)])
  /\ UNCHANGED <<remote, want, run, quiet>>

EditConfig ==
  /\ Trouble
  /\ run.pc \in Ended
  /\ want' \in (Configurations \cup {Absent}) \ {want}
  /\ quiet' = FALSE
  /\ UNCHANGED <<remote, saved, run>>

\* In the console: the template of this name is made, changed and deleted.
Others ==
  /\ Trouble
  /\ \E c \in Clusters, template \in (Contents \ Contradictory) \cup {NoTemplate} :
       Template(c) # template /\ Becomes(c, template)
  /\ quiet' = FALSE
  /\ UNCHANGED <<want, saved, run>>

-----------------------------------------------------------------------------
Terraform ==
  \/ Refresh \/ RefreshMissing \/ ReadSkips \/ PlanDelete \/ PlanNothing \/ PlanUpdate \/ Move
  \/ Call \/ Reread \/ RereadMissing \/ Destroy \/ Refused

Next ==
  \/ StartApply \/ Terraform
  \/ CallFails \/ Killed
  \/ Import \/ EditConfig \/ Others

Spec == Init /\ [][Next]_vars

\* Terraform runs to its end and the user applies again and again.
FairSpec == Spec /\ WF_vars(StartApply) /\ WF_vars(Terraform)

-----------------------------------------------------------------------------
(* Properties *)

\* Labels that were taken out of the configuration are never cleared.
LabelsStay ==
  want.content.labels = Empty /\ remote.keeps /\ Template(want.cluster).labels # Empty

\* An undisturbed create or update that ends without an error leaves the
\* template as configured but for what the request does not send, and the state
\* shows it as it is; not so when cluster_id is changed.  The minimum of nodes
\* is not part of a create, which leaves the planned one in the state where
\* CAST AI does not answer any.
SuccessIsReal ==
  run.pc = "done" /\ run.op \in {"create", "update"} /\ quiet =>
    LET template == Template(want.cluster)
        wanted == want.content
    IN /\ Exists(want.cluster)
       /\ template.labels = wanted.labels \/ (run.op = "update" /\ LabelsStay)
       /\ template.price = wanted.price
       /\ template.nodes = wanted.nodes \/ run.op = "create"
       /\ saved = Saved("ok", [cluster |-> want.cluster, content |->
                    IF run.op = "create" /\ ~remote.shows
                    THEN [template EXCEPT !.nodes = wanted.nodes] ELSE template])

\* When a template that is there may leave the state.
KnownLoss ==
  saved # NotSaved /\ Exists(saved.values.cluster) /\ remote' = remote =>
    \/ saved' # NotSaved /\ saved'.values.cluster = saved.values.cluster
    \/ run'.op = "move" /\ saved'.values.cluster = want.cluster

\* A template that exists leaves the state, not having been deleted, only when
\* cluster_id is changed: it then goes on in the old cluster.
OnlyKnownLosses == [][KnownLoss]_vars

Reached ==
  IF want = Absent THEN saved = NotSaved
  ELSE /\ Exists(want.cluster)
       /\ Template(want.cluster) = want.content
       /\ saved = Saved("ok", want)

\* It is reached, and no run has begun to change anything.
AtRest ==
  /\ Reached
  /\ \/ run.pc \in Ended
     \/ want # Absent /\ run \in {Run("read", "none"), Run("plan", "none")}

\* Another template has the name: somebody else's, or the one made by a create
\* whose answer was lost.
NameTaken == want # Absent /\ saved = NotSaved /\ Exists(want.cluster)

\* The price was removed by others, or the minimum of nodes; or the create has
\* not sent one: Read does not show it, and nothing sends it.
Unseen ==
  /\ want # Absent /\ saved = Saved("ok", want) /\ Exists(want.cluster)
  /\ LET template == Template(want.cluster)
         wanted == want.content
     IN /\ template.labels = wanted.labels
        /\ template.price \in {wanted.price, Empty}
        /\ template.nodes = wanted.nodes \/ (~remote.shows /\ template.nodes = Empty)

\* Without cluster_id Read shows nothing, and every call fails.
Nowhere ==
  IF want = Absent THEN saved # NotSaved /\ saved.values.cluster = NoCluster
  ELSE want.cluster = NoCluster

\* Where repeated applies come to rest.
Settled ==
  \/ Reached \/ NameTaken \/ Unseen \/ Nowhere \/ Contradicts
  \/ (want # Absent /\ Exists(want.cluster) /\ LabelsStay)

\* After the trouble, repeated applies reach the configured template, or one of
\* these dead ends.
Convergence == <>[]Settled
=============================================================================
