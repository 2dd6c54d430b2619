----------------------------- MODULE SideBySide -----------------------------
(***************************************************************************)
(* The resources of one provider that have nothing to do with each other:  *)
(* a behaviour is one of component's specification from its beginning to   *)
(* its end.  The specifications have the same variables, each with values  *)
(* of its own, so that one run checks them all and one theorem speaks of   *)
(* them all.                                                               *)
(***************************************************************************)
EXTENDS Naturals, Sequences, FiniteSets

CONSTANTS
  Components,      \* those of them that are looked at
  Ids,             \* IDs of policies and jobs,
  BindingIds,      \* of role bindings,
  ClusterIds,      \* and of clusters
  Names,           \* of policies, bindings and commitments,
  MatchedNames,    \* and of commitments that are mapped
  Settings,        \* what is configured, where it is one value
  Clusters, Schedules,
  Choices,         \* the values of a node template's attribute,
  Templates,       \* those that are configured together,
  Contradictory,   \* and those of them that are refused
  Regions, Types,
  MatchedTypes,    \* the types of commitments that are mapped
  Slots, MaxConfigs,
  Cloud, Key, Usages, ReadAs, Imported, Strategies, Default,
  Uploads,         \* the configurations of commitments
  Spaces, Kinds,
  LeavesOut, Connectors,
  Roles, Contents,
  Groups,          \* the configurations of a group
  Accounts

CONSTANTS
  NoId, NoPolicy, NoJob, NoCluster, NoTemplate, NoObject, NoBinding, NoGroup, NoAccount,
  NoConnector,
  Missing, Foreign, Empty, Absent, Any

CONSTANTS
  MaxTrouble,      \* bound on the faults, interventions and edits,
  MoreTrouble      \* and that of the specifications with fewer states

VARIABLES component, remote, want, saved, run, quiet, trouble

vars == <<component, remote, want, saved, run, quiet, trouble>>

-----------------------------------------------------------------------------
Policy == INSTANCE ScalingPolicy WITH MaxTrouble <- MoreTrouble
Job == INSTANCE RebalancingJob
Template == INSTANCE NodeTemplate WITH
  Settings <- Choices, Contents <- Templates
Matching == INSTANCE CommitmentMatching WITH Names <- MatchedNames, Types <- MatchedTypes
Commitments == INSTANCE Commitments WITH Configurations <- Uploads
Setting == INSTANCE SharedSetting
Secret == INSTANCE OneTimeSecret WITH MaxTrouble <- MoreTrouble
Enterprise == INSTANCE EnterpriseGroup WITH Ids <- BindingIds, Configurations <- Groups
Identity == INSTANCE ClusterIdentity WITH Ids <- ClusterIds, MaxTrouble <- MoreTrouble

\* What the parameters of each have to be.
SideBySideAssumption ==
  /\ Policy!PolicyAssumption
  /\ Job!JobAssumption
  /\ Template!TemplateAssumption
  /\ Matching!MatchingAssumption
  /\ Commitments!CommitmentsAssumption
  /\ Setting!SettingAssumption
  /\ Secret!SecretAssumption
  /\ Enterprise!GroupAssumption
  /\ Identity!IdentityAssumption

Is(name) == component = name

Init ==
  /\ component \in Components
  /\ \/ Is("policy") /\ Policy!Init
     \/ Is("job") /\ Job!Init
     \/ Is("template") /\ Template!Init
     \/ Is("matching") /\ Matching!Init
     \/ Is("commitments") /\ Commitments!Init
     \/ Is("setting") /\ Setting!Init
     \/ Is("secret") /\ Secret!Init
     \/ Is("group") /\ Enterprise!Init
     \/ Is("identity") /\ Identity!Init

Next ==
  /\ UNCHANGED component
  /\ \/ Is("policy") /\ Policy!Next
     \/ Is("job") /\ Job!Next
     \/ Is("template") /\ Template!Next
     \/ Is("matching") /\ Matching!Next
     \/ Is("commitments") /\ Commitments!Next
     \/ Is("setting") /\ Setting!Next
     \/ Is("secret") /\ Secret!Next
     \/ Is("group") /\ Enterprise!Next
     \/ Is("identity") /\ Identity!Next

\* The fairness of each specification; a behaviour has one component.
StartApply ==
  /\ UNCHANGED component
  /\ \/ Is("policy") /\ Policy!StartApply
     \/ Is("job") /\ Job!StartApply
     \/ Is("template") /\ Template!StartApply
     \/ Is("commitments") /\ Commitments!StartApply
     \/ Is("secret") /\ Secret!StartApply
     \/ Is("group") /\ Enterprise!StartApply
     \/ Is("identity") /\ Identity!StartApply

Terraform ==
  /\ UNCHANGED component
  /\ \/ Is("policy") /\ Policy!Terraform
     \/ Is("job") /\ Job!Terraform
     \/ Is("template") /\ Template!Terraform
     \/ Is("commitments") /\ Commitments!Terraform
     \/ Is("secret") /\ Secret!Terraform
     \/ Is("group") /\ Enterprise!Terraform
     \/ Is("identity") /\ Identity!Terraform

StartApplyIn(s) == Is("setting") /\ UNCHANGED component /\ Setting!StartApply(s)
TerraformIn(s) == Is("setting") /\ UNCHANGED component /\ Setting!Terraform(s)

Spec == Init /\ [][Next]_vars

FairSpec ==
  /\ Spec
  /\ WF_vars(StartApply) /\ WF_vars(Terraform)
  /\ \A s \in Spaces : WF_vars(StartApplyIn(s)) /\ WF_vars(TerraformIn(s))

-----------------------------------------------------------------------------
(* The properties of the specifications, under their names there *)

\* The type invariant of each.
TypeOK ==
  /\ Is("policy") => Policy!TypeOK
  /\ Is("job") => Job!TypeOK
  /\ Is("template") => Template!TypeOK
  /\ Is("matching") => Matching!TypeOK
  /\ Is("commitments") => Commitments!TypeOK
  /\ Is("setting") => Setting!TypeOK
  /\ Is("secret") => Secret!TypeOK
  /\ Is("group") => Enterprise!TypeOK
  /\ Is("identity") => Identity!TypeOK

\* An undisturbed apply that succeeds leaves what is configured, at CAST AI and
\* in the state, whatever attempts, runs and interventions came before it.
SuccessIsReal ==
  /\ Is("policy") => Policy!SuccessIsReal
  /\ Is("job") => Job!SuccessIsReal
  /\ Is("template") => Template!SuccessIsReal
  /\ Is("commitments") => Commitments!SuccessIsReal
  /\ Is("setting") => Setting!SuccessIsReal
  /\ Is("group") => Enterprise!SuccessIsReal
  /\ Is("identity") => Identity!SuccessIsReal

\* Terraform touches nothing that others made but what it is to adopt: policies
\* (ScalingPolicy) and commitments in append mode (Commitments).
OthersLeftAlone ==
  [][/\ Is("policy") => Policy!LeavesOthers
     /\ Is("commitments") => Commitments!LeavesOthers]_vars

\* What the state once had of something that is there, an ID or a token, it
\* loses in the named cases only: not when a create fails that knows the ID
\* (ScalingPolicy), nor in a refresh, update or destroy that fails.
OnlyKnownLosses ==
  [][/\ Is("policy") => Policy!KnownLoss
     /\ Is("job") => Job!KnownLoss
     /\ Is("template") => Template!KnownLoss
     /\ Is("secret") => Secret!KnownLoss
     /\ Is("identity") => Identity!KnownLoss]_vars

\* After the trouble, repeated applies come to rest in what is configured, or
\* in one of the dead ends the specification names.
Convergence ==
  <>[](/\ Is("policy") => Policy!Settled
       /\ Is("job") => Job!Settled
       /\ Is("template") => Template!Settled
       /\ Is("commitments") => Commitments!Settled
       /\ Is("setting") => Setting!Settled
       /\ Is("secret") => Secret!Settled
       /\ Is("group") => Enterprise!Settled
       /\ Is("identity") => Identity!Settled)

\* What is configured is reached, and no run has begun to change anything.
AtRest ==
  /\ Is("policy") => Policy!AtRest
  /\ Is("job") => Job!AtRest
  /\ Is("template") => Template!AtRest
  /\ Is("commitments") => Commitments!AtRest
  /\ Is("setting") => Setting!AtRest
  /\ Is("secret") => Secret!AtRest
  /\ Is("group") => Enterprise!AtRest
  /\ Is("identity") => Identity!AtRest

\* Without faults, edits and the console, a configuration that is reached stays
\* reached, and an apply of it changes nothing: what each Read makes of CAST AI
\* is what is planned.
StaysReached == [][AtRest /\ trouble' = trouble => AtRest']_vars

\* No second job is made for a cluster and schedule (RebalancingJob).
OneJobEach == Is("job") => Job!OneJobEach

\* The mapping resolves exactly what can be resolved (CommitmentMatching).
MatchIsRight == Is("matching") => Matching!MatchIsRight

\* Workspaces that disagree have their way in turn (SharedSetting).
EachInTurn == \A s \in Spaces : []<>(Is("setting") => Setting!HasItsTurn(s))

\* In append mode nothing is deleted, whichever the cloud (Commitments).
AppendDeletesNothing == [][Is("commitments") => Commitments!DeletesNothing]_vars
=============================================================================
