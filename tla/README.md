# A verification of the CAST AI Terraform provider

TLA+ models of `terraform-provider-castai`, the TLC configurations that check
them on small instances, and TLAPS proofs of their safety properties for every
value of the constants. Paths are relative to the repository; `castai/...`
stands for the provider's package.

## 1. The system

The provider is a process Terraform starts for a run. It keeps nothing between
runs except what Terraform writes into its state file. Terraform refreshes each
resource (`Read`), compares it with the configuration (the plan, with
`CustomizeDiff` or plan modifiers) and applies the difference (`Create`,
`Update`, `Delete`), resources without dependencies between them at the same
time. Every operation is a sequence of calls to the CAST AI API.

So there are three copies of the truth: the configuration, the Terraform state,
and CAST AI. None of the programs around them is transactional. The behaviours
that are hard here are the same in most resources:

- an operation is several calls, and any of them can fail, lose its answer, or be
  the last one before the process dies;
- what was read is acted on later, while the console, other tools, other
  resources of the same apply and CAST AI itself change it;
- SDKv2 saves the *planned* values when an update fails, saves a resource as
  tainted when a create fails after `SetId`, and saves nothing when it fails
  before;
- some data cannot be read back (credentials, tokens), so drift is found by a
  proxy: an ID, a hash, a revision;
- retries repeat calls that are not always idempotent;
- a resource that fails must still get to the configured state by applying again.

### 1.1 Components

| component | code (`castai/`) | state it keeps | operations | what makes it correct |
|---|---|---|---|---|
| cluster connection | `cluster.go`, `resource_{eks,gke,aks}_cluster.go` | ID, `credentials_id`, credentials, token, `delete_nodes_on_disconnect` | CRUD; register is an upsert; update with retries; delete is a polling loop of disconnect and delete | a destroy ends, never forgets a live cluster, and takes nodes down only on request; the state never hides wrong credentials |
| autoscaler policies | `resource_autoscaler.go` | configured settings, the merged document as JSON | plan computes the merge, update retries on version conflicts | no unconfigured setting is lost, the default template is not reverted, no false drift |
| default node template | `resource_node_template.go` | template | CRUD, import; it is created by waiting for CAST AI's own and updating it, and is not deleted | it and the policies do not starve or undo each other |
| other node templates | `resource_node_template.go` | template; its name is its ID, the cluster an attribute | CRUD, import | what an update sends, what Read shows and what was planned do not come apart |
| edge location | `resource_edge_location.go`, `store/store.go` | visible spec, revision; hash of credentials in private state | plan modifier, CRUD, delete polls, import | the hash is that of the credentials in force |
| organization members | `resource_organization_members.go` | three lists of emails | CRUD by difference: remove, withdraw, move, invite | people end up with the configured role; the manager is not locked out |
| workload scaling policy | `resource_workload_scaling_policy.go` | policy | CRUD, import; create is a POST in a retry loop that adopts the default policy | nobody else's policy is changed; an ID once known is kept |
| workload scaling policy order | `resource_workload_scaling_policy_order.go` | list of policy IDs | set by PUT, Read, delete that only forgets | several workspaces have their way in turn, no false drift |
| commitments | `resource_commitments.go` | file of commitments, configurations, commitments with assignments | import, update each, assign each, the ID last; two import modes, two clouds | a failure in the middle can be resumed; others' commitments stay in append mode |
| commitments mapping | `resource_commitments_mapping.go` | none between two calls | matching of configurations with commitments | every configuration goes to its own commitment, or an error says so |
| reservations | `resource_reservations.go`, `reservations/` | list of reservations | overwrite of the whole list | as the order |
| rebalancing job, schedule | `resource_rebalancing_*.go` | schedule; job by schedule | check then create or adopt | one job per schedule; deletion elsewhere is noticed |
| hibernation schedule | `resource_hibernation_schedule.go` | schedule | CRUD, import by name | deletion elsewhere is noticed |
| node configuration, edge configuration, their default markers | `resource_node_configuration*.go`, `resource_edge_configuration*.go` | configuration; which one is default | CRUD; the marker sets and checks a flag, its delete does nothing | a default is not deleted; a marker sees that another one has taken over |
| omni cluster | `resource_omni_cluster.go` | onboarding | CRUD | life cycle of section 2 |
| eviction configuration | `resource_eviction_config.go` | list of rules | upsert; delete is an upsert of nothing | a delete that failed is not taken for done |
| pod mutation | `resource_pod_mutation.go` | mutation | CRUD | life cycle |
| security runtime rule | `resource_security_runtime_rule.go` | rule | create, then find by name; built-in rules are disabled, not deleted | no orphan, no duplicate |
| service accounts and keys, SSO connection | `resource_service_account*.go`, `resource_enterprise_service_account.go`, `resource_sso_connection.go` | account; key and token; connection and sync token | CRUD; secrets are answered once | a token that was received is not lost |
| role bindings, groups | `resource_role_bindings.go`, `resource_organization_group.go` | bindings, group | CRUD | life cycle |
| enterprise groups and role bindings | `resource_enterprise_{group,role_binding}.go` | group with its bindings; binding | CRUD in batches; bindings matched by ID or name | each binding keeps its ID, those of others stay out of the state |
| AI optimizer | `resource_ai_optimizer_*.go` | registry, specs, hosted model | CRUD; lookup through pages | life cycle |
| database cache | `resource_cache_*.go` | group, configuration, rule | CRUD | life cycle |
| allocation group, custom metrics source | `resource_allocation_group.go`, `resource_workload_custom_metrics_data_source.go` | group, source | CRUD, one delete polls | life cycle |
| cluster identifiers | `resource_{gke,eks}_cluster_id.go`, `resource_eks_cluster_userarn.go` | ID, token, service account | register, token, account | repeatable after any failure |
| provider, organization cache | `provider*.go`, `utils.go` | clients, default organization | lazy lookup | concurrent resources see the same one |
| data sources, cloud policies, validators, SDK | | none | reads, text, checks of values | nothing happens between two steps |

Every component, also the last row in parts, is in `PROJECT.json` with its
status. `PROJECT.json` also lists the hazards, each at its line, with the
properties that cover it or the reason why none does.

### 1.2 How components interact

- The resources of one apply run concurrently. The autoscaler and the default
  node template write to data CAST AI keeps in step: `AutoscalerPolicies` has
  both, and their interleavings.
- A replacement is a delete followed by a create: `ClusterResource` composes the
  life of a cluster with the `ClusterRemoval` that `ClusterDelete` implements.
- An edge location must be gone before its omni cluster is deleted, which is why
  its delete waits: `ForgottenOnlyWhenGone` in `EdgeLocation`.
- Role bindings and organization members write to the same bindings:
  `OrganizationMembers` has the other writer among the console's actions.
- Default markers and the order of scaling policies name objects that other
  resources and workspaces own: in `SharedSetting` these may go at any time, and
  several workspaces write the one value.
- The cluster identifiers stand on the cluster another resource of the same
  configuration destroys: `ClusterIdentity` has the three of them, with the
  dependencies between them.
- Commitments are mapped to configurations twice, by the plan and by the upsert:
  both use the mapping that `CommitmentMatching` goes through step by step.

## 2. Modules

A model keeps every call, guard, early return, error path and their order. Data
is abstracted to what the properties tell apart. What is outside the repository
(Terraform core, SDKv2, CAST AI) is modelled from how the code uses it and is
marked external in `PROJECT.json`. The common form is: `remote` variables are
CAST AI, `saved` is the Terraform state, `want`/`config` the configuration, and
a record or `pc` says what the run is doing. One action is one call with the
code up to the next one.

**Faults.** `Trouble` is a budget that each fault, crash, console action and
configuration edit takes one from; `MaxTrouble` bounds it. Runs themselves are not
bounded: Terraform may apply any number of times.

### ClusterRemoval, ClusterDelete

`ClusterRemoval` is the abstract specification of a delete: it begins, the
backend archives the cluster at some point, and the operation succeeds only on
an archived cluster, or fails. `ClusterDelete` is `resourceCastaiClusterDelete`
with its `RetryContext` loop: get, decide by status, agent status and
credentials, delete or disconnect, fall back on status 400, wait. Variables are
the cluster (status, agent, credentials, its nodes), the loop (`pc` and what the
last GET returned, so decisions are taken on old facts) and whether the state
still has the resource. `Intervention` is other users; `TimeOut`, `CallFails` and
`AnswerLost` are faults. A DELETE without an answer dereferences a missing
response (line 64): the model panics there.

### ClusterResource

The whole life: refresh, plan (with `CustomizeDiff` and the drift marker),
create (register, token, update), update with retries (`PutSucceeds`,
`PutRejected`, `PutFails`, `PutGone`, `PutAnswerLost`, `PutDelayed`), final Read,
delete. `inFlight` holds update requests that were given up but arrive later.
The variable `kind`, chosen initially, is the cloud (the Read of EKS returns the role
ARN, the others no credentials; AKS requires them) and whether CAST AI leaves
`credentials_id` out of the answer where a cluster has no credentials. GKE then saves
an empty ID (`resource_gke_cluster.go:158`); EKS and AKS skip the comparison and
follow the missing pointer two lines later, which takes the provider down (`Panic`).
Delete is one step here, as `ClusterRemoval` allows.

### AutoscalerPolicies

`resource_autoscaler.go` and the default template of `resource_node_template.go`
in one apply. The document has `Fields` of its own and one `synced` part that
CAST AI keeps equal to the default template with its version. `PolicyRefresh`,
`PolicyDiff`, `PolicyGet`, `PolicyPut`, `PolicyConflict`, `PolicyRetry` are the
read, the plan's second read, and the get, put, and conflict of
`updateAutoscalerPolicies`; `Template*` are the other resource's. An error
answered in JSON yields `ErrorBody`, as `getCurrentPolicies` makes of it. A resource
may also have nothing configured (`given`): then plan and update return before they
read anything (`DiffSkips`, `UpdateSkips`). Either
resource can be taken out of the configuration (`want.kept`, `want.template`) and
be imported. Deleting the policies writes `Disabled`, deleting the default
template leaves it where it is.

### EdgeLocation

Plan modifier (revision from the hash), create, update, delete with poll, import,
and the private state. A hash stands for the credentials it was computed from.
`doubt` is a history variable: since the hash was stored an update without an
answer may have replaced the credentials, or one without credentials dropped
them. Nothing in the code reads it; `HashIsCurrent` exempts exactly that time.

### OrganizationMembers

People have a standing (outside, invited, inside with a set of roles). A run
works through `users`, `invitations`, `move` and `invite` in the order of
`resourceOrganizationMembersUpdate`; a move is three actions. The lists are ordered, in
the configuration as in the state, and may name somebody twice. A Read is two calls:
`ListRoleBindings` fills the lists with those who have joined, `ListPending` appends
those who are still invited, each in the order CAST AI lists people (`Listing`); who
accepts in between is on no list. A plan compares the lists, an update works on the
people whose roles differ, so that lists in another order are a difference nothing
removes (`Misordered`). `quiet` is a history variable: no fault and no interference
since the run began.

### ResourceProfiles, ResourceLifecycle

Most resources are one object with CRUD functions of one or two calls each. They
are one specification, `ResourceLifecycle`, and a table of profiles,
`ResourceProfiles`, one record per resource with the choices its functions make:
how the ID is found (from the answer, by a search for the name, by an upsert, by
adopting what is there), whether an operation ends with Read, what Read does about
a missing object, about required and about unset optional attributes (which it
may show as an empty block), whether another attribute overrides the optional ones,
whether the functions refuse to go without them, what an update leaves out, what forces
a replacement, what is saved after a failed update
(SDKv2: the planned values; the framework: the prior ones), and how Delete works
(one call, a check for the default before it, a poll after it, disabling what is
built in, an unchecked call) and whether it takes 404 for done.

`kind` is the profile, chosen initially; `unique` and `partial` are facts about
CAST AI the code does not settle (names are unique; an update keeps what is not
sent), also chosen initially, so that the properties hold either way. `objects`
are the objects with the configured name. An object's `owner` is a history
variable: "here" once the resource was told its ID, "unknown" when nobody was,
"other" when it is somebody else's or was left on purpose. `run.id` is the ID a
create holds before it is in the state. Attributes are a required value and the
presence of the optional ones. A configuration that is removed while the object
is the default one leaves the object, as the code does. Where a resource has two
behaviours, it has two profiles: a rebalancing schedule with `aggressive_mode`, whose
Read shows another `aggressive_mode_config` than the configured one
(`resource_rebalancing_schedule.go:298`), and a group for which CAST AI answers an
empty list of members.

The remaining components have a specification each. They have the variables
`remote`, `want`, `saved`, `run`, `quiet` and `trouble` in common, and the
properties `SuccessIsReal`, `OthersLeftAlone`, `OnlyKnownLosses`, `Settled` and
`Convergence` as far as they apply.

- **ScalingPolicy**. `post`, `find`, `adopt`, `fetch` are the calls of the retry
  loop of a create. Any of them may fail or lose its answer and send the loop
  back to a POST, now with its own policy in the way, until the deadline. At the
  deadline the error of the attempt before is returned; in the first attempt
  there is none, so that a create which knows an ID ends as if it had succeeded
  (`assumed`), whatever has been carried out.
- **RebalancingJob**. `list`, then adopt or `post`; Read looks by ID and, if that
  is unknown, by schedule (`relist`). An update sends the flag only.
- **NodeTemplate**. Templates other than the default one. The ID is the name, so
  the state's template is whichever has the name in the state's cluster, and
  `cluster_id` is changed in place: alone it is a success without a request
  (`Move`), with others the update goes to the new cluster; without it Read shows
  nothing and every call fails (`Nowhere`). Three attributes stand for the ways
  attributes are treated: `labels` are sent if there are any; `price` is sent if there
  is one or it changed, and its absence is not read; `nodes`, the minimum of nodes, is
  not part of a create (`resource_node_template.go:1475` asserts an `int32` where the
  schema yields an `int`), and Read sets it only from a rebalancing configuration
  (`:913`). The code does not settle whether CAST AI answers one for a template
  without a minimum, so `remote.shows` is either: if it does, the next plan has the
  difference and its update sends the minimum; if not, the state keeps the planned one
  and nothing ever sends it (`Unseen`). Taints without `should_taint` are refused before
  the call (`Contradicts`).
- **CommitmentKeys, CommitmentMatching, Commitments**. Keys (name, region, type)
  and matchers; the loop of `mapConfigsToCommitments`, one configuration per step,
  on every input of three commitments and two configurations; and the resource:
  import, list, then one update and one assignment call after the other. A commitment
  without a configuration is planned with the usage it has, the default strategy and no
  assignments; the update withdraws the assignments and writes the strategy back as it
  is (`resource_commitments_mapping.go:515`). Read rounds a usage to two decimals
  (`ReadAs`).
- **SharedSetting**. Four resources that write one value of a cluster or an
  organization, each in several workspaces, whose runs interleave.
- **OneTimeSecret**. A token is the number of the answer it came in, so that the
  state's token and CAST AI's can be compared. Read takes everything from the answer but
  the connector (`aad`, `okta`, `oidc`), which stays what the state has (`Shown`), and
  additional domains that are empty are not sent (`Sent`).
- **EnterpriseGroup**. The group with its list of bindings. Computed IDs stay at
  their places in the list when the configuration changes, so an update may send
  the ID of one binding with the name of another. CAST AI replaces all bindings
  with those of an update, also those the state does not show. The code logs that
  it tries to find a binding by name (`resource_enterprise_group.go:697`) and then
  goes on without (`:701`); the model does what it does.
- **ClusterIdentity**. The ID resource, the principal made for this ID, and the
  cluster resource, on one registered cluster.

`SideBySide` puts them next to each other: they share nothing, so a behaviour is one
component's from its beginning to its end, and a property says of whichever
component it is what that component's specification says. Its parameters are
theirs, and `SideBySideAssumption` is all they need. `MCSideBySide` gives the
parameters small values.

## 3. Checks

All runs stop within minutes. `TypeOK` is checked in the passing run of every
module; it includes that no marker value (drift, forced credentials) gets where
it has no business.

| run | module | bounds | shows |
|---|---|---|---|
| `cluster_delete` | ClusterDelete | every status, agent and credentials; 4 troubles | `ForgottenOnlyWhenGone`, `NodesKeptUnlessAsked`; `EventuallyRemoved`; `ImplementsRemoval` |
| `cluster_resource` | MCClusterResource | three clouds, an ID left out or not, 2 credentials, 4 IDs, 6 troubles | `NoSilentDrift`, `TrackedUntilGone`, `DeleteAsPromised`, `Convergence` |
| `autoscaler_policies` | MCAutoscalerPolicies | 1 setting or none, 2 values, 2 templates, 2 attempts, 3 troubles | `RetriesSuffice`, `TemplateNotReverted`, `OverridesOnly`, `DriftIsReal`, `Convergence` of both resources, each also when it is deleted and imported |
| `autoscaler_error_body` | MCAutoscalerPolicies | 2 settings, 2 troubles | finding 1 |
| `edge_location` | MCEdgeLocation | 2 specs, 2 credentials, 6 troubles | `HashIsCurrent`, `RevisionTells`, `ForgottenOnlyWhenGone`, `Convergence` |
| `edge_location_import` | MCEdgeLocation | 3 troubles | finding 2 |
| `organization_members` | MCOrganizationMembers | 3 people, 2 roles, 8 pairs of lists, 3 troubles | `AppliedAsPlanned`, `OnlyMovesRemoveMe`, `AgreedUntouched`, `Convergence` |
| `organization_members_manager` | MCOrganizationMembers | 2 people, 1 trouble | finding 3 |
| `resource_lifecycle` | MCResourceLifecycle | 24 profiles of 22 resources, 2 values, 4 IDs, 3 troubles | `CreatedIsKept`, `HandsOff`, `StaysReached`, `Convergence` |
| `resource_lifecycle_schedules` | MCResourceLifecycle | the two schedules, 1 trouble | finding 4 |
| `side_by_side` | MCSideBySide (of SideBySide) | nine components; 2 or 3 values of each kind, 3 to 5 IDs, 2 or 3 troubles, 2 workspaces, 2 commitments, mappings of up to 3 | `SuccessIsReal`, `OneJobEach`, `MatchIsRight`, `OthersLeftAlone`, `OnlyKnownLosses`, `EachInTurn`, `StaysReached`, `Convergence` |
| `commitments_append` | MCSideBySide (of SideBySide) | the commitments alone | finding 5 |

**Why the bounds are enough.** Two values of each kind of data suffice to tell
"the configured one" from "another one", the only comparison the code makes. Four
credential IDs are the three that can be known at once (state, operation, CAST
AI) and a fresh one. Two attempts of the conflict loop reach the first, a
repeated and the last one; the theorem `Retries` covers the code's five. In
`ResourceLifecycle` four IDs are one more than three troubles can make objects. Three
people are the manager, somebody who moves and somebody who must be left alone; their
lists have each order, a move between lists and a name twice, while CAST AI lists
people in one order.
Trouble budgets were chosen so that the longest known bad sequences fit with one
to spare: for example a lost update, a console reset, an edit and a crash around
them. Symmetry is used in two of the violation runs
only (`edge_location_import`, `autoscaler_error_body`). In `side_by_side` three
IDs are those of the state, of a lost attempt and of somebody else; five
clusters and four bindings are one more than the troubles can make. For the mapping,
three commitments of two names and regions, with two configurations, are enough for
each error and for a commitment two configurations want. For the resource, two
commitments that differ in their region, both to update, reach a failure between them;
of three usages one has more decimals than Read shows. The groups of bindings trade
names, places and roles, and two have one name.

**Deadlock.** Checked, except in runs whose module has an end the system really
reaches (a destroyed cluster, a mapping that has ended in `side_by_side`).

**Fairness.** Weak fairness of a run's own steps: Terraform calls the handler and
the handler runs on. Weak fairness of starting an apply: the user who wants the
configuration applies again. CAST AI finishes what it accepted (deletion, agent
leaving, creating the default template). In `SharedSetting` each workspace has a
fairness of its own: its user applies, whatever the others do. Strong fairness only
where a deadline ends a loop that may otherwise be entered and left for ever: `GiveUp`
and `TemplateTimesOut` are the handlers' timeouts. Faults, edits, the console and
invitations are never fair, and the budget ends them, so that convergence is
"after the trouble".

**Convergence** says `<>[]Reached`: the configuration is reached and no later plan
wants anything. Where the code cannot get there, the property names the dead ends
as formulas:

- a cluster without credentials for which CAST AI answers no ID: a GKE cluster whose
  credentials are gone unseen (`GoneUnseen`), an EKS or AKS cluster no Read survives
  (`NeverRead`);
- an edge location created without an answer, or without a stored hash;
- the manager to be removed, a member stranded without a role, people a create
  cannot invite, lists in another order than CAST AI's (`Misordered`);
- a default template that does not exist while nothing writes the policies, whose
  first write makes it;
- `ResourceLifecycle`: `NameTaken` (a create lost its answer, or somebody else
  has the name), `Unreadable` (Read fails on an object that is gone), `Unseen`
  (drift Read leaves out), `Unremovable` (an optional attribute an update does not
  send), `Perpetual` (Read shows an empty block that is not configured, or what another
  attribute has put in the place of the configured one), `Incomplete` (a configuration
  the functions refuse);
- `ScalingPolicy`: `NameTaken`;
- `RebalancingJob`: `ScheduleStays`, a change of the schedule is planned for ever
  and never sent;
- `NodeTemplate`: `NameTaken`; `LabelsStay`, labels taken out of the configuration
  that no update clears; `Unseen`, a price or a minimum of nodes that is not there and
  that Read does not show; `Nowhere`, no cluster; `Contradicts`;
- `Commitments`: configurations that cannot be mapped; `NeverShown`, a usage with more
  decimals than Read shows; `StrategyStays`, the strategy of a commitment without a
  configuration, which every plan resets and every update writes back;
- `SharedSetting`: workspaces that disagree (`EachInTurn` holds instead), and a
  value that does not exist any more;
- `OneTimeSecret`: a synchronisation token that was lost while the state says that
  synchronisation is on, a connection deleted elsewhere, a name taken;
  `ConnectorUnseen`, a connector that is not the configured one, which no Read shows;
  `DomainsStay`, domains to be removed that no update clears;
- `EnterpriseGroup`: bindings of one name, which come to share an ID; a name taken
  by a group nobody knows; a group that is not on the first page of the listing;
- `ClusterIdentity`: a principal on an archived cluster, which cannot be asked for
  any more; a client service account changed after the create (`AccountStays`).

Leaving one of them out of its property makes TLC refute it. Most are in the
hazards.

**StaysReached** is about the other half of `<>[]`: an apply of what is reached ends
where it began, without a fault, an edit or the console. A value that Read shows
otherwise than it was sent, or shows where nothing is configured, would break it, as
would an update that leaves something out. So it exempts the empty block some Reads
show (`Blanked`), and what is planned and read of the minimum of nodes, of a usage, of
the strategy of a commitment without a configuration and of a connector is what the
code plans and reads. Of a list's order and of the defaults of single attributes it
says nothing (section 6); the order of the members' lists is the matter of
`Convergence` in `OrganizationMembers`.

**Mutants.** Every property has a mutation of a mapped definition in
`PROJECT.json` which makes TLC refute it: a definition named `X_...` next to the
`X` it changes, a dropped guard, a swapped order, a forgotten reset. They are not
part of any specification.

### 3.1 Findings

1. **An error of GET policies is merged and written** (`resource_autoscaler.go:792`).
   Only 404 is looked at. Another error with a JSON body is taken for the
   policies; an update sends the configuration alone, without the settings and
   the version it should carry.
2. **No plan succeeds after importing an edge location with credentials**
   (`store/store.go:39`). Comparing with a hash that is not there is an error.
3. **Moving the managing user removes this user** (`resource_organization_members.go:358`).
   The guard looks at deletions only; a move starts with a removal, after which
   the token may not be able to add the user again.
4. **A schedule that was deleted elsewhere blocks every plan**
   (`resource_hibernation_schedule.go:489`, `resource_rebalancing_schedule.go:257`).
   A 404 becomes an error before the branch that would remove the schedule from
   the state; that branch cannot be reached.
5. **`import_mode = "APPEND"` deletes GCP commitments** (`resource_commitments.go:690`).
   `importCUDs` asks for an overwrite whatever the mode is; the documentation
   says that an append deletes nothing.

## 4. Plan

The components that change state have their modules, and the safety properties
their theorems. What is left, in this order:

1. The listing of role bindings page by page, in `OrganizationMembers`: Read takes
   the first page only (`resource_organization_members.go:187`).
2. The call with which the GKE delete disables the cluster's service account. Its
   outcome is ignored; of interest is a delete that fails after it.

## 5. Proofs

The proof modules extend the component's module and `TLAPS`; each holds for all
values of the constants that satisfy the module's assumptions (sets are disjoint
from the marker values, budgets and `Steps` are naturals), in particular for any
amount of trouble.

- **ClusterDeleteProofs.** `Typing`, `Forgetting`, `NodesKept`, and
  `Implementation`: every step of the loop is a step of `ClusterRemoval` or
  stutters, with `GoneIsStable` (what was archived stays so, which is why acting
  on an old GET is safe) and `TrackedUntilRemoved` as the invariants it needs.
- **ClusterResourceProofs.** `Typing`; `SilentDrift`; `Tracking`; `Deletion`.
  `NoSilentDrift` alone is not inductive: it says nothing of the data an
  operation will save, nor of requests in flight. `DriftInv` says of the saved
  resource *and* of the operation's data that showing the current ID means
  showing the credentials in force (`Honest`), and that the IDs they carry are
  ones CAST AI has given (`Named`), so that a fresh ID differs from all of them. Of a
  cluster for which CAST AI answers no ID nothing is said (`IdOmitted`).
- **AutoscalerPoliciesProofs.** `Typing`; `Retries`, from `Fresh`: each attempt
  that failed saw a version that is older than the current one, so attempts are
  bounded by the growth of the version; `TemplateKept` and `OthersKept`: the
  document of an update is the one it read with the configuration over it;
  `NoFalseDrift`, from `PlanFresh`: unless somebody edits or an error is read, the
  document the refresh left for the plan has the settings as they are and nothing
  of the template's part, so a configuration CAST AI has already, merged into the
  plan's own read, shows no difference (`MergedAlready`).
- **EdgeLocationProofs.** `Typing`, `HashCurrent`, `RevisionRises`, `ForgottenLast`
  from `Sound`: types, `Purpose` (a handler runs only for a resource that calls
  for it), `PlanStands` (the planned revision is the saved one, plus one if the
  credentials are not those of the hash) and `HashIsCurrent`.

- **ResourceLifecycleProofs.** `Typing`, `Kept`, `Apart` for every set of profiles,
  from `Sound`: types, `CreatedIsKept`, `Purpose` (while a resource is created
  nothing is in the state, which is why saving the new ID overwrites nothing) and
  `Own` (what the state or the operation refers to is the resource's own). Steps
  that leave the objects alone and steps that change one are a lemma each,
  `QuietStep` and `ObjectStep`. `Lasting`, of `StaysReached`: what Read makes of an
  object that is as configured is what the state has (`ReadReached`), whatever the
  profile reads and leaves out, unless it shows an empty block (`Blanked`); and a state
  with the configured attributes is the planned one (`SameValues`), so nothing is
  planned.

- **OrganizationMembersProofs.** `Typing`, `ManagerMovesOnly`, `AgreedKept`,
  `PlanReached`, for any people, any finite set of roles, any lists and any order of
  listing. The invariant has
  three parts: `Types` (with `Purpose`: what a run is for); `Sound` (the manager
  is not among those to be removed; an update has found work only for those whose
  lists differ), which carries the two action properties; and `Exact`, which
  carries `AppliedAsPlanned`: an undisturbed run has each person either in the
  sets of work that is left, or already in the configured role (`InHand`).
- **SideBySideSharedProofs, SideBySideProofs.** The theorems about `SideBySide` are
  `Typing`, `Success`, `OneJobForEach`, `MatchesRightly`, `OthersUntouched`,
  `NothingElseLost` and `RestLasts`: the properties of the run `side_by_side`, for
  all values of the parameters. `Sound` there is the invariant of whichever component the
  behaviour is of, and a step is one of that component's (`OwnStep`), so they rest
  on an invariant for each component. The first module has those of the
  components that write what others write too, the second the rest:

  - *ScalingPolicy*: types, `PolicyPurpose`, `PolicyOwn` (what the state or the
    operation refers to is Terraform's or the default policy) and
    `PolicyDelivered` (what the write before the last read has done).
    `PolicyCareful` says what a call may do; one lemma per group of actions shows
    it.
  - *SharedSetting*: an invariant per workspace, `SettingInsight`: what an
    undisturbed run has read is still so. A write by one workspace disturbs every
    other, so the proof distinguishes the workspace that moves from the rest.
  - *CommitmentMatching*: `Through` says of the configurations the loop has passed
    what `MatchIsRight` says at its end, and an error is shown to leave no
    resolution.
  - *Commitments*: `UpsertDelivered` says that a commitment of the file which is no
    longer to be worked off has what is configured, and between its two calls its
    usage and strategy (the plan has made sure that this is one value, `UpsertOneValue`);
    `UpsertBounds`, that what is to be worked off or deleted is the resource's
    own, whatever others import or delete meanwhile.
  - *EnterpriseGroup*: `GroupInsight` says of an undisturbed refresh that what it has read is
    there, entry by entry, and `GroupShape` which lists a run holds. What a call
    leaves (`GroupDelivers`) follows from counting the places of a list: the entries
    whose binding is there keep their order (`GroupNth`), and of a complete list each
    keeps its place.
  - *RebalancingJob*: `OneJobEach` holds because whoever is about to make a job has
    found none of its own for cluster and schedule (`JobAlone`), which what others
    do in between leaves so; `JobDelivered` says what an undisturbed run will find
    when it reads the job back.
  - *NodeTemplate*: the price is left out of the request where neither state nor
    configuration has one, so `TemplateInsight` says of an undisturbed run, from
    `Refresh` to `Put`, that a price the state does not have is not at CAST AI
    either. `TemplateSent` says what a create has left, which is without a minimum of
    nodes: the state shows the planned one after it where `remote.shows` is not.
  - *OneTimeSecret*: a key's token is wherever the key is known (`SecretKept`); of a
    connection, which others may switch, only an undisturbed run knows
    (`SecretInsight`), and of its connector not even that.
  - *ClusterIdentity*: `IdentityShape` says of every resource whether it is in the state
    or still to be made, and `IdentityInsight` what an undisturbed refresh has seen;
    what an apply neither makes nor destroys is then as it should be.

  `RestLasts` needs one lemma for each component that is applied (`PolicyRests`,
  `JobRests` and so on): `AtRest`, that the configuration is reached and that a run
  which has begun has read what the state has, or has nothing planned, is inductive
  under the type invariant as long as there is no trouble. Only `ClusterIdentity`
  needs more: whoever configures the principal configures the ID it is made for.

What a theorem assumes of the constants is a named assumption of the module that
declares them; for the components side by side it is a definition
(`PolicyAssumption` and so on, together `SideBySideAssumption`), which the theorems
take as a hypothesis and `MCSideBySide` assumes of its instance, so that TLC
evaluates it.

**What the proofs found.** Two attempts failed for a reason. In `ClusterIdentity`
the plan took a tainted ID for one that stays, so that `SuccessIsReal` was not
inductive: after a create that failed half-way, Terraform replaces the resource, and
everything that refers to its ID is planned with an unknown one. TLC had not
reached a state where it matters. And `EnterpriseGroup` read the state's bindings
back by filtering a sequence, of which the prover knows nothing; `Known` now says
which binding is at each place.

Nor was `CanRegister` there at first: TLC's few cluster IDs never ran out, and for
every set of IDs the choice of a fresh one has to be guarded.

**Model-checked only.** Liveness, that is `Convergence`, `EachInTurn` and
`EventuallyRemoved`: under fairness it is outside what the prover does. What comes
nearest to it and is proved is `StaysReached`, the second half of `<>[]`. Every
other property of the passing runs has its theorem.

## 6. Not modelled

- The GKE delete's call to disable its service account (section 4): its outcome is
  ignored and nothing else reads the account.
- The provider's cached default organization (`utils.go:162`). Concurrent
  resources read and write the field without a lock, but each of them writes what
  CAST AI answers for the same token. A model would have one assignment and
  restate it; the race itself is a matter for the race detector.
- Pages of a listing, but for the one `EnterpriseGroup` names.
- The order of a list, except where a property is about it (members, bindings of a
  group, reservations and orders as one value): the assignments of a commitment are
  there or not. The default of a single attribute, filled in by the schema on both
  sides of the comparison. An attribute that is configured empty where it could be
  left out.
- Timing other than the order of events; HTTP retries below the handlers (there
  are none).
- Text: error messages, policy templates, the shape of attributes, validators.
- Data sources: a read, and no state of their own.
- The generated API clients (`castai/sdk/**/*.gen.go`). They are seven of ten lines
  of the implementation and have no behaviour but sending a request: so the map,
  which names the lines of the handlers, covers a small share of all lines.

An answer is ok, refused or lost, which is what the handlers tell apart. Two runs
of Terraform over one state at once are excluded: Terraform locks its state.

## 7. Running

    tlc -workers 2 -config MCClusterResource.cfg MCClusterResource
    tlapm ClusterResourceProofs.tla

`PROJECT.json` lists runs, mutants, the map from definitions to source lines,
findings, hazards and theorems.
