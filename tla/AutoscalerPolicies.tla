------------------------- MODULE AutoscalerPolicies -------------------------
(***************************************************************************)
(* castai_autoscaler (castai/resource_autoscaler.go) beside the default    *)
(* node template, castai_node_template "default-by-castai"                 *)
(* (castai/resource_node_template.go).                                     *)
(*                                                                         *)
(* One terraform apply refreshes and plans both resources and then applies *)
(* both at the same time.  An update of the policies reads the current     *)
(* document, merges the configuration into it and writes the whole         *)
(* document back.  CAST AI keeps part of that document in step with the    *)
(* default node template, and refuses a write that carries an old version  *)
(* of the template; the update then starts over from a new read, a limited *)
(* number of times.  CAST AI creates the default template in the           *)
(* background once policies were written, so creating the template         *)
(* resource means waiting for that and updating it.                        *)
(***************************************************************************)
EXTENDS Naturals

CONSTANTS
  Fields,      \* settings of the policies that no template has, but "enabled"
  Values,      \* what a setting can be
  Templates,   \* contents of the default node template
  Unset,       \* a setting that is not in the configuration or document
  Missing,     \* the default template does not exist
  Pending,     \* CAST AI is about to create it
  Steps,       \* wait.Backoff.Steps, 5 in the code
  MaxTrouble   \* bound on the faults, timeouts and edits by others

ASSUME DataAssumption ==
  /\ Fields # {} /\ Values # {} /\ Templates # {}
  /\ Unset \notin Values \cup Templates \cup Nat
  /\ Missing \notin Templates \cup {Unset}
  /\ Pending \notin Templates \cup {Unset, Missing}
ASSUME StepsAssumption == Steps \in Nat \ {0}
ASSUME TroubleAssumption == MaxTrouble \in Nat

VARIABLES
  settings,    \* remote: the policies, without the part the template has
  template,    \* remote: the default template
  version,     \* remote: its version, 0 until it exists
  want,        \* the configuration of both resources
  saved,       \* Terraform state of the autoscaler resource
  savedTemplate, \* Terraform state of the template resource
  policy,      \* what the autoscaler resource is doing
  tmpl,        \* what the template resource is doing
  trouble      \* how much trouble is still to come

remoteVars == <<settings, template, version>>
vars == <<remoteVars, want, saved, savedTemplate, policy, tmpl, trouble>>

-----------------------------------------------------------------------------
(* State *)

\* A configuration, or a resource, without policies.
NoConfig ==
  [given |-> FALSE, fields |-> [f \in Fields |-> Unset], synced |-> Unset]

\* What is configured of the policies, with the deprecated part that the
\* template also has; a resource may have neither autoscaler_settings nor
\* autoscaler_policies_json.
Config ==
  {NoConfig} \cup [given: {TRUE}, fields: [Fields -> Values \cup {Unset}],
                   synced: Templates \cup {Unset}]

\* A policies document; a document without a version is not checked.
Document == [fields: [Fields -> Values \cup {Unset}],
             synced: Templates \cup {Unset},
             version: Nat \cup {Unset}]

\* What an error answered as JSON looks like when it is taken for policies.
ErrorBody ==
  [fields |-> [f \in Fields |-> Unset], synced |-> Unset, version |-> Unset]

\* All that a delete sends, {"enabled": false}: no setting in Fields.
Disabled ==
  [fields |-> [f \in Fields |-> Unset], synced |-> Unset, version |-> Unset]

NotSaved == [exists |-> FALSE, config |-> NoConfig]

\* Configurations of both resources, each of which can be taken out.
Wanted == {w \in [policies: Config, template: Templates \cup {Unset}, kept: BOOLEAN] :
             w.kept \/ w.policies = NoConfig}

Planning == {"refresh", "diff"}
Applying == {"get", "put", "backoff"}
Ended == {"idle", "done", "failed", "exhausted"}

TemplatePlanning == {"refresh"}
TemplateApplying == {"delete", "put", "retry", "read"}
TemplateEnded == {"idle", "done", "failed"}

\* The autoscaler resource: its place, the document it works on, attempts
\* used, the template version when it began, and whether settings were edited
\* or an error was taken for policies since.
Policy == [pc: Planning \cup Applying \cup Ended \cup {"planned", "delete"},
           doc: Document, used: 0..Steps, since: Nat,
           edited: BOOLEAN, garbled: BOOLEAN]

\* Nothing is left of a run that ended but how it ended.
Rest(pc) == [pc |-> pc, doc |-> ErrorBody, used |-> 0, since |-> 0,
             edited |-> FALSE, garbled |-> FALSE]

TemplateRest(pc) == [pc |-> pc, todo |-> "nothing"]

TypeOK ==
  /\ settings \in [Fields -> Values]
  /\ template \in Templates \cup {Missing, Pending}
  /\ version \in Nat
  /\ want \in Wanted
  /\ saved \in [exists: BOOLEAN, config: Config]
  /\ savedTemplate \in {"none", "present", "tainted"}
  /\ policy \in Policy
  /\ tmpl \in [pc: TemplatePlanning \cup TemplateApplying \cup TemplateEnded
                   \cup {"planned"},
               todo: {"nothing", "create", "update", "replace", "destroy"}]
  /\ trouble \in 0..MaxTrouble

Init ==
  /\ settings \in [Fields -> Values]
  /\ \/ template = Missing /\ version = 0
     \/ template \in Templates /\ version = 1
  /\ want \in Wanted
  /\ want.kept /\ want.template # Unset
  /\ saved = NotSaved
  /\ savedTemplate = "none"
  /\ policy = Rest("idle")
  /\ tmpl = TemplateRest("idle")
  /\ trouble = MaxTrouble

Trouble ==
  /\ trouble > 0
  /\ trouble' = trouble - 1

-----------------------------------------------------------------------------
(* Documents *)

\* The answer to GET policies (external).
CurrentPolicies ==
  [fields |-> settings,
   synced |-> IF template \in Templates THEN template ELSE Unset,
   version |-> version]

\* Mutant: the configuration is sent as it is.
Merge_Replaces(doc, config) ==
  [doc EXCEPT !.fields = config.fields]

\* jsonpatch.MergePatch of the configuration into a document.
Merge(doc, config) ==
  [doc EXCEPT
     !.fields = [f \in Fields |-> IF config.fields[f] = Unset
                                  THEN doc.fields[f] ELSE config.fields[f]],
     !.synced = IF config.synced = Unset THEN @ ELSE config.synced]

\* Mutant: the part that follows the node template is kept.
FilterVolatile_KeepsTemplate(doc) == doc

\* filterVolatileFields: without the template's part and its version.
FilterVolatile(doc) == [doc EXCEPT !.synced = Unset, !.version = Unset]

\* PUT policies (external).  What the document leaves out goes back to a
\* default; the first write makes CAST AI create the default template.
UpsertEffect(doc) ==
  /\ \E default \in [Fields -> Values] :
       settings' = [f \in Fields |-> IF doc.fields[f] = Unset
                                     THEN default[f] ELSE doc.fields[f]]
  /\ template' = IF doc.synced # Unset THEN doc.synced
                 ELSE IF template = Missing THEN Pending ELSE template
  /\ version' = IF template' = template \/ template' = Pending
                THEN version ELSE version + 1

\* "template has changed": the version in the document is not the current one.
Conflict(doc) == doc.version # Unset /\ doc.version # version

-----------------------------------------------------------------------------
(* terraform apply: refresh and plan of both, then both are applied *)

StartApply ==
  /\ policy.pc \in Ended
  /\ tmpl.pc \in TemplateEnded
  /\ policy' = Rest(IF saved.exists THEN "refresh"
                    ELSE IF want.kept THEN "diff" ELSE "done")
  /\ tmpl' = TemplateRest("refresh")
  /\ UNCHANGED <<remoteVars, want, saved, savedTemplate, trouble>>

\* The plan is there: resourceCastaiAutoscalerCreate or -Update begins
\* updateAutoscalerPolicies, or the autoscaler is deleted; the template is
\* created, updated, replaced or deleted.
BeginApply ==
  /\ policy.pc \in {"planned", "done"}
  /\ tmpl.pc \in {"planned", "done"}
  /\ \/ policy.pc = "planned"
     \/ tmpl.pc = "planned"
  /\ policy' = IF policy.pc = "done" THEN policy
               ELSE IF want.kept THEN [Rest("get") EXCEPT !.since = version]
               ELSE [Rest("delete") EXCEPT !.doc = Disabled]
  /\ tmpl' = IF tmpl.pc = "done" THEN tmpl
             ELSE [tmpl EXCEPT !.pc = IF tmpl.todo \in {"replace", "destroy"}
                                      THEN "delete" ELSE "put"]
  /\ UNCHANGED <<remoteVars, want, saved, savedTemplate, trouble>>

\* One of them could not be planned: nothing is applied.
AbandonPlan ==
  /\ \/ policy.pc = "planned" /\ tmpl.pc = "failed"
     \/ policy.pc = "failed" /\ tmpl.pc = "planned"
  /\ policy' = Rest("failed")
  /\ tmpl' = TemplateRest("failed")
  /\ UNCHANGED <<remoteVars, want, saved, savedTemplate, trouble>>

\* getCurrentPolicies: the document, or an error whose JSON body is taken for
\* one because only 404 is looked for.
Got(doc) ==
  \/ doc = CurrentPolicies /\ UNCHANGED trouble
  \/ doc = ErrorBody /\ Trouble

\* resourceCastaiAutoscalerRead; autoscaler_policies is kept in doc until the
\* plan compares it.
PolicyRefresh ==
  /\ policy.pc = "refresh"
  /\ \E doc \in {CurrentPolicies, ErrorBody} :
       /\ Got(doc)
       /\ policy' = [policy EXCEPT !.pc = "diff", !.doc = FilterVolatile(doc),
                                   !.garbled = doc = ErrorBody]
  /\ UNCHANGED <<remoteVars, want, saved, savedTemplate, tmpl>>

\* Mutant: only the configuration is compared with the state.
NeedsUpdate_IgnoresDrift(doc) == ~saved.exists \/ saved.config # want.policies

\* The plan changes something: there is no resource yet, the configuration was
\* edited, or resourceCastaiAutoscalerDiff sets new policies.
NeedsUpdate(doc) ==
  \/ ~saved.exists
  \/ saved.config # want.policies
  \/ FilterVolatile(Merge(doc, want.policies)) # policy.doc

\* resourceCastaiAutoscalerDiff.
PolicyDiff ==
  /\ policy.pc = "diff"
  /\ want.kept /\ want.policies.given
  /\ \E doc \in {CurrentPolicies, ErrorBody} :
       /\ Got(doc)
       /\ policy' = IF NeedsUpdate(doc)
                    THEN [policy EXCEPT !.pc = "planned",
                                        !.doc = ErrorBody,
                                        !.garbled = @ \/ doc = ErrorBody]
                    ELSE Rest("done")
  /\ UNCHANGED <<remoteVars, want, saved, savedTemplate, tmpl>>

\* Nothing is configured of the policies: getChangedPolicies reads nothing, and
\* the plan is to create the resource or to drop what was configured before.
DiffSkips ==
  /\ policy.pc = "diff"
  /\ want.kept /\ ~want.policies.given
  /\ policy' = IF saved.exists /\ saved.config = want.policies THEN Rest("done")
               ELSE [policy EXCEPT !.pc = "planned", !.doc = ErrorBody]
  /\ UNCHANGED <<remoteVars, want, saved, savedTemplate, tmpl, trouble>>

\* The autoscaler is not in the configuration: Terraform plans to destroy it.
PlanDestroy ==
  /\ policy.pc = "diff"
  /\ ~want.kept
  /\ policy' = Rest("planned")
  /\ UNCHANGED <<remoteVars, want, saved, savedTemplate, tmpl, trouble>>

\* Mutant: another attempt takes only the new version from CAST AI.
Changed_OnlyVersion(doc) ==
  IF policy.used > 0 THEN [policy.doc EXCEPT !.version = doc.version]
  ELSE Merge(doc, want.policies)

\* getChangedPolicies.
Changed(doc) == Merge(doc, want.policies)

\* Every attempt reads and merges again.
PolicyGet ==
  /\ policy.pc = "get"
  /\ want.policies.given
  /\ \E doc \in {CurrentPolicies, ErrorBody} :
       /\ Got(doc)
       /\ policy' = [policy EXCEPT !.pc = "put", !.doc = Changed(doc),
                                   !.edited = FALSE,
                                   !.garbled = doc = ErrorBody]
  /\ UNCHANGED <<remoteVars, want, saved, savedTemplate, tmpl>>

\* The resource is in the state from the first update that succeeded; a failed
\* update saves the planned values, too.
Keep(succeeded) ==
  saved' = IF succeeded \/ saved.exists
           THEN [exists |-> TRUE, config |-> want.policies] ELSE saved

\* Nothing is configured: the resource is created or updated without a call.
UpdateSkips ==
  /\ policy.pc = "get"
  /\ ~want.policies.given
  /\ policy' = Rest("done")
  /\ Keep(TRUE)
  /\ UNCHANGED <<remoteVars, want, savedTemplate, tmpl, trouble>>

\* upsertPolicies, 200.
PolicyPut ==
  /\ policy.pc = "put"
  /\ ~Conflict(policy.doc)
  /\ UpsertEffect(policy.doc)
  /\ policy' = Rest("done")
  /\ Keep(TRUE)
  /\ UNCHANGED <<want, savedTemplate, tmpl, trouble>>

\* Mutant: there is no last attempt.
LastStep_Never == FALSE

\* Mutant: the last attempt is not made.
LastStep_Early == policy.used + 1 >= Steps - 1

\* The backoff has no attempt left after this one.
LastStep == policy.used + 1 >= Steps

\* isNodeTemplateVersionConflict: back off, or give up after the last attempt.
PolicyConflict ==
  /\ policy.pc = "put"
  /\ Conflict(policy.doc)
  /\ policy' = IF LastStep
               THEN [Rest("exhausted") EXCEPT !.since = policy.since]
               ELSE [policy EXCEPT !.pc = "backoff", !.used = @ + 1]
  /\ IF LastStep THEN Keep(FALSE) ELSE UNCHANGED saved
  /\ UNCHANGED <<remoteVars, want, savedTemplate, tmpl, trouble>>

\* ExponentialBackoffWithContext makes the next attempt.
PolicyRetry ==
  /\ policy.pc = "backoff"
  /\ policy' = [policy EXCEPT !.pc = "get"]
  /\ UNCHANGED <<remoteVars, want, saved, savedTemplate, tmpl, trouble>>

\* resourceCastaiAutoscalerDelete: upsertPolicies without a read before it,
\* and without a version that could be refused.
PolicyDelete ==
  /\ policy.pc = "delete"
  /\ UpsertEffect(Disabled)
  /\ policy' = Rest("done")
  /\ saved' = NotSaved
  /\ UNCHANGED <<want, savedTemplate, tmpl, trouble>>

\* Any other error ends the apply: of a read, of a write that may have been
\* carried out all the same, or the update timeout.
PolicyFails ==
  /\ policy.pc \in Planning \cup Applying \cup {"delete"}
  /\ policy.pc \in {"diff", "get"} => want.policies.given
  /\ Trouble
  /\ \/ UNCHANGED remoteVars
     \/ /\ policy.pc \in {"put", "delete"}
        /\ ~Conflict(policy.doc)
        /\ UpsertEffect(policy.doc)
  /\ policy' = Rest("failed")
  /\ IF policy.pc \in Applying THEN Keep(FALSE) ELSE UNCHANGED saved
  /\ UNCHANGED <<want, savedTemplate, tmpl>>

-----------------------------------------------------------------------------
(* The default node template *)

TemplateTodo(had) ==
  IF want.template = Unset THEN IF had = "none" THEN "nothing" ELSE "destroy"
  ELSE IF had = "none" THEN "create"
  ELSE IF had = "tainted" THEN "replace"
  ELSE IF template # want.template THEN "update" ELSE "nothing"

\* resourceNodeTemplateRead and the plan: a template that CAST AI does not
\* list leaves the state; a tainted one is replaced.
TemplateRefresh ==
  /\ tmpl.pc = "refresh"
  /\ savedTemplate' = IF template \in Templates THEN savedTemplate ELSE "none"
  /\ LET todo == TemplateTodo(savedTemplate')
     IN  tmpl' = [pc |-> IF todo = "nothing" THEN "done" ELSE "planned",
                  todo |-> todo]
  /\ UNCHANGED <<remoteVars, want, saved, policy, trouble>>

\* resourceNodeTemplateDelete: the refresh has set is_default, so this only
\* warns, and Terraform drops the resource; a replacement creates it again.
TemplateDelete ==
  /\ tmpl.pc = "delete"
  /\ savedTemplate' = "none"
  /\ tmpl' = IF tmpl.todo = "destroy" THEN TemplateRest("done")
             ELSE [tmpl EXCEPT !.pc = "put"]
  /\ UNCHANGED <<remoteVars, want, saved, policy, trouble>>

\* updateNodeTemplate: PUT of the template.
TemplatePut ==
  /\ tmpl.pc = "put"
  /\ template \in Templates
  /\ template' = want.template
  /\ version' = version + 1
  /\ tmpl' = [tmpl EXCEPT !.pc = "read"]
  /\ UNCHANGED <<settings, want, saved, savedTemplate, policy, trouble>>

\* "node template not found": updateDefaultNodeTemplate tries again.
TemplateNotFound ==
  /\ tmpl.pc = "put"
  /\ template \notin Templates
  /\ tmpl' = [tmpl EXCEPT !.pc = "retry"]
  /\ UNCHANGED <<remoteVars, want, saved, savedTemplate, policy, trouble>>

TemplateRetry ==
  /\ tmpl.pc = "retry"
  /\ tmpl' = [tmpl EXCEPT !.pc = "put"]
  /\ UNCHANGED <<remoteVars, want, saved, savedTemplate, policy, trouble>>

\* RetryContext gives up: the create timeout, less five seconds.
TemplateTimesOut ==
  /\ tmpl.pc = "retry"
  /\ savedTemplate' = "tainted"
  /\ tmpl' = TemplateRest("failed")
  /\ UNCHANGED <<remoteVars, want, saved, policy, trouble>>

\* The Read at the end of updateNodeTemplate.
TemplateRead ==
  /\ tmpl.pc = "read"
  /\ savedTemplate' = "present"
  /\ tmpl' = TemplateRest("done")
  /\ UNCHANGED <<remoteVars, want, saved, policy, trouble>>

\* Any other error.  updateDefaultNodeTemplate sets the ID first, so a failed
\* create leaves a tainted resource.
TemplateFails ==
  /\ tmpl.pc \in TemplatePlanning \cup {"put", "read"}
  /\ Trouble
  /\ \/ UNCHANGED <<template, version>>
     \/ /\ tmpl.pc = "put" /\ template \in Templates
        /\ template' = want.template
        /\ version' = version + 1
  /\ savedTemplate' = IF tmpl.pc \in TemplateApplying /\ tmpl.todo # "update"
                      THEN "tainted" ELSE savedTemplate
  /\ tmpl' = TemplateRest("failed")
  /\ UNCHANGED <<settings, want, saved, policy>>

-----------------------------------------------------------------------------
(* Everybody else (external) *)

\* CAST AI creates the default template in the background.
TemplateCreated ==
  /\ template = Pending
  /\ template' \in Templates
  /\ version' = version + 1
  /\ UNCHANGED <<settings, want, saved, savedTemplate, policy, tmpl, trouble>>

\* Someone edits the template in the console.
TemplateEdited ==
  /\ Trouble
  /\ template \in Templates
  /\ template' \in Templates \ {template}
  /\ version' = version + 1
  /\ UNCHANGED <<settings, want, saved, savedTemplate, policy, tmpl>>

\* Someone edits the policies in the console.
PoliciesEdited ==
  /\ Trouble
  /\ settings' \in [Fields -> Values] \ {settings}
  /\ template' = IF template = Missing THEN Pending ELSE template
  /\ policy' = [policy EXCEPT !.edited = policy.pc \notin Ended]
  /\ UNCHANGED <<version, want, saved, savedTemplate, tmpl>>

\* The user edits the configuration between two applies.
EditConfig ==
  /\ Trouble
  /\ policy.pc \in Ended
  /\ tmpl.pc \in TemplateEnded
  /\ want' \in Wanted \ {want}
  /\ UNCHANGED <<remoteVars, saved, savedTemplate, policy, tmpl>>

\* flattenAutoscalerSettings: the settings of a document, without the
\* deprecated part that the template has.
Flatten(doc) == [given |-> TRUE, fields |-> doc.fields, synced |-> Unset]

\* terraform import: autoscalerStateImporter reads the policies into the state.
Import ==
  /\ Trouble
  /\ policy.pc \in Ended
  /\ tmpl.pc \in TemplateEnded
  /\ want.kept
  /\ ~saved.exists
  /\ \E doc \in {CurrentPolicies, ErrorBody} :
       saved' = [exists |-> TRUE, config |-> Flatten(FilterVolatile(doc))]
  /\ UNCHANGED <<remoteVars, want, savedTemplate, policy, tmpl>>

\* nodeTemplateStateImporter: the template is found by its name.
TemplateImport ==
  /\ Trouble
  /\ policy.pc \in Ended
  /\ tmpl.pc \in TemplateEnded
  /\ want.template # Unset
  /\ savedTemplate = "none"
  /\ template \in Templates
  /\ savedTemplate' = "present"
  /\ UNCHANGED <<remoteVars, want, saved, policy, tmpl>>

\* Terraform is killed: the plan and what was not saved are lost.
Crash ==
  /\ Trouble
  /\ policy.pc \notin Ended \/ tmpl.pc \notin TemplateEnded
  /\ policy' = Rest("idle")
  /\ tmpl' = TemplateRest("idle")
  /\ UNCHANGED <<remoteVars, want, saved, savedTemplate>>

-----------------------------------------------------------------------------
PolicyStep ==
  \/ PolicyRefresh \/ PolicyDiff \/ DiffSkips \/ PlanDestroy
  \/ PolicyGet \/ UpdateSkips \/ PolicyPut
  \/ PolicyConflict \/ PolicyRetry \/ PolicyDelete

TemplateStep ==
  \/ TemplateRefresh \/ TemplateDelete \/ TemplatePut
  \/ TemplateNotFound \/ TemplateRetry \/ TemplateRead

Others ==
  \/ TemplateEdited \/ PoliciesEdited \/ EditConfig \/ Import \/ TemplateImport
  \/ Crash

Next ==
  \/ StartApply \/ BeginApply \/ AbandonPlan
  \/ PolicyStep \/ PolicyFails
  \/ TemplateStep \/ TemplateTimesOut \/ TemplateFails
  \/ TemplateCreated \/ Others

Spec == Init /\ [][Next]_vars

\* Terraform runs every resource of an apply to its end and the user applies
\* again and again; CAST AI creates the template it has to.  The retry loop of
\* the template comes round again and again, but its timeout ends it.  Faults
\* and edits are not fair.
FairSpec ==
  /\ Spec
  /\ WF_vars(StartApply \/ BeginApply \/ AbandonPlan)
  /\ WF_vars(PolicyStep)
  /\ WF_vars(TemplateStep)
  /\ SF_vars(TemplateTimesOut)
  /\ WF_vars(TemplateCreated)

-----------------------------------------------------------------------------
(* Properties *)

\* The policies' write is about to end in this step.
Writes == policy.pc = "put" /\ policy'.pc # "put"

\* An update of the policies never takes the default template back to what it
\* was when the policies were read, however often it is retried: the template
\* changes only to what the deprecated part of the configuration asks for.
TemplateNotReverted ==
  [][Writes => template' \in {template, Pending, want.policies.synced}]_vars

\* "autoscaler policy definitions to override current autoscaler settings": an
\* update leaves the settings that are not in the configuration alone, unless
\* they were edited since it read them or it read an error.
OverridesOnly ==
  [][Writes => \A f \in Fields :
       \/ want.policies.fields[f] # Unset
       \/ settings'[f] = settings[f]
       \/ policy.edited \/ policy.garbled]_vars

\* An update gives up with "timeout waiting for autoscaler policy update after
\* version conflicts" only if the template changed once for every attempt.
RetriesSuffice ==
  policy.pc = "exhausted" => version >= policy.since + Steps

\* "the autoscaler should not show drift" when the default template changes: a
\* plan that follows the same configuration wants an update only if a
\* configured setting is different, or was edited while planning.
DriftIsReal ==
  [][(policy.pc = "diff" /\ policy'.pc = "planned"
      /\ want.kept /\ saved.exists /\ saved.config = want.policies) =>
       \/ \E f \in Fields : want.policies.fields[f] \notin {Unset, settings[f]}
       \/ policy'.edited \/ policy'.garbled]_vars

\* Once faults and edits end, repeated applies make the configured settings
\* and the template what the configuration says, with both resources in the
\* state, and leave them so; also when the autoscaler resource configures the
\* template's part differently, when no template existed at first, and from
\* what was imported.  Only a write of the policies makes CAST AI create a
\* missing template: without the autoscaler resource, or with one that
\* configures nothing or was imported as it is configured, the template resource
\* waits in vain.
Converged ==
  /\ IF want.kept
     THEN /\ \A f \in Fields : want.policies.fields[f] \in {Unset, settings[f]}
          /\ saved = [exists |-> TRUE, config |-> want.policies]
     ELSE ~saved.exists
  /\ IF want.template = Unset THEN savedTemplate = "none"
     ELSE \/ template = Missing
          \/ template = want.template /\ savedTemplate = "present"

Convergence == <>[]Converged

\* "autoscaler policy definitions to override current autoscaler settings":
\* what is written is the whole of the policies, with the current value of
\* every setting the configuration leaves out.
WritesWholePolicies ==
  policy.pc = "put" => \A f \in Fields : policy.doc.fields[f] # Unset
=============================================================================
