-------------------------- MODULE ResourceProfiles --------------------------
(***************************************************************************)
(* In what the CRUD functions of the plain resources differ.  Their common *)
(* form is ResourceLifecycle; a profile is the set of choices one resource *)
(* makes in it:                                                            *)
(*                                                                         *)
(*   create    how the object is made and its ID found: from the answer,   *)
(*             by searching its name afterwards, by overwriting the one    *)
(*             object a cluster has, or by adopting one that is there      *)
(*   readsBack Create and Update end with Read, else they save the answer  *)
(*   missing   what Read does when the object is gone: drop the resource   *)
(*             from the state, fail, or show it empty                      *)
(*   newGone   the same right after Create                                 *)
(*   readMain  Read returns the required attributes                        *)
(*   optional  there are optional attributes                               *)
(*   sendsAll  an update sends optional attributes also when unset         *)
(*   readsAll  Read sets optional attributes also when the answer has none *)
(*   blank     and then as an empty block, which no configuration without  *)
(*             the block agrees with                                       *)
(*   shadows   CAST AI lets another attribute override the optional ones   *)
(*   needsExtra  Create and Update fail without the optional attributes    *)
(*   replaces  attributes that cannot be changed in place                  *)
(*   failed    what is saved when Update fails: SDKv2 saves the planned    *)
(*             values, the framework keeps the prior ones                  *)
(*   delete    one call; a check for the default flag before it, whose own *)
(*             failure is an error or not; a poll after it; disabling what *)
(*             is built in; a call whose status nobody looks at            *)
(*   deleteGone  Delete takes 404 for done                                 *)
(*   imports   there is an importer that works                             *)
(***************************************************************************)
Profile ==
  [create: {"answer", "byName", "upsert", "adopt"}, readsBack: BOOLEAN,
   missing: {"forget", "error", "empty"}, newGone: {"forget", "error"},
   readMain: BOOLEAN, optional: BOOLEAN, sendsAll: BOOLEAN, readsAll: BOOLEAN,
   blank: BOOLEAN, shadows: BOOLEAN, needsExtra: BOOLEAN,
   replaces: SUBSET {"main", "extra"}, failed: {"planned", "prior"},
   delete: {"plain", "checks", "checksLoosely", "polls", "disables", "unchecked"},
   deleteGone: BOOLEAN, imports: BOOLEAN]

\* The most common choices of SDKv2 resources.
Common ==
  [create |-> "answer", readsBack |-> TRUE, missing |-> "forget",
   newGone |-> "error", readMain |-> TRUE, optional |-> TRUE, sendsAll |-> TRUE,
   readsAll |-> TRUE, blank |-> FALSE, shadows |-> FALSE, needsExtra |-> FALSE,
   replaces |-> {}, failed |-> "planned", delete |-> "plain", deleteGone |-> FALSE, imports |-> TRUE]

-----------------------------------------------------------------------------
(* Database cache: direct_mode, manual_ttl, table, template_hash.  What is
   imported by its ID alone is not found without its cache group. *)

castai_cache_group == [Common EXCEPT !.sendsAll = FALSE, !.readsAll = FALSE]
castai_cache_rule ==
  [Common EXCEPT !.sendsAll = FALSE, !.readsAll = FALSE, !.imports = FALSE]

\* "Handle auto-discovered databases by updating existing configuration"
castai_cache_configuration ==
  [Common EXCEPT !.create = "adopt", !.optional = FALSE, !.imports = FALSE]

(* Schedules: "not found, removing from state" comes after the check that
   makes a 404 an error *)

\* cluster_assignments is shown with an empty list where there are none.
castai_hibernation_schedule == [Common EXCEPT !.missing = "error", !.blank = TRUE]
castai_rebalancing_schedule == [Common EXCEPT !.missing = "error"]

\* The same with aggressive_mode, which overrides aggressive_mode_config:
\* "Terraform will report a perpetual diff".
castai_rebalancing_schedule_aggressive ==
  [castai_rebalancing_schedule EXCEPT !.shadows = TRUE]

(* Cost reports and workloads: labels, metrics, filters *)

castai_allocation_group == [Common EXCEPT !.delete = "polls"]
castai_workload_custom_metrics_data_source ==
  [Common EXCEPT !.sendsAll = FALSE, !.deleteGone = TRUE]
castai_pod_mutation == [Common EXCEPT !.newGone = "forget"]

\* One list of rules per cluster: deleting it is writing an empty one.
castai_evictor_advanced_config ==
  [Common EXCEPT !.create = "upsert", !.readsBack = FALSE, !.missing = "empty",
                 !.optional = FALSE, !.delete = "unchecked", !.imports = FALSE]

(* AI optimizer *)

castai_ai_optimizer_hosted_model ==
  [Common EXCEPT !.sendsAll = FALSE, !.readsAll = FALSE, !.replaces = {"main"},
                 !.deleteGone = TRUE]
castai_ai_optimizer_model_registry ==
  [Common EXCEPT !.readsAll = FALSE, !.replaces = {"main", "extra"}, !.deleteGone = TRUE]
castai_ai_optimizer_model_specs ==
  [Common EXCEPT !.readsAll = FALSE, !.replaces = {"main", "extra"}, !.deleteGone = TRUE]

(* Configurations of nodes, of which a default one cannot be deleted *)

castai_node_configuration ==
  [Common EXCEPT !.sendsAll = FALSE, !.readsAll = FALSE, !.delete = "checks"]
castai_edge_configuration ==
  [Common EXCEPT !.readsBack = FALSE, !.sendsAll = FALSE, !.newGone = "forget",
                 !.failed = "prior", !.delete = "checksLoosely", !.deleteGone = TRUE]

\* The onboarding of a cluster: Read returns nothing but the ID.
castai_omni_cluster ==
  [Common EXCEPT !.create = "upsert", !.readsBack = FALSE, !.newGone = "forget",
                 !.readMain = FALSE, !.optional = FALSE, !.failed = "prior",
                 !.deleteGone = TRUE]

(* Security and access *)

castai_security_runtime_rule ==
  [Common EXCEPT !.create = "byName", !.newGone = "forget", !.sendsAll = FALSE,
                 !.readsAll = FALSE, !.delete = "disables"]
castai_service_account == [Common EXCEPT !.newGone = "forget", !.imports = FALSE]
castai_service_account_key ==
  [Common EXCEPT !.newGone = "forget", !.readsAll = FALSE, !.replaces = {"extra"},
                 !.imports = FALSE]
castai_enterprise_service_account ==
  [Common EXCEPT !.newGone = "forget", !.readsAll = FALSE, !.imports = FALSE]
castai_enterprise_role_binding == [Common EXCEPT !.readsBack = FALSE, !.imports = FALSE]
castai_organization_group == [Common EXCEPT !.missing = "error", !.readsAll = FALSE]

\* The same where CAST AI answers an empty list of members instead of none.
castai_organization_group_listed ==
  [castai_organization_group EXCEPT !.readsAll = TRUE, !.blank = TRUE]

\* "role binding scopes were not provided"
castai_role_bindings == [Common EXCEPT !.missing = "error", !.needsExtra = TRUE]
=============================================================================
