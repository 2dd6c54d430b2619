------------------------ MODULE MCResourceLifecycle ------------------------
(***************************************************************************)
(* Instances of ResourceLifecycle for TLC: all the kinds, or the two       *)
(* schedules.                                                              *)
(***************************************************************************)
EXTENDS ResourceLifecycle

CONSTANTS small, large, id1, id2, id3, id4

MCMains == {small, large}
MCIds == {id1, id2, id3, id4}

MCKinds ==
  {castai_cache_group, castai_cache_rule, castai_cache_configuration,
   castai_hibernation_schedule, castai_rebalancing_schedule,
   castai_rebalancing_schedule_aggressive,
   castai_allocation_group, castai_workload_custom_metrics_data_source,
   castai_pod_mutation, castai_evictor_advanced_config,
   castai_ai_optimizer_hosted_model, castai_ai_optimizer_model_registry,
   castai_ai_optimizer_model_specs, castai_node_configuration,
   castai_edge_configuration, castai_omni_cluster, castai_security_runtime_rule,
   castai_service_account, castai_service_account_key,
   castai_enterprise_service_account, castai_enterprise_role_binding,
   castai_organization_group, castai_organization_group_listed,
   castai_role_bindings}

MCSchedules == {castai_hibernation_schedule, castai_rebalancing_schedule}
=============================================================================
