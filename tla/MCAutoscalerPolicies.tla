------------------------ MODULE MCAutoscalerPolicies ------------------------
(***************************************************************************)
(* Instances of AutoscalerPolicies for TLC.                                *)
(***************************************************************************)
EXTENDS AutoscalerPolicies, TLC

CONSTANTS limits, evictor, on, off, lean, spotty

MCFields == {limits, evictor}
MCOneField == {limits}
MCValues == {on, off}
MCTemplates == {lean, spotty}

\* Settings, their values and templates are interchangeable (safety runs only).
Symmetry ==
  Permutations(MCFields) \cup Permutations(MCValues) \cup Permutations(MCTemplates)
=============================================================================
