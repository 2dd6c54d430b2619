---------------------- MODULE AutoscalerPoliciesProofs ----------------------
(***************************************************************************)
(* Proofs about AutoscalerPolicies, for every set of settings, values and  *)
(* templates, every number of attempts and every bound on the trouble.     *)
(***************************************************************************)
EXTENDS AutoscalerPolicies, TLAPS

LEMMA ErrorBodyType == ErrorBody \in Document
BY DEF ErrorBody, Document

LEMMA DisabledType == Disabled \in Document /\ NoConfig \in Config
BY DEF Disabled, Document, NoConfig, Config

LEMMA CurrentType == TypeOK => CurrentPolicies \in Document
BY DEF TypeOK, CurrentPolicies, Document

LEMMA FilterType ==
  ASSUME NEW doc \in Document PROVE FilterVolatile(doc) \in Document
BY DEF FilterVolatile, Document

LEMMA ConfigParts ==
  ASSUME NEW config \in Config
  PROVE  /\ config.fields \in [Fields -> Values \cup {Unset}]
         /\ config.synced \in Templates \cup {Unset}
<1>1. CASE config = NoConfig
  <2>1. NoConfig.fields = [f \in Fields |-> Unset] /\ NoConfig.synced = Unset
    BY DEF NoConfig
  <2> QED BY <1>1, <2>1
<1>2. CASE config # NoConfig BY <1>2 DEF Config
<1> QED BY <1>1, <1>2

\* A merged document has the configured settings and otherwise what was read.
LEMMA MergeFacts ==
  ASSUME NEW doc \in Document, NEW config \in Config
  PROVE  /\ Merge(doc, config) \in Document
         /\ Merge(doc, config).version = doc.version
         /\ Merge(doc, config).synced =
              IF config.synced = Unset THEN doc.synced ELSE config.synced
         /\ \A f \in Fields : config.fields[f] = Unset =>
              Merge(doc, config).fields[f] = doc.fields[f]
BY ConfigParts DEF Merge, Document

LEMMA RestType ==
  ASSUME NEW pc \in Planning \cup Applying \cup Ended
                     \cup {"planned", "delete"}
  PROVE  Rest(pc) \in Policy /\ Rest(pc).pc = pc
BY ErrorBodyType, StepsAssumption DEF Rest, Policy

LEMMA UpsertType ==
  ASSUME TypeOK, NEW doc \in Document, UpsertEffect(doc)
  PROVE  /\ settings' \in [Fields -> Values]
         /\ template' \in Templates \cup {Missing, Pending}
         /\ version' \in Nat
<1>1. settings' \in [Fields -> Values]
  <2>1. PICK default \in [Fields -> Values] :
          settings' = [f \in Fields |-> IF doc.fields[f] = Unset
                                        THEN default[f] ELSE doc.fields[f]]
    BY DEF UpsertEffect
  <2>2. \A f \in Fields : doc.fields[f] \in Values \cup {Unset}
    BY DEF Document
  <2> QED BY <2>1, <2>2
<1>2. template' \in Templates \cup {Missing, Pending}
  BY DEF UpsertEffect, Document, TypeOK
<1>3. version' \in Nat BY DEF UpsertEffect, TypeOK
<1> QED BY <1>1, <1>2, <1>3

LEMMA KeepType ==
  ASSUME TypeOK, NEW b \in BOOLEAN, Keep(b)
  PROVE  saved' \in [exists: BOOLEAN, config: Config]
BY DEF Keep, TypeOK, Wanted

-----------------------------------------------------------------------------
(* Type correctness *)

\* What the template resource is doing fits what was planned, and is nothing that
\* needs a configured template when there is none.
Builds == {"create", "update", "replace"}
TemplatePlan ==
  /\ tmpl.pc \in TemplateEnded \cup {"refresh"} => tmpl.todo = "nothing"
  /\ tmpl.pc = "planned" => tmpl.todo # "nothing"
  /\ tmpl.pc = "delete" => tmpl.todo \in {"replace", "destroy"}
  /\ tmpl.pc \in {"put", "retry"} => tmpl.todo \in Builds
  /\ tmpl.todo \in Builds => want.template \in Templates

LEMMA PlanStep == TypeOK /\ TemplatePlan /\ [Next]_vars => TemplatePlan'
<1> SUFFICES ASSUME TypeOK, TemplatePlan, [Next]_vars PROVE TemplatePlan' OBVIOUS
<1> USE DEF Builds, TemplateEnded
<1>a. tmpl.pc \in TemplatePlanning \cup TemplateApplying \cup TemplateEnded
                    \cup {"planned"}
  BY DEF TypeOK
<1>1. CASE UNCHANGED <<tmpl, want>> BY <1>1 DEF TemplatePlan
<1>2. CASE \E pc \in TemplateEnded \cup {"refresh"} : tmpl' = TemplateRest(pc)
  BY <1>2 DEF TemplateRest, TemplatePlan
<1>3. CASE BeginApply
  <2>1. CASE tmpl.pc = "done" BY <1>3, <2>1 DEF BeginApply, TemplatePlan
  <2>2. CASE tmpl.pc = "planned"
    <3>1. tmpl' = [tmpl EXCEPT !.pc = IF tmpl.todo \in {"replace", "destroy"}
                                      THEN "delete" ELSE "put"]
      BY <1>3, <2>2 DEF BeginApply
    <3> QED BY <1>3, <2>2, <3>1 DEF BeginApply, TemplatePlan, TypeOK
  <2> QED BY <1>3, <2>1, <2>2 DEF BeginApply
<1>4. CASE TemplateRefresh
  <2> DEFINE todo == TemplateTodo(savedTemplate')
  <2>1. /\ tmpl' = [pc |-> IF todo = "nothing" THEN "done" ELSE "planned",
                    todo |-> todo]
        /\ want' = want
    BY <1>4 DEF TemplateRefresh
  <2>2. todo \in Builds => want.template \in Templates
    BY DEF TemplateTodo, TypeOK, Wanted
  <2> HIDE DEF todo
  <2> QED BY <2>1, <2>2 DEF TemplatePlan
<1>5. CASE TemplateDelete BY <1>5 DEF TemplateDelete, TemplatePlan, TemplateRest, TypeOK
<1>6. CASE TemplatePut BY <1>6 DEF TemplatePut, TemplatePlan, TypeOK
<1>7. CASE TemplateNotFound BY <1>7 DEF TemplateNotFound, TemplatePlan, TypeOK
<1>8. CASE TemplateRetry BY <1>8 DEF TemplateRetry, TemplatePlan, TypeOK
<1>9. CASE EditConfig BY <1>9 DEF EditConfig, TemplatePlan
<1>10. PolicyStep \/ PolicyFails \/ TemplateCreated \/ TemplateEdited
         \/ PoliciesEdited \/ Import \/ TemplateImport \/ UNCHANGED vars
       => UNCHANGED <<tmpl, want>>
  BY DEF PolicyStep, PolicyRefresh, PolicyDiff, DiffSkips, PlanDestroy, PolicyGet,
         UpdateSkips, PolicyPut, PolicyConflict, PolicyRetry, PolicyDelete,
         PolicyFails, TemplateCreated, TemplateEdited, PoliciesEdited, Import,
         TemplateImport, vars
<1>11. StartApply \/ AbandonPlan \/ TemplateTimesOut \/ TemplateRead
         \/ TemplateFails \/ Crash
       => \E pc \in TemplateEnded \cup {"refresh"} : tmpl' = TemplateRest(pc)
  BY DEF StartApply, AbandonPlan, TemplateTimesOut, TemplateRead, TemplateFails,
         Crash
<1> QED
  BY <1>1, <1>2, <1>3, <1>4, <1>5, <1>6, <1>7, <1>8, <1>9, <1>10, <1>11
  DEF Next, TemplateStep, Others

\* Every variable keeps its type; no update makes more attempts than the
\* backoff allows.
THEOREM Typing == Spec => []TypeOK
<1>1. Init => TypeOK /\ TemplatePlan
  <2> SUFFICES ASSUME Init PROVE TypeOK /\ TemplatePlan OBVIOUS
  <2>1. Rest("idle") \in Policy BY RestType DEF Ended
  <2>2. NotSaved \in [exists: BOOLEAN, config: Config]
    BY DisabledType DEF NotSaved
  <2>3. TemplateRest("idle") \in
          [pc: TemplatePlanning \cup TemplateApplying \cup TemplateEnded
               \cup {"planned"},
           todo: {"nothing", "create", "update", "replace", "destroy"}]
    BY DEF TemplateRest, TemplateEnded
  <2>4. TypeOK BY <2>1, <2>2, <2>3, TroubleAssumption DEF Init, TypeOK
  <2>5. tmpl.pc = "idle" /\ tmpl.todo = "nothing" BY DEF Init, TemplateRest
  <2> QED BY <2>4, <2>5 DEF TemplatePlan, TemplateEnded, Builds
<1>2. TypeOK /\ TemplatePlan /\ [Next]_vars => TypeOK'
  <2> SUFFICES ASSUME TypeOK, TemplatePlan, [Next]_vars PROVE TypeOK' OBVIOUS
  <2> DEFINE Tmpl == [pc: TemplatePlanning \cup TemplateApplying
                          \cup TemplateEnded \cup {"planned"},
                      todo: {"nothing", "create", "update", "replace", "destroy"}]
  <2>a. Trouble => trouble' \in 0..MaxTrouble
    BY TroubleAssumption DEF Trouble, TypeOK
  <2>b. \A pc \in TemplateEnded \cup {"refresh"} : TemplateRest(pc) \in Tmpl
    BY DEF TemplateRest, TemplatePlanning
  <2>c. \A pc \in Ended \cup {"refresh", "diff", "get", "planned", "delete"} :
          Rest(pc) \in Policy /\ Rest(pc).pc = pc
    BY RestType DEF Planning, Applying
  <2>d. \A doc : Got(doc) => trouble' \in 0..MaxTrouble
    BY <2>a DEF Got, TypeOK
  <2>e. \A doc \in {CurrentPolicies, ErrorBody} : doc \in Document
    BY CurrentType, ErrorBodyType
  <2>f. /\ want.policies \in Config
        /\ tmpl.pc \in {"put", "retry"} => want.template \in Templates
    BY DEF TypeOK, Wanted, TemplatePlan
  <2> USE DEF remoteVars
  <2>1. CASE StartApply
    BY <2>1, <2>b, <2>c DEF StartApply, TypeOK, Ended
  <2>2. CASE BeginApply
    <3>1. [Rest("get") EXCEPT !.since = version] \in Policy
      BY <2>c DEF TypeOK, Policy
    <3>3. [Rest("delete") EXCEPT !.doc = Disabled] \in Policy
      BY <2>c, DisabledType DEF Policy
    <3>2. \A pc \in {"delete", "put"} : [tmpl EXCEPT !.pc = pc] \in Tmpl
      BY DEF TypeOK, TemplateApplying
    <3> QED BY <2>2, <3>1, <3>2, <3>3 DEF BeginApply, TypeOK
  <2>3. CASE AbandonPlan
    BY <2>3, <2>b, <2>c DEF AbandonPlan, TypeOK, Ended, TemplateEnded
  <2>4. CASE PolicyRefresh
    <3>1. PICK doc \in {CurrentPolicies, ErrorBody} :
            /\ Got(doc)
            /\ policy' = [policy EXCEPT !.pc = "diff",
                                        !.doc = FilterVolatile(doc),
                                        !.garbled = doc = ErrorBody]
      BY <2>4 DEF PolicyRefresh
    <3>2. FilterVolatile(doc) \in Document BY <2>e, FilterType
    <3>3. policy' \in Policy BY <3>1, <3>2 DEF TypeOK, Policy, Planning
    <3> QED BY <2>4, <2>d, <3>1, <3>3 DEF PolicyRefresh, TypeOK
  <2>5. CASE PolicyDiff
    <3>1. PICK doc \in {CurrentPolicies, ErrorBody} :
            /\ Got(doc)
            /\ \/ policy' = [policy EXCEPT !.pc = "planned", !.doc = ErrorBody,
                                           !.garbled = @ \/ doc = ErrorBody]
               \/ policy' = Rest("done")
      BY <2>5 DEF PolicyDiff
    <3>2. policy' \in Policy
      <4>1. \A b \in BOOLEAN :
              [policy EXCEPT !.pc = "planned", !.doc = ErrorBody,
                             !.garbled = b] \in Policy
        BY ErrorBodyType DEF TypeOK, Policy
      <4>2. (policy.garbled \/ doc = ErrorBody) \in BOOLEAN OBVIOUS
      <4> QED BY <3>1, <2>c, <4>1, <4>2 DEF Ended
    <3> QED BY <2>5, <2>d, <3>1, <3>2 DEF PolicyDiff, TypeOK
  <2>29. CASE DiffSkips
    <3>1. [policy EXCEPT !.pc = "planned", !.doc = ErrorBody] \in Policy
      BY ErrorBodyType DEF TypeOK, Policy
    <3> QED BY <2>29, <2>c, <3>1 DEF DiffSkips, TypeOK, Ended
  <2>30. CASE UpdateSkips
    BY <2>30, <2>c, KeepType DEF UpdateSkips, TypeOK, Ended
  <2>6. CASE PolicyGet
    <3>1. PICK doc \in {CurrentPolicies, ErrorBody} :
            /\ Got(doc)
            /\ policy' = [policy EXCEPT !.pc = "put", !.doc = Changed(doc),
                                        !.edited = FALSE,
                                        !.garbled = doc = ErrorBody]
      BY <2>6 DEF PolicyGet
    <3>2. Changed(doc) \in Document
      BY <2>e, MergeFacts DEF Changed, TypeOK, Wanted
    <3>3. policy' \in Policy BY <3>1, <3>2 DEF TypeOK, Policy, Applying
    <3> QED BY <2>6, <2>d, <3>1, <3>3 DEF PolicyGet, TypeOK
  <2>7. CASE PolicyPut
    <3>1. policy.doc \in Document BY DEF TypeOK, Policy
    <3> QED BY <2>7, <2>c, <3>1, UpsertType, KeepType
            DEF PolicyPut, TypeOK, Ended
  <2>8. CASE PolicyConflict
    <3>1. policy' \in Policy
      <4>1. CASE LastStep
        BY <2>8, <4>1, <2>c DEF PolicyConflict, TypeOK, Policy, Ended
      <4>2. CASE ~LastStep
        <5>1. policy.used + 1 \in 0..Steps
          BY <4>2, StepsAssumption DEF LastStep, TypeOK, Policy
        <5> QED BY <2>8, <4>2, <5>1 DEF PolicyConflict, TypeOK, Policy, Applying
      <4> QED BY <4>1, <4>2
    <3> QED BY <2>8, <3>1, KeepType DEF PolicyConflict, TypeOK
  <2>9. CASE PolicyRetry
    BY <2>9 DEF PolicyRetry, TypeOK, Policy, Applying
  <2>10. CASE PolicyFails
    <3>1. policy.doc \in Document BY DEF TypeOK, Policy
    <3>2. /\ settings' \in [Fields -> Values]
          /\ template' \in Templates \cup {Missing, Pending}
          /\ version' \in Nat
      BY <2>10, <3>1, UpsertType DEF PolicyFails, TypeOK
    <3>3. saved' \in [exists: BOOLEAN, config: Config]
      BY <2>10, KeepType DEF PolicyFails, TypeOK
    <3> QED BY <2>10, <2>a, <2>c, <3>2, <3>3 DEF PolicyFails, TypeOK, Ended
  <2>11. CASE TemplateRefresh
    <3>1. \A had : TemplateTodo(had) \in
                     {"nothing", "create", "update", "replace", "destroy"}
      BY DEF TemplateTodo
    <3>2. tmpl' \in Tmpl
      BY <2>11, <3>1 DEF TemplateRefresh, TemplateEnded
    <3> QED BY <2>11, <3>2 DEF TemplateRefresh, TypeOK
  <2>12. CASE TemplateDelete
    BY <2>12, <2>b DEF TemplateDelete, TypeOK, TemplateApplying, TemplateEnded
  <2>13. CASE TemplatePut
    BY <2>13, <2>f DEF TemplatePut, TypeOK, TemplateApplying
  <2>14. CASE TemplateNotFound
    BY <2>14 DEF TemplateNotFound, TypeOK, TemplateApplying
  <2>15. CASE TemplateRetry
    BY <2>15 DEF TemplateRetry, TypeOK, TemplateApplying
  <2>16. CASE TemplateTimesOut
    BY <2>16, <2>b DEF TemplateTimesOut, TypeOK, TemplateEnded
  <2>17. CASE TemplateRead
    BY <2>17, <2>b DEF TemplateRead, TypeOK, TemplateEnded
  <2>18. CASE TemplateFails
    BY <2>18, <2>a, <2>b, <2>f DEF TemplateFails, TypeOK, TemplateEnded
  <2>19. CASE TemplateCreated BY <2>19 DEF TemplateCreated, TypeOK
  <2>20. CASE TemplateEdited BY <2>20, <2>a DEF TemplateEdited, TypeOK
  <2>21. CASE PoliciesEdited
    BY <2>21, <2>a DEF PoliciesEdited, TypeOK, Policy
  <2>25. CASE PlanDestroy BY <2>25, <2>c DEF PlanDestroy, TypeOK
  <2>26. CASE PolicyDelete
    <3>1. NotSaved \in [exists: BOOLEAN, config: Config]
      BY DisabledType DEF NotSaved
    <3> QED BY <2>26, <2>c, <3>1, DisabledType, UpsertType
            DEF PolicyDelete, TypeOK, Ended
  <2>27. CASE Import
    <3>1. PICK doc \in {CurrentPolicies, ErrorBody} :
            saved' = [exists |-> TRUE, config |-> Flatten(FilterVolatile(doc))]
      BY <2>27 DEF Import
    <3>2. FilterVolatile(doc) \in Document BY <2>e, FilterType
    <3>3. saved' \in [exists: BOOLEAN, config: Config]
      BY <3>1, <3>2 DEF Flatten, Document, Config, NoConfig
    <3> QED BY <2>27, <2>a, <3>3 DEF Import, TypeOK
  <2>28. CASE TemplateImport BY <2>28, <2>a DEF TemplateImport, TypeOK
  <2>22. CASE EditConfig BY <2>22, <2>a DEF EditConfig, TypeOK
  <2>23. CASE Crash
    BY <2>23, <2>a, <2>b, <2>c DEF Crash, TypeOK, Ended, TemplateEnded
  <2>24. CASE UNCHANGED vars BY <2>24 DEF vars, TypeOK
  <2> QED
    BY <2>1, <2>2, <2>3, <2>4, <2>5, <2>6, <2>7, <2>8, <2>9, <2>10, <2>11,
       <2>12, <2>13, <2>14, <2>15, <2>16, <2>17, <2>18, <2>19, <2>20, <2>21,
       <2>22, <2>23, <2>24, <2>25, <2>26, <2>27, <2>28, <2>29, <2>30
    DEF Next, PolicyStep, TemplateStep, Others
<1> QED BY <1>1, <1>2, PlanStep, PTL DEF Spec

-----------------------------------------------------------------------------
(* What an update knows about the policies it is going to replace *)

\* Every attempt that was used up, and the one about to fail, saw the template
\* change once.
AttemptsPaid ==
  /\ policy.pc \in Applying => version >= policy.since + policy.used
  /\ policy.pc = "put" /\ Conflict(policy.doc) =>
       version >= policy.since + policy.used + 1
  /\ policy.pc = "put" => policy.doc.version \in {Unset} \cup 0..version

\* The template's part of the document is what the configuration asks for, or
\* what the template is unless the version tells.
TemplateFresh ==
  policy.pc = "put" =>
    IF want.policies.synced # Unset
    THEN policy.doc.synced = want.policies.synced
    ELSE \/ policy.doc.synced = Unset
         \/ policy.doc.version # Unset
            /\ (policy.doc.version = version => policy.doc.synced = template)

\* So are the settings outside the configuration, unless somebody edited them
\* or an error was read.
OthersFresh ==
  policy.pc = "put" => \A f \in Fields :
    \/ want.policies.fields[f] # Unset
    \/ policy.edited \/ policy.garbled
    \/ policy.doc.fields[f] = settings[f]

Fresh == AttemptsPaid /\ TemplateFresh /\ OthersFresh /\ RetriesSuffice

LEMMA FreshInit == Init => Fresh
BY DEF Init, Rest, Fresh, AttemptsPaid, TemplateFresh, OthersFresh,
       RetriesSuffice, Applying

\* A run that is not about to write, and has no attempt to account for.
LEMMA FreshAtRest ==
  ASSUME policy'.pc \notin Applying \cup {"exhausted"} PROVE Fresh'
BY DEF Fresh, AttemptsPaid, TemplateFresh, OthersFresh, RetriesSuffice, Applying

\* Steps that leave the autoscaler resource alone, and the settings; they may
\* change the template, which then has a new version or did not exist.
LEMMA FreshBeside ==
  ASSUME TypeOK, TypeOK', Fresh,
         policy' = policy, settings' = settings,
         want' = want \/ policy.pc \in Ended,
         \/ version' = version /\ template' = template
         \/ version' = version + 1
  PROVE  Fresh'
<1>1. version' >= version BY DEF TypeOK
<1>2. AttemptsPaid'
  <2>1. /\ version \in Nat /\ policy.since \in Nat /\ policy.used \in Nat
        /\ version' = version \/ version' = version + 1
    BY StepsAssumption DEF TypeOK, Policy
  <2>2. AttemptsPaid BY DEF Fresh
  <2>3. policy.pc = "put" => version >= policy.since + policy.used
    BY <2>2 DEF AttemptsPaid, Applying
  <2>4. policy.pc \in Applying => version' >= policy.since + policy.used
    BY <2>1, <2>2 DEF AttemptsPaid
  <2>5. policy.pc = "put" => policy.doc.version \in {Unset} \cup 0..version'
    BY <2>1, <2>2 DEF AttemptsPaid
  <2>6. policy.pc = "put" /\ policy.doc.version # Unset
          /\ policy.doc.version # version' =>
          version' >= policy.since + policy.used + 1
    BY <2>1, <2>2, <2>3 DEF AttemptsPaid, Conflict
  <2> QED BY <2>4, <2>5, <2>6 DEF AttemptsPaid, Conflict
<1>3. TemplateFresh'
  <2> SUFFICES ASSUME policy.pc = "put" PROVE TemplateFresh'
    BY DEF TemplateFresh
  <2>1. policy.doc.version \in {Unset} \cup 0..version
    BY DEF Fresh, AttemptsPaid
  <2>2. want' = want BY DEF Ended
  <2> QED BY <2>1, <2>2 DEF Fresh, TemplateFresh, TypeOK
<1>4. OthersFresh' BY DEF Fresh, OthersFresh, Ended
<1>5. RetriesSuffice'
  BY <1>1, StepsAssumption DEF Fresh, RetriesSuffice, TypeOK, Policy
<1> QED BY <1>2, <1>3, <1>4, <1>5 DEF Fresh

LEMMA FreshNext ==
  ASSUME TypeOK, TypeOK', Fresh, [Next]_vars PROVE Fresh'
<1> USE DEF remoteVars
<1>a. \A pc : Rest(pc).pc = pc BY DEF Rest
<1>1. CASE StartApply BY <1>1, <1>a, FreshAtRest DEF StartApply, Applying
<1>2. CASE BeginApply
  <2>1. CASE policy.pc = "done"
    BY <1>2, <2>1, FreshAtRest DEF BeginApply, Applying
  <2>3. CASE policy.pc # "done" /\ ~want.kept
    <3>1. policy'.pc = "delete" BY <1>2, <2>3 DEF BeginApply, Rest
    <3> QED BY <3>1, FreshAtRest DEF Applying
  <2>2. CASE policy.pc # "done" /\ want.kept
    <3>1. policy'.pc = "get" /\ policy'.used = 0 /\ policy'.since = version
      BY <1>2, <2>2 DEF BeginApply, Rest
    <3> QED BY <1>2, <3>1 DEF BeginApply, Fresh, AttemptsPaid, TemplateFresh,
                              OthersFresh, RetriesSuffice, TypeOK
  <2> QED BY <2>1, <2>2, <2>3
<1>3. CASE AbandonPlan BY <1>3, <1>a, FreshAtRest DEF AbandonPlan, Applying
<1>4. CASE PolicyRefresh
  <2>1. policy'.pc = "diff" BY <1>4 DEF PolicyRefresh, TypeOK, Policy
  <2> QED BY <2>1, FreshAtRest DEF Applying
<1>5. CASE PolicyDiff
  <2>1. policy'.pc \in {"planned", "done"}
    BY <1>5, <1>a DEF PolicyDiff, TypeOK, Policy
  <2> QED BY <2>1, FreshAtRest DEF Applying
<1>29. CASE DiffSkips
  <2>1. policy'.pc \in {"planned", "done"}
    BY <1>29, <1>a DEF DiffSkips, TypeOK, Policy
  <2> QED BY <2>1, FreshAtRest DEF Applying
<1>30. CASE UpdateSkips BY <1>30, <1>a, FreshAtRest DEF UpdateSkips, Applying
<1>6. CASE PolicyGet
  <2>1. PICK doc \in {CurrentPolicies, ErrorBody} :
          policy' = [policy EXCEPT !.pc = "put", !.doc = Changed(doc),
                                   !.edited = FALSE,
                                   !.garbled = doc = ErrorBody]
    BY <1>6 DEF PolicyGet
  <2>2. doc \in Document BY <2>1, CurrentType, ErrorBodyType
  <2>3. want.policies \in Config BY DEF TypeOK, Wanted
  <2>4. /\ Changed(doc).version = doc.version
        /\ Changed(doc).synced = IF want.policies.synced = Unset
                                 THEN doc.synced ELSE want.policies.synced
        /\ \A f \in Fields : want.policies.fields[f] = Unset =>
              Changed(doc).fields[f] = doc.fields[f]
    BY <2>2, <2>3, MergeFacts DEF Changed
  <2>5. /\ policy'.pc = "put" /\ policy'.doc = Changed(doc)
        /\ policy'.used = policy.used /\ policy'.since = policy.since
        /\ policy'.garbled = (doc = ErrorBody)
    BY <2>1 DEF TypeOK, Policy
  <2>6. UNCHANGED <<settings, template, version, want>>
    BY <1>6 DEF PolicyGet
  <2>7. version >= policy.since + policy.used
    BY <1>6 DEF PolicyGet, Fresh, AttemptsPaid, Applying
  <2>8. CASE doc = CurrentPolicies
    <3>1. /\ doc.fields = settings /\ doc.version = version
          /\ doc.synced = Unset \/ doc.synced = template
      BY <2>8 DEF CurrentPolicies
    <3>2. AttemptsPaid'
      BY <2>4, <2>5, <2>6, <2>7, <3>1 DEF AttemptsPaid, Conflict, TypeOK
    <3>3. TemplateFresh'
      BY <2>4, <2>5, <2>6, <3>1, DataAssumption DEF TemplateFresh, TypeOK
    <3>4. OthersFresh' BY <2>4, <2>5, <2>6, <3>1 DEF OthersFresh
    <3> QED BY <2>5, <3>2, <3>3, <3>4 DEF Fresh, RetriesSuffice
  <2>9. CASE doc = ErrorBody
    <3>1. doc.version = Unset /\ doc.synced = Unset BY <2>9 DEF ErrorBody
    <3>2. AttemptsPaid'
      BY <2>4, <2>5, <2>6, <2>7, <3>1 DEF AttemptsPaid, Conflict, TypeOK
    <3>3. TemplateFresh' BY <2>4, <2>5, <2>6, <3>1 DEF TemplateFresh
    <3>4. OthersFresh' BY <2>5, <2>9 DEF OthersFresh
    <3> QED BY <2>5, <3>2, <3>3, <3>4 DEF Fresh, RetriesSuffice
  <2> QED BY <2>8, <2>9
<1>7. CASE PolicyPut BY <1>7, <1>a, FreshAtRest DEF PolicyPut, Applying
<1>8. CASE PolicyConflict
  <2>1. version >= policy.since + policy.used + 1
    BY <1>8 DEF PolicyConflict, Fresh, AttemptsPaid
  <2>2. version' = version BY <1>8 DEF PolicyConflict
  <2>3. CASE LastStep
    <3>1. policy'.pc = "exhausted" /\ policy'.since = policy.since
      BY <1>8, <2>3 DEF PolicyConflict, Rest
    <3>2. RetriesSuffice'
      BY <2>1, <2>2, <2>3, <3>1, StepsAssumption
      DEF RetriesSuffice, LastStep, TypeOK, Policy
    <3> QED BY <3>1, <3>2
            DEF Fresh, AttemptsPaid, TemplateFresh, OthersFresh, Applying
  <2>4. CASE ~LastStep
    <3>1. /\ policy'.pc = "backoff" /\ policy'.since = policy.since
          /\ policy'.used = policy.used + 1
      BY <1>8, <2>4 DEF PolicyConflict, TypeOK, Policy
    <3> QED BY <2>1, <2>2, <3>1
            DEF Fresh, AttemptsPaid, TemplateFresh, OthersFresh,
                RetriesSuffice, TypeOK, Policy
  <2> QED BY <2>3, <2>4
<1>9. CASE PolicyRetry
  <2>1. /\ policy'.pc = "get" /\ policy'.since = policy.since
        /\ policy'.used = policy.used /\ version' = version
    BY <1>9 DEF PolicyRetry, TypeOK, Policy
  <2>2. version >= policy.since + policy.used
    BY <1>9 DEF PolicyRetry, Fresh, AttemptsPaid, Applying
  <2> QED BY <2>1, <2>2
          DEF Fresh, AttemptsPaid, TemplateFresh, OthersFresh, RetriesSuffice
<1>10. CASE PolicyFails BY <1>10, <1>a, FreshAtRest DEF PolicyFails, Applying
<1>11. CASE TemplateRefresh BY <1>11, FreshBeside DEF TemplateRefresh
<1>12. CASE TemplateDelete BY <1>12, FreshBeside DEF TemplateDelete
<1>13. CASE TemplatePut BY <1>13, FreshBeside DEF TemplatePut
<1>14. CASE TemplateNotFound BY <1>14, FreshBeside DEF TemplateNotFound
<1>15. CASE TemplateRetry BY <1>15, FreshBeside DEF TemplateRetry
<1>16. CASE TemplateTimesOut BY <1>16, FreshBeside DEF TemplateTimesOut
<1>17. CASE TemplateRead BY <1>17, FreshBeside DEF TemplateRead
<1>18. CASE TemplateFails BY <1>18, FreshBeside DEF TemplateFails
<1>19. CASE TemplateCreated BY <1>19, FreshBeside DEF TemplateCreated
<1>20. CASE TemplateEdited BY <1>20, FreshBeside DEF TemplateEdited
<1>21. CASE PoliciesEdited
  <2>1. /\ policy'.pc = policy.pc /\ policy'.doc = policy.doc
        /\ policy'.used = policy.used /\ policy'.since = policy.since
        /\ policy'.edited = (policy.pc \notin Ended)
        /\ UNCHANGED <<version, want>>
        /\ template' = template \/ template = Missing
    BY <1>21 DEF PoliciesEdited, TypeOK, Policy
  <2>2. AttemptsPaid'
    BY <2>1 DEF Fresh, AttemptsPaid, Conflict
  <2>3. TemplateFresh'
    <3>1. policy.doc.synced \in Templates \cup {Unset}
      BY DEF TypeOK, Policy, Document
    <3> QED BY <2>1, <3>1, DataAssumption DEF Fresh, TemplateFresh
  <2>4. OthersFresh' BY <2>1 DEF OthersFresh, Ended
  <2>5. RetriesSuffice' BY <2>1 DEF Fresh, RetriesSuffice
  <2> QED BY <2>2, <2>3, <2>4, <2>5 DEF Fresh
<1>22. CASE EditConfig BY <1>22, FreshBeside DEF EditConfig
<1>25. CASE PlanDestroy BY <1>25, <1>a, FreshAtRest DEF PlanDestroy, Applying
<1>26. CASE PolicyDelete BY <1>26, <1>a, FreshAtRest DEF PolicyDelete, Applying
<1>27. CASE Import BY <1>27, FreshBeside DEF Import
<1>28. CASE TemplateImport BY <1>28, FreshBeside DEF TemplateImport
<1>23. CASE Crash BY <1>23, <1>a, FreshAtRest DEF Crash, Applying
<1>24. CASE UNCHANGED vars BY <1>24, FreshBeside DEF vars
<1> QED
  BY <1>1, <1>2, <1>3, <1>4, <1>5, <1>6, <1>7, <1>8, <1>9, <1>10, <1>11,
     <1>12, <1>13, <1>14, <1>15, <1>16, <1>17, <1>18, <1>19, <1>20, <1>21,
     <1>22, <1>23, <1>24, <1>25, <1>26, <1>27, <1>28, <1>29, <1>30
  DEF Next, PolicyStep, TemplateStep, Others

LEMMA Freshness == Spec => []Fresh
<1>1. TypeOK /\ TypeOK' /\ Fresh /\ [Next]_vars => Fresh' BY FreshNext
<1> QED BY <1>1, FreshInit, Typing, PTL DEF Spec

-----------------------------------------------------------------------------
(* What the plan compares CAST AI's policies with *)

\* Documents with the same parts are the same.
LEMMA SameDocument ==
  ASSUME NEW doc \in Document, NEW other \in Document,
         doc.fields = other.fields, doc.synced = other.synced,
         doc.version = other.version
  PROVE  doc = other
BY DEF Document

\* A document as a plan sees it.
Shows(doc) == doc.fields = settings /\ doc.synced = Unset /\ doc.version = Unset

\* The plan of a resource that is there compares with the settings as they are,
\* unless somebody edited them since the refresh, or it read an error.
PlanFresh ==
  policy.pc = "diff" /\ saved.exists =>
    policy.edited \/ policy.garbled \/ Shows(policy.doc)

\* Settings are never unset, so an error is not taken for what CAST AI has.
LEMMA CurrentFacts ==
  ASSUME TypeOK
  PROVE  /\ CurrentPolicies # ErrorBody
         /\ CurrentPolicies.fields = settings
         /\ Shows(FilterVolatile(CurrentPolicies))
<1>1. \A f \in Fields : settings[f] # Unset BY DataAssumption DEF TypeOK
<1>2. PICK f \in Fields : TRUE BY DataAssumption
<1>3. CurrentPolicies.fields[f] # ErrorBody.fields[f]
  BY <1>1 DEF CurrentPolicies, ErrorBody
<1>4. Shows(FilterVolatile(CurrentPolicies))
  BY DEF Shows, CurrentPolicies, FilterVolatile
<1> QED BY <1>3, <1>4 DEF CurrentPolicies

LEMMA PlanFreshNext ==
  ASSUME TypeOK, PlanFresh, [Next]_vars PROVE PlanFresh'
<1> USE DEF remoteVars
<1>a. \A pc : Rest(pc).pc = pc BY DEF Rest
<1>b. ASSUME policy'.pc # "diff" PROVE PlanFresh' BY <1>b DEF PlanFresh
<1>c. ASSUME UNCHANGED <<policy, settings, saved>> PROVE PlanFresh'
  BY <1>c DEF PlanFresh, Shows
<1>1. CASE StartApply
  <2>1. CASE saved.exists BY <1>1, <2>1, <1>a, <1>b DEF StartApply
  <2>2. CASE ~saved.exists BY <1>1, <2>2 DEF StartApply, PlanFresh
  <2> QED BY <2>1, <2>2
<1>2. CASE PolicyRefresh
  <2>1. PICK doc \in {CurrentPolicies, ErrorBody} :
          policy' = [policy EXCEPT !.pc = "diff", !.doc = FilterVolatile(doc),
                                   !.garbled = doc = ErrorBody]
    BY <1>2 DEF PolicyRefresh
  <2>2. policy'.doc = FilterVolatile(doc) /\ policy'.garbled = (doc = ErrorBody)
    BY <2>1 DEF TypeOK, Policy
  <2>3. settings' = settings BY <1>2 DEF PolicyRefresh
  <2>4. doc = CurrentPolicies => policy'.doc.fields = settings'
                                /\ policy'.doc.synced = Unset
                                /\ policy'.doc.version = Unset
    BY <2>2, <2>3, CurrentFacts DEF Shows
  <2> QED BY <2>2, <2>4 DEF PlanFresh, Shows
<1>3. CASE PoliciesEdited
  <2>1. policy'.pc = policy.pc /\ policy'.edited = (policy.pc \notin Ended)
    BY <1>3 DEF PoliciesEdited, TypeOK, Policy
  <2> QED BY <2>1 DEF PlanFresh, Ended
<1>4. CASE Import
  BY <1>4, <1>b DEF Import, Ended
<1>5. BeginApply \/ AbandonPlan \/ PolicyDiff \/ DiffSkips \/ PlanDestroy
        \/ PolicyGet \/ UpdateSkips \/ PolicyPut \/ PolicyConflict
        \/ PolicyRetry \/ PolicyDelete \/ PolicyFails \/ Crash => policy'.pc # "diff"
  <2>1. BeginApply => policy'.pc # "diff"
    <3>1. CASE BeginApply /\ policy.pc = "done" BY <3>1 DEF BeginApply
    <3>2. CASE BeginApply /\ policy.pc # "done" /\ want.kept
      <4>1. policy' = [Rest("get") EXCEPT !.since = version] BY <3>2 DEF BeginApply
      <4> QED BY <4>1 DEF Rest
    <3>3. CASE BeginApply /\ policy.pc # "done" /\ ~want.kept
      <4>1. policy' = [Rest("delete") EXCEPT !.doc = Disabled] BY <3>3 DEF BeginApply
      <4> QED BY <4>1 DEF Rest
    <3> QED BY <3>1, <3>2, <3>3
  <2>2. PolicyDiff \/ DiffSkips \/ PolicyGet \/ PolicyConflict \/ PolicyRetry
          => policy'.pc # "diff"
    <3>1. PolicyDiff \/ DiffSkips => policy'.pc # "diff"
      BY <1>a DEF PolicyDiff, DiffSkips, TypeOK, Policy
    <3>2. PolicyGet \/ PolicyRetry => policy'.pc # "diff"
      <4>1. PolicyRetry => policy'.pc # "diff" BY DEF PolicyRetry, TypeOK, Policy
      <4>2. CASE PolicyGet
        <5>1. PICK doc \in {CurrentPolicies, ErrorBody} :
                policy' = [policy EXCEPT !.pc = "put", !.doc = Changed(doc),
                                         !.edited = FALSE,
                                         !.garbled = doc = ErrorBody]
          BY <4>2 DEF PolicyGet
        <5> QED BY <5>1 DEF TypeOK, Policy
      <4> QED BY <4>1, <4>2
    <3>3. CASE PolicyConflict
      <4>1. \/ policy' = [Rest("exhausted") EXCEPT !.since = policy.since]
            \/ policy' = [policy EXCEPT !.pc = "backoff", !.used = @ + 1]
        BY <3>3 DEF PolicyConflict
      <4> QED BY <4>1 DEF Rest, TypeOK, Policy
    <3> QED BY <3>1, <3>2, <3>3
  <2>3. AbandonPlan \/ PlanDestroy \/ UpdateSkips \/ PolicyPut \/ PolicyDelete
          \/ PolicyFails \/ Crash => \E pc \in Ended \cup {"planned"} : policy' = Rest(pc)
    BY DEF AbandonPlan, PlanDestroy, UpdateSkips, PolicyPut, PolicyDelete,
           PolicyFails, Crash, Ended
  <2> QED BY <2>1, <2>2, <2>3, <1>a DEF Ended
<1>6. TemplateStep \/ TemplateTimesOut \/ TemplateFails \/ TemplateCreated
        \/ TemplateEdited \/ EditConfig \/ TemplateImport \/ UNCHANGED vars
      => UNCHANGED <<policy, settings, saved>>
  BY DEF TemplateStep, TemplateRefresh, TemplateDelete, TemplatePut,
         TemplateNotFound, TemplateRetry, TemplateRead, TemplateTimesOut,
         TemplateFails, TemplateCreated, TemplateEdited, EditConfig,
         TemplateImport, vars
<1> QED BY <1>b, <1>c, <1>1, <1>2, <1>3, <1>4, <1>5, <1>6
        DEF Next, PolicyStep, Others

LEMMA PlanFreshness == Spec => []PlanFresh
<1>1. Init => PlanFresh BY DEF Init, Rest, PlanFresh
<1>2. TypeOK /\ PlanFresh /\ [Next]_vars => PlanFresh' BY PlanFreshNext
<1> QED BY <1>1, <1>2, Typing, PTL DEF Spec

\* A configuration that CAST AI has already is merged into what it has.
LEMMA MergedAlready ==
  ASSUME TypeOK,
         \A f \in Fields : want.policies.fields[f] \in {Unset, settings[f]}
  PROVE  Shows(FilterVolatile(Merge(CurrentPolicies, want.policies)))
<1> DEFINE fields == [f \in Fields |-> IF want.policies.fields[f] = Unset
                                       THEN CurrentPolicies.fields[f]
                                       ELSE want.policies.fields[f]]
<1>1. fields = settings BY CurrentFacts DEF TypeOK
<1>2. Merge(CurrentPolicies, want.policies).fields = fields
  BY DEF Merge, CurrentPolicies
<1> HIDE DEF fields
<1>3. LET doc == Merge(CurrentPolicies, want.policies)
      IN  doc \in Document
  BY CurrentType, MergeFacts DEF TypeOK, Wanted
<1> QED BY <1>1, <1>2, <1>3 DEF FilterVolatile, Shows, Document

-----------------------------------------------------------------------------
(* The properties *)

\* An update gives up only if the template changed once for every attempt.
THEOREM Retries == Spec => []RetriesSuffice
<1>1. Fresh => RetriesSuffice BY DEF Fresh
<1> QED BY <1>1, Freshness, PTL

\* The steps that end a write.
LEMMA WriteSteps ==
  ASSUME TypeOK, [Next]_vars, Writes
  PROVE  \/ PolicyPut \/ PolicyConflict \/ PolicyFails \/ Crash
<1> USE DEF Writes
<1>1. ~StartApply /\ ~BeginApply /\ ~AbandonPlan
  BY DEF StartApply, BeginApply, AbandonPlan, Ended
<1>2. /\ ~PolicyRefresh /\ ~PolicyDiff /\ ~DiffSkips /\ ~PlanDestroy
      /\ ~PolicyGet /\ ~UpdateSkips /\ ~PolicyRetry /\ ~PolicyDelete
  BY DEF PolicyRefresh, PolicyDiff, DiffSkips, PlanDestroy, PolicyGet,
         UpdateSkips, PolicyRetry, PolicyDelete
<1>3. ~TemplateStep /\ ~TemplateTimesOut /\ ~TemplateFails
  BY DEF TemplateStep, TemplateRefresh, TemplateDelete, TemplatePut,
         TemplateNotFound, TemplateRetry, TemplateRead, TemplateTimesOut,
         TemplateFails
<1>4. /\ ~TemplateCreated /\ ~TemplateEdited /\ ~EditConfig /\ ~Import
      /\ ~TemplateImport /\ policy' # policy
  BY DEF TemplateCreated, TemplateEdited, EditConfig, Import, TemplateImport
<1>5. ~PoliciesEdited BY DEF PoliciesEdited, TypeOK, Policy
<1> QED BY <1>1, <1>2, <1>3, <1>4, <1>5 DEF Next, PolicyStep, Others, vars

\* An update of the policies never takes the default template back.
THEOREM TemplateKept == Spec => TemplateNotReverted
<1>1. ASSUME TypeOK, Fresh, [Next]_vars, Writes
      PROVE  template' \in {template, Pending, want.policies.synced}
  <2>1. CASE template' = template BY <2>1
  <2>2. CASE UpsertEffect(policy.doc) /\ ~Conflict(policy.doc)
    <3>1. policy.pc = "put" BY <1>1 DEF Writes
    <3> QED BY <1>1, <2>2, <3>1
            DEF Fresh, TemplateFresh, UpsertEffect, Conflict
  <2> QED BY <1>1, <2>1, <2>2, WriteSteps
          DEF PolicyPut, PolicyConflict, PolicyFails, Crash, remoteVars
<1>2. TypeOK /\ Fresh /\ [Next]_vars =>
        [Writes => template' \in {template, Pending, want.policies.synced}]_vars
  BY <1>1
<1> QED BY <1>2, Typing, Freshness, PTL DEF Spec, TemplateNotReverted

\* An update leaves settings outside the configuration alone.
THEOREM OthersKept == Spec => OverridesOnly
<1> DEFINE Kept == \A f \in Fields :
                     \/ want.policies.fields[f] # Unset
                     \/ settings'[f] = settings[f]
                     \/ policy.edited \/ policy.garbled
<1>1. ASSUME TypeOK, Fresh, [Next]_vars, Writes
      PROVE  Kept
  <2>1. CASE settings' = settings BY <2>1
  <2>2. CASE UpsertEffect(policy.doc)
    <3>1. \A f \in Fields : policy.doc.fields[f] # Unset =>
                              settings'[f] = policy.doc.fields[f]
      BY <2>2 DEF UpsertEffect
    <3>2. \A f \in Fields : settings[f] # Unset
      BY <1>1, DataAssumption DEF TypeOK
    <3>3. policy.pc = "put" BY <1>1 DEF Writes
    <3> QED BY <1>1, <3>1, <3>2, <3>3 DEF Fresh, OthersFresh
  <2> QED BY <1>1, <2>1, <2>2, WriteSteps
          DEF PolicyPut, PolicyConflict, PolicyFails, Crash, remoteVars
<1>2. TypeOK /\ Fresh /\ [Next]_vars => [Writes => Kept]_vars BY <1>1
<1> QED BY <1>2, Typing, Freshness, PTL DEF Spec, OverridesOnly

\* A plan that follows the same configuration wants an update only if a
\* configured setting is different, or was edited while planning.
THEOREM NoFalseDrift == Spec => DriftIsReal
<1> DEFINE Drifts == /\ policy.pc = "diff" /\ policy'.pc = "planned"
                     /\ want.kept /\ saved.exists /\ saved.config = want.policies
           Real == \/ \E f \in Fields :
                        want.policies.fields[f] \notin {Unset, settings[f]}
                   \/ policy'.edited \/ policy'.garbled
<1>1. ASSUME TypeOK, PlanFresh, [Next]_vars, Drifts PROVE Real
  <2>1. PolicyDiff
    <3>1. ~StartApply /\ ~BeginApply /\ ~AbandonPlan
      BY <1>1 DEF StartApply, BeginApply, AbandonPlan, Ended
    <3>2. /\ ~PolicyRefresh /\ ~PlanDestroy /\ ~PolicyGet /\ ~UpdateSkips
          /\ ~PolicyPut /\ ~PolicyConflict /\ ~PolicyRetry /\ ~PolicyDelete
      BY <1>1 DEF PolicyRefresh, PlanDestroy, PolicyGet, UpdateSkips, PolicyPut,
                  PolicyConflict, PolicyRetry, PolicyDelete
    <3>0. \A pc : Rest(pc).pc = pc BY DEF Rest
    <3>6. ~DiffSkips BY <1>1, <3>0 DEF DiffSkips
    <3>3. ~PolicyFails /\ ~Crash BY <1>1, <3>0 DEF PolicyFails, Crash
    <3>4. /\ ~TemplateStep /\ ~TemplateTimesOut /\ ~TemplateFails /\ ~TemplateCreated
          /\ ~TemplateEdited /\ ~EditConfig /\ ~Import /\ ~TemplateImport
          /\ policy' # policy
      BY <1>1 DEF TemplateStep, TemplateRefresh, TemplateDelete, TemplatePut,
                  TemplateNotFound, TemplateRetry, TemplateRead, TemplateTimesOut,
                  TemplateFails, TemplateCreated, TemplateEdited, EditConfig, Import,
                  TemplateImport
    <3>5. ~PoliciesEdited BY <1>1 DEF PoliciesEdited, TypeOK, Policy
    <3> QED BY <1>1, <3>1, <3>2, <3>3, <3>4, <3>5, <3>6
            DEF Next, PolicyStep, Others, vars
  <2>2. PICK doc \in {CurrentPolicies, ErrorBody} :
          policy' = IF NeedsUpdate(doc)
                    THEN [policy EXCEPT !.pc = "planned", !.doc = ErrorBody,
                                        !.garbled = @ \/ doc = ErrorBody]
                    ELSE Rest("done")
    BY <2>1 DEF PolicyDiff
  <2>3. NeedsUpdate(doc) BY <1>1, <2>2 DEF Rest
  <2>4. /\ policy'.edited = policy.edited
        /\ policy'.garbled = (policy.garbled \/ doc = ErrorBody)
    BY <1>1, <2>2, <2>3 DEF TypeOK, Policy
  <2> SUFFICES ASSUME ~policy'.edited, ~policy'.garbled
               PROVE \E f \in Fields :
                       want.policies.fields[f] \notin {Unset, settings[f]}
    OBVIOUS
  <2>5. doc = CurrentPolicies BY <2>2, <2>4
  <2>6. Shows(policy.doc)
    BY <1>1, <2>4 DEF PlanFresh
  <2>7. FilterVolatile(Merge(CurrentPolicies, want.policies)) # policy.doc
    BY <1>1, <2>3, <2>5 DEF NeedsUpdate
  <2>8. /\ policy.doc \in Document
        /\ FilterVolatile(Merge(CurrentPolicies, want.policies)) \in Document
    BY <1>1, CurrentType, MergeFacts, FilterType DEF TypeOK, Policy, Wanted
  <2> QED BY <1>1, <2>6, <2>7, <2>8, MergedAlready, SameDocument DEF Shows
<1>2. TypeOK /\ PlanFresh /\ [Next]_vars => [Drifts => Real]_vars BY <1>1
<1> QED BY <1>2, Typing, PlanFreshness, PTL DEF Spec, DriftIsReal
=============================================================================
