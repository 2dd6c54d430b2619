------------------------- MODULE EdgeLocationProofs -------------------------
(***************************************************************************)
(* The safety properties of EdgeLocation, for every set of specifications  *)
(* and credentials and any amount of trouble.                              *)
(*                                                                         *)
(* HashIsCurrent is not inductive: an update that keeps the hash is right  *)
(* only because its plan saw that the hash is that of the configured       *)
(* credentials, and a create whose answer is lost is harmless only because *)
(* nothing was in the state.  Purpose and PlanStands say so.               *)
(***************************************************************************)
EXTENDS EdgeLocation, TLAPS

Purpose ==
  /\ run.pc = "create" => want # Absent /\ ~saved.exists
  /\ run.pc = "update" => want # Absent

PlanStands ==
  run.pc = "update" =>
    /\ run.rev \in {saved.rev, saved.rev + 1}
    /\ run.rev = saved.rev /\ want.cred # NoCred => saved.hash = want.cred

Sound == TypeOK /\ Purpose /\ PlanStands /\ HashIsCurrent

-----------------------------------------------------------------------------
(* Initial states *)

LEMMA InitSound == Init => Sound
<1> SUFFICES ASSUME Init PROVE Sound
  OBVIOUS
<1>1. PICK spec \in Specs :
        /\ remote = [there |-> "no", spec |-> spec, cred |-> NoCred]
        /\ saved = NotSaved(spec)
  BY DEF Init
<1>2. remote \in Location /\ saved \in Resource /\ ~saved.exists
  BY <1>1 DEF Location, Resource, NotSaved
<1>3. run = [pc |-> "idle", rev |-> 0]
  BY DEF Init
<1>4. want \in Config /\ doubt = FALSE /\ trouble = MaxTrouble
  BY DEF Init
<1>5. trouble \in 0..MaxTrouble
  BY <1>4, TroubleAssumption
<1>6. TypeOK
  BY <1>2, <1>3, <1>4, <1>5 DEF TypeOK, Ended
<1> QED
  BY <1>2, <1>3, <1>6 DEF Sound, Purpose, PlanStands, HashIsCurrent

-----------------------------------------------------------------------------
(* The records the actions build *)

LEMMA NotSavedType == \A spec \in Specs :
  /\ NotSaved(spec) \in Resource
  /\ ~NotSaved(spec).exists
BY DEF NotSaved, Resource

LEMMA CreatedType ==
  ASSUME want \in Config
  PROVE  /\ Created \in Resource
         /\ Created.exists
         /\ Created.hash \in {NoHash, want.cred}
         /\ [there |-> "yes", spec |-> want.spec, cred |-> want.cred] \in Location
BY DEF Created, Resource, Config, Location

LEMMA UpdateEffectType ==
  ASSUME TypeOK, want \in Config, UpdateEffect
  PROVE  /\ remote' \in Location
         /\ remote'.there = remote.there
         /\ want.cred # NoCred => remote'.cred = want.cred
<1>1. PICK cred \in IF want.cred # NoCred THEN {want.cred} ELSE {remote.cred, NoCred} :
        remote' = [remote EXCEPT !.spec = want.spec, !.cred = cred]
  BY DEF UpdateEffect
<1>2. cred \in Creds \cup {NoCred} /\ want.spec \in Specs
  BY DEF TypeOK, Location, Config
<1> QED
  BY <1>1, <1>2 DEF TypeOK, Location

LEMMA UpdatedType ==
  ASSUME TypeOK, want \in Config
  PROVE  /\ Updated \in Resource
         /\ Updated.exists = saved.exists
         /\ Updated.rev = run.rev
         /\ Updated.hash = StoredHash
<1>1. StoredHash \in Creds \cup {NoHash} /\ want.spec \in Specs
  BY DEF StoredHash, TypeOK, Resource, Config
<1> QED
  BY <1>1 DEF Updated, TypeOK, Resource

-----------------------------------------------------------------------------
(* Steps *)

LEMMA StepSound == Sound /\ [Next]_vars => Sound'
<1> SUFFICES ASSUME Sound, [Next]_vars PROVE Sound'
  OBVIOUS
<1> USE DEF Sound
<1>0. want # Absent => want \in Config
  BY DEF TypeOK
<1>1. CASE StartApply
  BY <1>1 DEF StartApply, TypeOK, Ended, Purpose, PlanStands, HashIsCurrent
<1>2. CASE Refresh
  <2>1. CASE remote.there = "no"
    <3>1. saved' = NotSaved(saved.spec) /\ saved' \in Resource /\ ~saved'.exists
      BY <1>2, <2>1, NotSavedType DEF Refresh, TypeOK, Resource
    <3> QED
      BY <1>2, <2>1, <3>1
         DEF Refresh, Goes, TypeOK, Ended, Purpose, PlanStands, HashIsCurrent
  <2>2. CASE remote.there # "no"
    <3>1. /\ saved' \in Resource
          /\ saved'.exists = saved.exists
          /\ saved'.hash = saved.hash
      BY <1>2, <2>2 DEF Refresh, TypeOK, Resource, Location
    <3> QED
      BY <1>2, <2>2, <3>1
         DEF Refresh, Goes, TypeOK, Ended, Purpose, PlanStands, HashIsCurrent
  <2> QED
    BY <2>1, <2>2
<1>3. CASE PlanDelete
  BY <1>3 DEF PlanDelete, Goes, TypeOK, Ended, Purpose, PlanStands, HashIsCurrent
<1>4. CASE PlanRefused
  BY <1>4 DEF PlanRefused, Ends, TypeOK, Ended, Purpose, PlanStands, HashIsCurrent
<1>5. ASSUME NEW rev \in {saved.rev, saved.rev + 1}, PlanUpdate(rev),
             want.cred # NoCred /\ rev = saved.rev => saved.hash = want.cred,
             trouble' \in 0..MaxTrouble
      PROVE  Sound'
  <2>1. rev \in Nat
    BY <1>5 DEF TypeOK, Resource
  <2>2. \/ run' = [pc |-> "done", rev |-> 0]
        \/ run' = [pc |-> "update", rev |-> rev]
    BY <1>5 DEF PlanUpdate, Ends
  <2> QED
    BY <1>5, <2>1, <2>2
       DEF PlanUpdate, TypeOK, Ended, Purpose, PlanStands, HashIsCurrent
<1>6. CASE ModifyPlan
  <2>1. /\ PlannedRevision \in {saved.rev, saved.rev + 1}
        /\ want.cred # NoCred /\ PlannedRevision = saved.rev => saved.hash = want.cred
    BY DEF PlannedRevision, TypeOK, Resource
  <2> QED
    BY <1>5, <1>6, <2>1 DEF ModifyPlan, TypeOK
<1>7. CASE ModifyPlanUnknown
  <2>1. saved.rev + 1 # saved.rev
    BY DEF TypeOK, Resource
  <2>2. trouble' \in 0..MaxTrouble
    BY <1>7, TroubleAssumption DEF ModifyPlanUnknown, Trouble, TypeOK
  <2> QED
    BY <1>5, <1>7, <2>1, <2>2 DEF ModifyPlanUnknown
<1>8. CASE Create
  <2>1. want \in Config
    BY <1>0, <1>8 DEF Create, Purpose
  <2>2. /\ saved' \in Resource /\ remote' \in Location
        /\ saved'.hash \in {NoHash, want.cred}
        /\ remote'.cred = want.cred
    BY <1>8, <2>1, CreatedType DEF Create
  <2> QED
    BY <1>8, <2>2
       DEF Create, Ends, TypeOK, Ended, Purpose, PlanStands, HashIsCurrent
<1>9. CASE CreateRefused
  BY <1>9 DEF CreateRefused, Ends, TypeOK, Ended, Purpose, PlanStands, HashIsCurrent
<1>10. CASE Update
  <2>1. want \in Config
    BY <1>0, <1>10 DEF Update, Purpose
  <2>2. saved' \in Resource /\ saved'.hash = StoredHash
    BY <1>10, <2>1, UpdatedType DEF Update
  <2>3. /\ remote' \in Location
        /\ want.cred # NoCred => remote'.cred = want.cred
    BY <1>10, <2>1, UpdateEffectType DEF Update
  <2>4. want.cred # NoCred => StoredHash = want.cred
    BY <1>10 DEF StoredHash, CredentialsChanged, Update, PlanStands
  <2>5. doubt' = (want.cred = NoCred) /\ want' = want /\ trouble' = trouble
        /\ run' = [pc |-> "done", rev |-> 0]
    BY <1>10 DEF Update, Ends
  <2>6. HashIsCurrent'
    BY <2>2, <2>3, <2>4, <2>5 DEF HashIsCurrent
  <2> QED
    BY <2>2, <2>3, <2>5, <2>6 DEF TypeOK, Ended, Purpose, PlanStands
<1>11. CASE UpdateRefused
  BY <1>11 DEF UpdateRefused, Ends, TypeOK, Ended, Purpose, PlanStands, HashIsCurrent
<1>12. CASE Delete
  <2>1. CASE remote.there = "no"
    <3>1. saved' = NotSaved(saved.spec) /\ saved' \in Resource /\ ~saved'.exists
      BY <1>12, <2>1, NotSavedType DEF Delete, TypeOK, Resource
    <3> QED
      BY <1>12, <2>1, <3>1
         DEF Delete, Ends, TypeOK, Ended, Purpose, PlanStands, HashIsCurrent
  <2>2. CASE remote.there # "no"
    <3>1. remote' \in Location /\ remote'.there = "deleting"
      BY <1>12, <2>2 DEF Delete, TypeOK, Location
    <3> QED
      BY <1>12, <2>2, <3>1
         DEF Delete, Goes, TypeOK, Ended, Purpose, PlanStands, HashIsCurrent
  <2> QED
    BY <2>1, <2>2
<1>13. CASE DeletionPolled
  <2>1. saved' = NotSaved(saved.spec) /\ saved' \in Resource /\ ~saved'.exists
    BY <1>13, NotSavedType DEF DeletionPolled, TypeOK, Resource
  <2> QED
    BY <1>13, <2>1
       DEF DeletionPolled, Ends, TypeOK, Ended, Purpose, PlanStands, HashIsCurrent
<1>14. CASE Fails
  BY <1>14, TroubleAssumption
     DEF Fails, Trouble, Ends, TypeOK, Ended, Purpose, PlanStands, HashIsCurrent
<1>15. CASE AnswerLost
  <2>1. /\ saved' = saved /\ want' = want /\ run' = [pc |-> "failed", rev |-> 0]
        /\ trouble' \in 0..MaxTrouble
    BY <1>15, TroubleAssumption DEF AnswerLost, Trouble, Ends, TypeOK
  <2>2. CASE /\ run.pc = "create" /\ remote.there = "no"
             /\ remote' = [there |-> "yes", spec |-> want.spec, cred |-> want.cred]
             /\ UNCHANGED doubt
    <3>1. remote' \in Location /\ ~saved.exists
      BY <1>0, <2>2, CreatedType DEF Purpose
    <3> QED
      BY <2>1, <2>2, <3>1 DEF TypeOK, Ended, Purpose, PlanStands, HashIsCurrent
  <2>3. CASE /\ run.pc = "update" /\ remote.there = "yes"
             /\ UpdateEffect
             /\ doubt' = TRUE
    <3>1. remote' \in Location
      BY <1>0, <2>3, UpdateEffectType DEF Purpose
    <3> QED
      BY <2>1, <2>3, <3>1 DEF TypeOK, Ended, Purpose, PlanStands, HashIsCurrent
  <2>4. CASE /\ run.pc = "delete" /\ remote.there = "yes"
             /\ remote' = [remote EXCEPT !.there = "deleting"]
             /\ UNCHANGED doubt
    <3>1. remote' \in Location /\ remote'.there = "deleting"
      BY <2>4 DEF TypeOK, Location
    <3> QED
      BY <2>1, <2>4, <3>1 DEF TypeOK, Ended, Purpose, PlanStands, HashIsCurrent
  <2> QED
    BY <1>15, <2>2, <2>3, <2>4 DEF AnswerLost
<1>16. CASE Import
  <2>1. saved' \in Resource /\ saved'.hash = NoHash
    BY <1>16 DEF Import, TypeOK, Resource, Location
  <2> QED
    BY <1>16, <2>1, TroubleAssumption
       DEF Import, Trouble, TypeOK, Ended, Purpose, PlanStands, HashIsCurrent
<1>17. CASE EditConfig
  BY <1>17, TroubleAssumption
     DEF EditConfig, Trouble, TypeOK, Ended, Purpose, PlanStands, HashIsCurrent
<1>18. CASE DeletionEnds
  <2>1. remote' \in Location /\ remote'.there = "no"
    BY <1>18 DEF DeletionEnds, TypeOK, Location
  <2> QED
    BY <1>18, <2>1 DEF DeletionEnds, TypeOK, Purpose, PlanStands, HashIsCurrent
<1>19. CASE Console
  <2>1. remote' \in Location /\ remote'.cred = remote.cred
    BY <1>19 DEF Console, TypeOK, Location
  <2> QED
    BY <1>19, <2>1, TroubleAssumption
       DEF Console, Trouble, TypeOK, Purpose, PlanStands, HashIsCurrent
<1>20. CASE UNCHANGED vars
  BY <1>20 DEF vars, TypeOK, Purpose, PlanStands, HashIsCurrent
<1> QED
  BY <1>1, <1>2, <1>3, <1>4, <1>6, <1>7, <1>8, <1>9, <1>10, <1>11, <1>12,
     <1>13, <1>14, <1>15, <1>16, <1>17, <1>18, <1>19, <1>20
     DEF Next, Terraform

LEMMA AlwaysSound == Spec => []Sound
BY InitSound, StepSound, PTL DEF Spec

-----------------------------------------------------------------------------
(* Theorems *)

\* Every variable keeps its type: in particular the revision stays a number
\* and the private state holds a hash of credentials or nothing.
THEOREM Typing == Spec => []TypeOK
<1>1. Sound => TypeOK
  BY DEF Sound
<1> QED
  BY <1>1, AlwaysSound, PTL

\* The hash in the private state is that of the credentials CAST AI has,
\* outside the doubt a lost answer or a request without credentials leaves.
THEOREM HashCurrent == Spec => []HashIsCurrent
<1>1. Sound => HashIsCurrent
  BY DEF Sound
<1> QED
  BY <1>1, AlwaysSound, PTL

\* New credentials never reach the state under the old revision.
THEOREM RevisionRises == Spec => RevisionTells
<1>1. ASSUME Sound, [Next]_vars
      PROVE  saved.exists /\ saved'.exists /\ saved'.hash # saved.hash
               => saved'.rev = saved.rev + 1
  <2> SUFFICES ASSUME saved.exists, saved'.exists, saved'.hash # saved.hash
               PROVE  saved'.rev = saved.rev + 1
    OBVIOUS
  <2>1. CASE Update
    <3>1. want \in Config
      BY <1>1, <2>1 DEF Sound, Update, Purpose, TypeOK
    <3>2. saved'.rev = run.rev /\ saved'.hash = StoredHash
      BY <1>1, <2>1, <3>1, UpdatedType DEF Update, Sound
    <3> QED
      BY <1>1, <2>1, <3>2
         DEF Sound, Update, StoredHash, CredentialsChanged, PlanStands
  <2>2. CASE Refresh
    BY <1>1, <2>2, NotSavedType DEF Refresh, Sound, TypeOK, Resource
  <2>3. CASE Create
    BY <1>1, <2>3 DEF Create, Sound, Purpose
  <2>4. CASE Delete \/ DeletionPolled
    BY <1>1, <2>4, NotSavedType
       DEF Delete, DeletionPolled, Sound, TypeOK, Resource
  <2> QED
    BY <1>1, <2>1, <2>2, <2>3, <2>4
       DEF Next, Terraform, StartApply, PlanDelete, PlanRefused, ModifyPlan,
           ModifyPlanUnknown, PlanUpdate, CreateRefused, UpdateRefused, Fails,
           AnswerLost, Import, EditConfig, DeletionEnds, Console, vars
<1> QED
  BY <1>1, AlwaysSound, PTL DEF Spec, RevisionTells

\* The state drops an edge location only when CAST AI no longer has it.
THEOREM ForgottenLast == Spec => ForgottenOnlyWhenGone
<1>1. ASSUME Sound, [Next]_vars
      PROVE  saved.exists /\ ~saved'.exists => remote.there = "no"
  <2> SUFFICES ASSUME saved.exists, ~saved'.exists
               PROVE  remote.there = "no"
    OBVIOUS
  <2>1. CASE Update
    <3>1. want \in Config
      BY <1>1, <2>1 DEF Sound, Update, Purpose, TypeOK
    <3> QED
      BY <1>1, <2>1, <3>1, UpdatedType DEF Update, Sound
  <2>2. CASE Refresh
    BY <1>1, <2>2 DEF Refresh, Sound, TypeOK, Resource
  <2>3. CASE Create
    BY <1>1, <2>3 DEF Create, Sound, Purpose
  <2>4. CASE Delete \/ DeletionPolled
    BY <1>1, <2>4 DEF Delete, DeletionPolled, DeletionSeen
  <2> QED
    BY <1>1, <2>1, <2>2, <2>3, <2>4
       DEF Next, Terraform, StartApply, PlanDelete, PlanRefused, ModifyPlan,
           ModifyPlanUnknown, PlanUpdate, CreateRefused, UpdateRefused, Fails,
           AnswerLost, Import, EditConfig, DeletionEnds, Console, vars
<1> QED
  BY <1>1, AlwaysSound, PTL DEF Spec, ForgottenOnlyWhenGone
=============================================================================
