------------------------- MODULE ClusterDeleteProofs -------------------------
(***************************************************************************)
(* Proofs about ClusterDelete, for every bound on the trouble.             *)
(***************************************************************************)
EXTENDS ClusterDelete, TLAPS

\* Every variable keeps its type, whichever step the destroy, the faults or
\* the remote cluster take.
THEOREM Typing == Spec => []TypeOK
<1> USE TroubleAssumption
<1> USE DEF Status, AgentStatus, Calling, Running, Ended
<1>1. Init => TypeOK
  BY DEF Init, TypeOK
<1>2. TypeOK /\ [Next]_vars => TypeOK'
  <2> SUFFICES ASSUME TypeOK, [Next]_vars PROVE TypeOK'
    OBVIOUS
  <2> USE DEF TypeOK, remoteVars
  <2>1. CASE StartDestroy BY <2>1 DEF StartDestroy
  <2>2. CASE Refresh BY <2>2 DEF Refresh, TreatedAsGone
  <2>3. CASE GetAndDecide
    <3>1. Decision \in {"removed", "delete", "wait", "disconnect"}
      BY DEF Decision
    <3> QED BY <3>1, <2>3 DEF GetAndDecide
  <2>4. CASE GetPurged BY <2>4 DEF GetPurged
  <2>5. CASE TriggerDelete BY <2>5 DEF TriggerDelete, DeleteEffect
  <2>6. CASE DeleteRefused BY <2>6 DEF DeleteRefused
  <2>7. CASE TriggerDisconnect
    BY <2>7 DEF TriggerDisconnect, DisconnectEffect
  <2>8. CASE CallPurged BY <2>8 DEF CallPurged
  <2>9. CASE NextRound BY <2>9 DEF NextRound
  <2>10. CASE TimeOut BY <2>10 DEF TimeOut, Trouble
  <2>11. CASE CallFails BY <2>11 DEF CallFails, Trouble
  <2>12. CASE AnswerLost
    <3>1. trouble' \in 0..MaxTrouble
      BY <2>12 DEF AnswerLost, Trouble
    <3> QED BY <3>1, <2>12 DEF AnswerLost, DeleteEffect, DisconnectEffect
  <2>13. CASE AgentLeaves BY <2>13 DEF AgentLeaves
  <2>14. CASE DeletionProgresses BY <2>14 DEF DeletionProgresses
  <2>15. CASE Intervention
    <3>1. trouble' \in 0..MaxTrouble
      BY <2>15 DEF Intervention, Trouble
    <3> QED BY <3>1, <2>15 DEF Intervention, DeleteEffect, DisconnectEffect
  <2>16. CASE UNCHANGED vars BY <2>16 DEF vars
  <2> QED
    BY <2>1, <2>2, <2>3, <2>4, <2>5, <2>6, <2>7, <2>8, <2>9, <2>10, <2>11,
       <2>12, <2>13, <2>14, <2>15, <2>16
    DEF Next, Destroy, Faults, Remote
<1> QED BY <1>1, <1>2, PTL DEF Spec

\* No step of the provider or of CAST AI brings an archived cluster back.
LEMMA GoneIsStable == ASSUME Gone, [Next]_vars PROVE Gone'
<1> USE DEF Gone, remoteVars
<1>1. DeleteEffect => Gone' BY DEF DeleteEffect
<1>2. \A b \in BOOLEAN : DisconnectEffect(b) => Gone'
  BY DEF DisconnectEffect
<1>3. CASE Destroy
  <2>1. CASE TriggerDelete BY <1>1, <2>1 DEF TriggerDelete
  <2>2. CASE TriggerDisconnect
    BY <2>2 DEF TriggerDisconnect, DisconnectEffect
  <2> QED
    BY <1>3, <2>1, <2>2
    DEF Destroy, StartDestroy, Refresh, GetAndDecide, GetPurged, DeleteRefused,
        CallPurged, NextRound
<1>4. CASE Faults
  <2>1. CASE AnswerLost
    BY <1>1, <2>1 DEF AnswerLost, DisconnectEffect
  <2> QED BY <1>4, <2>1 DEF Faults, TimeOut, CallFails
<1>5. CASE Remote BY <1>5 DEF Remote, AgentLeaves, DeletionProgresses
<1>6. CASE Intervention BY <1>1, <1>2, <1>6 DEF Intervention
<1>7. CASE UNCHANGED vars BY <1>7 DEF vars
<1> QED BY <1>3, <1>4, <1>5, <1>6, <1>7 DEF Next

\* A resource that leaves the state was seen archived or missing in the very
\* step that clears its ID, and such a cluster stays gone.
THEOREM Forgetting == Spec => []ForgottenOnlyWhenGone
<1>1. Init => ForgottenOnlyWhenGone
  BY DEF Init, ForgottenOnlyWhenGone
<1>2. ForgottenOnlyWhenGone /\ [Next]_vars => ForgottenOnlyWhenGone'
  <2> SUFFICES ASSUME ForgottenOnlyWhenGone, [Next]_vars, ~tracked'
               PROVE  Gone'
    BY DEF ForgottenOnlyWhenGone
  <2>1. CASE ~tracked
    BY <2>1, GoneIsStable DEF ForgottenOnlyWhenGone
  <2>2. CASE tracked
    <3>1. Refresh \/ GetAndDecide
      BY <2>2
      DEF Next, Destroy, Faults, Remote, Intervention, vars, StartDestroy,
          GetPurged, TriggerDelete, DeleteRefused, TriggerDisconnect,
          CallPurged, NextRound, TimeOut, CallFails, AnswerLost, AgentLeaves,
          DeletionProgresses
    <3>2. CASE Refresh
      BY <3>2 DEF Refresh, TreatedAsGone, Gone, remoteVars
    <3>3. CASE GetAndDecide
      <4>1. Decision = "removed" BY <3>3 DEF GetAndDecide
      <4>2. status = "archived" BY <4>1 DEF Decision
      <4> QED BY <3>3, <4>2 DEF GetAndDecide, Gone, remoteVars
    <3> QED BY <3>1, <3>2, <3>3
  <2> QED BY <2>1, <2>2
<1> QED BY <1>1, <1>2, PTL DEF Spec

\* Nodes are only doomed by a disconnect that carries the saved flag, and a
\* destroy never changes the flag.
THEOREM NodesKept == Spec => []NodesKeptUnlessAsked
<1>1. Init => NodesKeptUnlessAsked
  BY DEF Init, NodesKeptUnlessAsked
<1>2. NodesKeptUnlessAsked /\ [Next]_vars => NodesKeptUnlessAsked'
  <2> SUFFICES ASSUME NodesKeptUnlessAsked, [Next]_vars
               PROVE  NodesKeptUnlessAsked'
    OBVIOUS
  <2>1. /\ UNCHANGED deleteNodes
        /\ \/ UNCHANGED nodes
           \/ nodes' = "removed" /\ nodes = "doomed"
           \/ nodes' = "doomed" /\ deleteNodes
    <3> USE DEF remoteVars
    <3>1. CASE Destroy
      <4>1. CASE TriggerDisconnect
        BY <4>1 DEF TriggerDisconnect, DisconnectEffect
      <4> QED
        BY <3>1, <4>1
        DEF Destroy, StartDestroy, Refresh, GetAndDecide, GetPurged,
            TriggerDelete, DeleteEffect, DeleteRefused, CallPurged, NextRound
    <3>2. CASE Faults
      BY <3>2
      DEF Faults, TimeOut, CallFails, AnswerLost, DeleteEffect,
          DisconnectEffect
    <3>3. CASE Remote BY <3>3 DEF Remote, AgentLeaves, DeletionProgresses
    <3>4. CASE Intervention
      BY <3>4 DEF Intervention, DeleteEffect, DisconnectEffect
    <3>5. CASE UNCHANGED vars BY <3>5 DEF vars
    <3> QED BY <3>1, <3>2, <3>3, <3>4, <3>5 DEF Next
  <2> QED BY <2>1 DEF NodesKeptUnlessAsked
<1> QED BY <1>1, <1>2, PTL DEF Spec

-----------------------------------------------------------------------------
(* ClusterDelete implements ClusterRemoval: what a step does to the three  *)
(* abstract variables, one lemma per kind of step.                         *)

\* The three variables of the abstract specification do not move.
LEMMA StutterMaps ==
  ASSUME UNCHANGED vars PROVE UNCHANGED Removal!removalVars
BY DEF vars, remoteVars, Removal!removalVars, Gone, Outcome, Running, Ended,
       Calling

\* A resource is tracked until the run that removes it.
TrackedUntilRemoved == pc # "removed" => tracked

LEMMA Tracking == Spec => []TrackedUntilRemoved
<1>1. Init => TrackedUntilRemoved
  BY DEF Init, TrackedUntilRemoved
<1>2. TypeOK /\ TrackedUntilRemoved /\ [Next]_vars => TrackedUntilRemoved'
  <2> SUFFICES ASSUME TypeOK, TrackedUntilRemoved, [Next]_vars
               PROVE  TrackedUntilRemoved'
    OBVIOUS
  <2> USE DEF TrackedUntilRemoved
  <2>1. CASE Refresh BY <2>1 DEF Refresh
  <2>2. CASE GetAndDecide BY <2>2 DEF GetAndDecide
  <2>3. CASE UNCHANGED <<tracked, pc>> BY <2>3
  <2>4. CASE Destroy
    BY <2>1, <2>2, <2>4
    DEF Destroy, StartDestroy, GetPurged, TriggerDelete, DeleteRefused,
        TriggerDisconnect, CallPurged, NextRound
  <2>5. CASE Faults
    BY <2>5 DEF Faults, TimeOut, CallFails, AnswerLost, Calling
  <2> QED
    BY <2>3, <2>4, <2>5
    DEF Next, Remote, AgentLeaves, DeletionProgresses, Intervention, vars
<1> QED BY <1>1, <1>2, Typing, PTL DEF Spec

\* A step from one running point to another, or within the cluster, changes
\* the abstract state only if it archives the cluster.
LEMMA ArchivingMaps ==
  ASSUME UNCHANGED <<tracked, Outcome>>, Gone => Gone'
  PROVE  [Removal!RemovalNext]_(Removal!removalVars)
BY DEF Removal!RemovalNext, Removal!BackendArchives, Removal!removalVars, Gone

\* A step that ends a run with an error.
LEMMA FailureMaps ==
  ASSUME pc \in Running, pc' \in Ended, UNCHANGED tracked, Gone => Gone'
  PROVE  [Removal!RemovalNext]_(Removal!removalVars)
<1>1. Outcome = "running" BY DEF Outcome
<1>2. Outcome' = "failed" BY DEF Outcome, Running, Ended, Calling
<1>3. Gone' \in BOOLEAN BY DEF Gone
<1>4. Removal!Fail BY <1>1, <1>2, <1>3 DEF Removal!Fail
<1> QED BY <1>4 DEF Removal!RemovalNext

\* Every step of a destroy that gets its answers begins, continues or
\* completes an abstract run.
LEMMA DestroyMaps ==
  ASSUME TypeOK, TrackedUntilRemoved, Destroy
  PROVE  [Removal!RemovalNext]_(Removal!removalVars)
<1> USE DEF Outcome, Running, Ended, Calling
<1>0. Gone => Gone' BY GoneIsStable DEF Next
<1>1. CASE StartDestroy
  <2>1. Removal!Begin
    BY <1>1 DEF StartDestroy, Removal!Begin, Gone, remoteVars
  <2> QED BY <2>1 DEF Removal!RemovalNext
<1>2. CASE Refresh
  <2>1. UNCHANGED Gone /\ tracked = TRUE
    BY <1>2 DEF Refresh, Gone, remoteVars, TypeOK, TrackedUntilRemoved
  <2>2. CASE Gone
    <3>1. Removal!Succeed
      BY <1>2, <2>1, <2>2 DEF Refresh, TreatedAsGone, Gone, Removal!Succeed
    <3> QED BY <3>1 DEF Removal!RemovalNext
  <2>3. CASE ~Gone
    <3>1. UNCHANGED <<tracked, Outcome>>
      BY <1>2, <2>1, <2>3 DEF Refresh, TreatedAsGone, Gone
    <3> QED BY <3>1, <2>3, ArchivingMaps
  <2> QED BY <2>2, <2>3
<1>3. CASE GetAndDecide
  <2>1. UNCHANGED Gone /\ tracked = TRUE
    BY <1>3 DEF GetAndDecide, Gone, remoteVars, TypeOK, TrackedUntilRemoved
  <2>2. CASE Decision = "removed"
    <3>1. Gone BY <2>2 DEF Decision, Gone
    <3>2. Removal!Succeed
      BY <1>3, <2>1, <2>2, <3>1 DEF GetAndDecide, Removal!Succeed
    <3> QED BY <3>2 DEF Removal!RemovalNext
  <2>3. CASE Decision # "removed"
    <3>1. Decision \in {"wait", "delete", "disconnect"}
      BY <2>3 DEF Decision
    <3>2. UNCHANGED <<tracked, Outcome>>
      BY <1>3, <2>1, <2>3, <3>1 DEF GetAndDecide
    <3> QED BY <1>0, <3>2, ArchivingMaps
  <2> QED BY <2>2, <2>3
<1>4. CASE GetPurged
  BY <1>0, <1>4, FailureMaps DEF GetPurged
<1>5. CASE TriggerDelete
  BY <1>0, <1>5, ArchivingMaps DEF TriggerDelete
<1>6. CASE DeleteRefused
  BY <1>0, <1>6, ArchivingMaps DEF DeleteRefused
<1>7. CASE TriggerDisconnect
  BY <1>0, <1>7, ArchivingMaps DEF TriggerDisconnect
<1>8. CASE CallPurged
  BY <1>0, <1>8, FailureMaps DEF CallPurged
<1>9. CASE NextRound
  BY <1>0, <1>9, ArchivingMaps DEF NextRound
<1> QED
  BY <1>1, <1>2, <1>3, <1>4, <1>5, <1>6, <1>7, <1>8, <1>9 DEF Destroy

\* The loop in resourceCastaiClusterDelete implements ClusterRemoval: from
\* the outside, a destroy fails with the resource still tracked, or removes
\* it once the cluster is gone.
THEOREM Implementation == Spec => ImplementsRemoval
<1>1. Init => Removal!RemovalInit
  BY DEF Init, Removal!RemovalInit, Outcome, Running, Ended, Calling, Gone
<1>2. /\ TypeOK
      /\ TrackedUntilRemoved
      /\ [Next]_vars
      => [Removal!RemovalNext]_(Removal!removalVars)
  <2> SUFFICES ASSUME TypeOK, TrackedUntilRemoved, [Next]_vars
               PROVE  [Removal!RemovalNext]_(Removal!removalVars)
    OBVIOUS
  <2>0. Gone => Gone' BY GoneIsStable
  <2>1. CASE Destroy BY <2>1, DestroyMaps
  <2>2. CASE Faults
    <3>1. pc \in Running /\ pc' \in Ended /\ UNCHANGED tracked
      BY <2>2
      DEF Faults, TimeOut, CallFails, AnswerLost, Running, Ended, Calling
    <3> QED BY <2>0, <3>1, FailureMaps
  <2>3. CASE Remote \/ Intervention
    <3>1. UNCHANGED <<tracked, pc>>
      BY <2>3 DEF Remote, AgentLeaves, DeletionProgresses, Intervention
    <3>2. UNCHANGED <<tracked, Outcome>> BY <3>1 DEF Outcome
    <3> QED BY <2>0, <3>2, ArchivingMaps
  <2>4. CASE UNCHANGED vars BY <2>4, StutterMaps
  <2> QED BY <2>1, <2>2, <2>3, <2>4 DEF Next
<1> QED
  BY <1>1, <1>2, Typing, Tracking, PTL
  DEF Spec, ImplementsRemoval, Removal!RemovalSpec
=============================================================================
