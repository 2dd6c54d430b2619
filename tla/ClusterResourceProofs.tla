------------------------ MODULE ClusterResourceProofs ------------------------
(***************************************************************************)
(* Proofs about ClusterResource, for every set of credentials and IDs,     *)
(* every bound on the trouble, and every kind of cluster.                  *)
(***************************************************************************)
EXTENDS ClusterResource, TLAPS

LEMMA NoResourceType == NoResource \in Resource
BY DEF NoResource, Resource

LEMMA AfterReadType ==
  ASSUME TypeOK, NEW r \in Resource
  PROVE  AfterRead(r) \in Resource
BY DEF TypeOK, AfterRead, Resource, Cluster

LEMMA EndWithType ==
  ASSUME NEW r \in Resource, EndWith(r)
  PROVE  /\ saved' \in Resource
         /\ data' \in Resource
         /\ op' = "none"
         /\ pc' = "idle"
BY NoResourceType DEF EndWith

LEMMA EndWithErrorType ==
  ASSUME TypeOK, NEW r \in Resource, EndWithError(r)
  PROVE  /\ saved' \in Resource
         /\ data' \in Resource
         /\ op' = "none"
         /\ pc' = "idle"
<1>1. [r EXCEPT !.tainted = (op = "create")] \in Resource
  BY DEF Resource
<1> QED BY <1>1, EndWithType DEF EndWithError

LEMMA FailedUpdateType ==
  ASSUME NEW r \in Resource PROVE AfterFailedUpdate(r) \in Resource
BY DEF AfterFailedUpdate, Resource

LEMMA UpdatedType ==
  ASSUME TypeOK, NEW cred \in Creds \cup {NoCred}, NEW id \in Ids
  PROVE  Updated(cred, id) \in Cluster
BY DEF TypeOK, Updated, Cluster

\* While credentials are about to be sent, they are credentials a user may
\* configure, which keeps markers out of requests; and a replacement has a
\* configuration to create the resource from.
SendsConfigured ==
  /\ pc \in {"register", "token", "put", "backoff", "read"}
       => data.cred \in Creds \cup {NoCred}
  /\ op = "replace" => pc = "delete" /\ config # Absent

\* Read and Update work on a resource that has an ID.
HasId ==
  /\ pc \in {"refresh", "plan", "put", "backoff", "read"} => data.there
  /\ pc \in {"plan", "delete"} => saved.there

Typed == TypeOK /\ SendsConfigured /\ HasId

\* Every variable keeps its type, and no marker is ever sent as credentials.
THEOREM Typing == Spec => [](TypeOK /\ SendsConfigured /\ HasId)
<1>1. Init => Typed
  BY TroubleAssumption
  DEF Init, Typed, TypeOK, SendsConfigured, HasId, NoResource, Resource,
      Unregistered, Cluster, Configurable
<1>2. Typed /\ [Next]_vars => Typed'
  <2> SUFFICES ASSUME TypeOK, SendsConfigured, HasId, [Next]_vars
               PROVE  Typed'
    BY DEF Typed
  <2> USE DEF SendsConfigured, HasId
  <2>a. Trouble => trouble' \in 0..MaxTrouble
    BY TroubleAssumption DEF Trouble, TypeOK
  <2>b. NoTrouble => trouble' \in 0..MaxTrouble
    BY DEF NoTrouble, TypeOK
  <2>c. FreshIds \subseteq Ids BY DEF FreshIds
  <2>d. saved \in Resource /\ data \in Resource /\ remote \in Cluster
    BY DEF TypeOK
  <2>1. CASE StartCreate
    BY <2>1, <2>b DEF StartCreate, NoResource, Resource, Typed, TypeOK
  <2>2. CASE StartRefresh BY <2>2, <2>b DEF StartRefresh, Typed, TypeOK
  <2>3. CASE Refresh
    <3>1. AfterRead(data) \in Resource BY <2>d, AfterReadType
    <3>2. AfterRead(data).there = data.there BY <2>d DEF AfterRead, Resource
    <3> QED BY <2>3, <2>b, <3>1, <3>2 DEF Refresh, Typed, TypeOK
  <2>4. CASE PlanDelete BY <2>4, <2>b DEF PlanDelete, Typed, TypeOK
  <2>5. CASE PlanUpdate
    <3>1. config \in Creds \cup {NoCred} BY <2>5 DEF PlanUpdate, TypeOK
    <3> QED BY <2>5, <2>b, <3>1 DEF PlanUpdate, Resource, Typed, TypeOK
  <2>6. CASE Register
    <3>1. Registered \in Cluster
      BY <2>d DEF Registered, Unregistered, Cluster
    <3> QED BY <2>6, <2>b, <3>1 DEF Register, Typed, TypeOK
  <2>7. CASE CreateToken
    BY <2>7, <2>b DEF CreateToken, Resource, Typed, TypeOK
  <2>8. CASE PutSucceeds
    <3>1. PICK id \in FreshIds :
            /\ remote' = Updated(data.cred, id)
            /\ data' = [data EXCEPT !.credId = Updated(data.cred, id).credId]
      BY <2>8 DEF PutSucceeds, AfterUpdate
    <3>2. Updated(data.cred, id) \in Cluster
      BY <2>8, <2>c, UpdatedType DEF PutSucceeds
    <3>3. data' \in Resource
      BY <2>d, <3>1, <3>2 DEF Resource, Cluster
    <3>4. data'.cred = data.cred /\ data'.there = data.there
      BY <2>d, <3>1 DEF Resource
    <3> QED
      BY <2>8, <2>b, <3>1, <3>2, <3>3, <3>4 DEF PutSucceeds, Typed, TypeOK
  <2>9. CASE PutAnswerLost
    <3>1. PICK id \in FreshIds : remote' = Updated(data.cred, id)
      BY <2>9 DEF PutAnswerLost
    <3>2. Updated(data.cred, id) \in Cluster
      BY <2>9, <2>c, UpdatedType DEF PutAnswerLost
    <3> QED BY <2>9, <2>a, <3>1, <3>2 DEF PutAnswerLost, Typed, TypeOK
  <2>10. CASE PutDelayed BY <2>10, <2>a DEF PutDelayed, Typed, TypeOK
  <2>11. CASE PutFails \/ PutGone \/ RetryPut
    BY <2>11, <2>a, <2>b DEF PutFails, PutGone, RetryPut, Typed, TypeOK
  <2>12. CASE PutRejected \/ GiveUp
    <3>1. EndWithError(AfterFailedUpdate(data))
      BY <2>12 DEF PutRejected, GiveUp
    <3> QED
      BY <2>12, <2>a, <2>b, <2>d, <3>1, EndWithErrorType, FailedUpdateType
      DEF PutRejected, GiveUp, Typed, TypeOK
  <2>13. CASE FinalRead
    BY <2>13, <2>b, <2>d, AfterReadType, EndWithType
    DEF FinalRead, Typed, TypeOK
  <2>14. CASE FinalReadFails
    BY <2>14, <2>a, <2>d, EndWithErrorType DEF FinalReadFails, Typed, TypeOK
  <2>15. CASE RefreshGone \/ FinalReadGone
    BY <2>15, <2>b, NoResourceType, EndWithType
    DEF RefreshGone, FinalReadGone, Typed, TypeOK
  <2>16. CASE PlanNothing \/ TokenGone \/ Panic
    BY <2>16, <2>b, <2>d, EndWithType
    DEF PlanNothing, TokenGone, Panic, Typed, TypeOK
  <2>17. CASE RefreshFails \/ TokenFails \/ DeleteFails \/ Crash
    BY <2>17, <2>a, <2>d, EndWithType
    DEF RefreshFails, TokenFails, DeleteFails, Crash, Typed, TypeOK
  <2>18. CASE RegisterFails
    <3>1. Registered \in Cluster
      BY <2>d DEF Registered, Unregistered, Cluster
    <3> QED
      BY <2>18, <2>a, <2>d, <3>1, EndWithType
      DEF RegisterFails, Typed, TypeOK
  <2>19. CASE DeleteArchives
    BY <2>19, <2>b
    DEF DeleteArchives, runVars, Unregistered, Cluster, Typed, TypeOK
  <2>20. CASE DeleteSucceeds
    <3>1. CASE op = "replace"
      <4>1. config \in Creds \cup {NoCred}
        BY <3>1 DEF TypeOK
      <4> QED
        BY <2>20, <2>b, <3>1, <4>1, NoResourceType
        DEF DeleteSucceeds, NoResource, Resource, Typed, TypeOK
    <3>2. CASE op # "replace"
      BY <2>20, <2>b, <3>2, NoResourceType DEF DeleteSucceeds, Typed, TypeOK
    <3> QED BY <3>1, <3>2
  <2>21. CASE EditConfig
    BY <2>21, <2>a DEF EditConfig, Configurable, runVars, Typed, TypeOK
  <2>22. CASE CredentialsReset
    <3>1. remote' \in Cluster
      BY <2>22, <2>c, <2>d DEF CredentialsReset, Cluster
    <3> QED
      BY <2>22, <2>a, <3>1 DEF CredentialsReset, runVars, Typed, TypeOK
  <2>23. CASE ConsoleArchives
    BY <2>23, <2>a
    DEF ConsoleArchives, runVars, Unregistered, Cluster, Typed, TypeOK
  <2>24. CASE LateUpdate
    <3>1. PICK cred \in inFlight, id \in FreshIds :
            /\ remote' = Updated(cred, id)
            /\ inFlight' = inFlight \ {cred}
      BY <2>24 DEF LateUpdate
    <3>2. Updated(cred, id) \in Cluster
      BY <2>c, UpdatedType DEF TypeOK
    <3> QED
      BY <2>24, <2>b, <3>1, <3>2 DEF LateUpdate, runVars, Typed, TypeOK
  <2>25. CASE UNCHANGED vars BY <2>25 DEF vars, runVars, Typed, TypeOK
  <2> QED
    BY <2>1, <2>2, <2>3, <2>4, <2>5, <2>6, <2>7, <2>8, <2>9, <2>10, <2>11,
       <2>12, <2>13, <2>14, <2>15, <2>16, <2>17, <2>18, <2>19, <2>20, <2>21,
       <2>22, <2>23, <2>24, <2>25
    DEF Next, Run, Faults, Outside
<1> QED BY <1>1, <1>2, PTL DEF Spec, Typed

-----------------------------------------------------------------------------
(* No silent drift.  The invariant is not inductive by itself: it has to   *)
(* speak of the resource an operation is working on as well, and to know   *)
(* that an empty ID never stands for credentials where it is not left out. *)

\* What r shows is either not current in CAST AI or true of it, as far as there
\* is an ID to tell.
Honest(r) ==
  remote.live /\ r.cred \in Creds /\ r.credId = remote.credId /\ ~IdOmitted
    => remote.cred = r.cred

\* Credentials come with an ID that some update generated.
Named(r) == r.cred \in Creds /\ ~kind.omits => r.credId # NoId

DriftInv ==
  /\ Honest(saved) /\ Named(saved)
  /\ Named(remote)
  /\ pc \in {"refresh", "plan"} => data = saved
  /\ pc = "read" => Honest(data) /\ Named(data)

\* Read preserves both, and leaves what it read current.
LEMMA AfterReadHonest ==
  ASSUME Typed, NEW r \in Resource, Honest(r), Named(r), Named(remote),
         remote.live, ~ReadPanics
  PROVE  Honest(AfterRead(r)) /\ Named(AfterRead(r))
<1>1. AfterRead(r).credId = remote.credId
  BY DEF AfterRead, Resource
<1>2. CASE IdOmitted
  BY <1>2 DEF IdOmitted, Honest, Named
<1>3. CASE ~IdOmitted /\ remote.credId # r.credId
  <2>1. AfterRead(r).cred = Forced BY <1>3 DEF AfterRead, Resource
  <2> QED BY <2>1, CredsAssumption DEF Honest, Named
<1>4. CASE ~IdOmitted /\ remote.credId = r.credId /\ kind.cloud = "eks"
  <2>1. AfterRead(r).cred = remote.cred BY <1>4 DEF AfterRead, Resource
  <2> QED BY <1>1, <2>1 DEF Honest, Named
<1>5. CASE ~IdOmitted /\ remote.credId = r.credId /\ kind.cloud # "eks"
  <2>1. AfterRead(r).cred = r.cred BY <1>5 DEF AfterRead, Resource
  <2> QED BY <1>1, <1>5, <2>1 DEF Honest, Named
<1> QED BY <1>2, <1>3, <1>4, <1>5

LEMMA NoResourceHonest == Honest(NoResource) /\ Named(NoResource)
BY CredsAssumption DEF Honest, Named, NoResource

\* The tainted mark says nothing about credentials.
LEMMA EndWithErrorHonest ==
  ASSUME NEW r \in Resource, Honest(r), Named(r), EndWithError(r),
         UNCHANGED <<kind, remote>>, Named(remote)
  PROVE  DriftInv'
<1>1. /\ saved'.cred = r.cred
      /\ saved'.credId = r.credId
  BY DEF EndWithError, EndWith, Resource
<1>2. pc' = "idle" BY DEF EndWithError, EndWith
<1> QED BY <1>1, <1>2 DEF DriftInv, Honest, Named, IdOmitted

LEMMA EndWithHonest ==
  ASSUME NEW r \in Resource, Honest(r), Named(r), EndWith(r),
         UNCHANGED <<kind, remote>>, Named(remote)
  PROVE  DriftInv'
BY DEF EndWith, DriftInv, Honest, Named, IdOmitted

\* CAST AI never returns the sentinel.
LEMMA SentinelHonest ==
  ASSUME Typed, NEW r \in Resource
  PROVE  Honest(AfterFailedUpdate(r)) /\ Named(AfterFailedUpdate(r))
<1>1. AfterFailedUpdate(r).credId = Sentinel
  BY DEF AfterFailedUpdate, Resource
<1>2. remote.credId # Sentinel
  BY IdsAssumption DEF Typed, TypeOK, Cluster, NoId, Sentinel
<1> QED BY <1>1, <1>2 DEF Honest, Named, NoId, Sentinel

\* A fresh ID is not in the saved resource, so an update that the running
\* operation does not hear of is seen as drift.
LEMMA FreshUpdateHonest ==
  ASSUME Typed, DriftInv, NEW cred \in Creds \cup {NoCred},
         NEW id \in FreshIds, remote' = Updated(cred, id), UNCHANGED kind
  PROVE  /\ UNCHANGED saved => Honest(saved)'
         /\ UNCHANGED data /\ Honest(data) => Honest(data)'
         /\ Named(remote)'
<1>1. id # NoId /\ id # saved.credId /\ id # data.credId
  BY IdsAssumption DEF FreshIds
<1>2. CASE cred = NoCred
  BY <1>2 DEF Updated, DriftInv, Honest, Named, IdOmitted
<1>3. CASE cred # NoCred
  <2>1. remote'.credId = id /\ remote'.cred = cred /\ remote'.live = remote.live
    BY <1>3 DEF Updated, Typed, TypeOK, Cluster
  <2> QED BY <1>1, <2>1 DEF Honest, Named
<1> QED BY <1>2, <1>3

LEMMA UnregisteredHonest ==
  ASSUME remote' = Unregistered
  PROVE  /\ Named(remote)'
         /\ Honest(saved)' /\ Honest(data)'
BY CredsAssumption DEF Unregistered, Honest, Named

\* A new registration has no credentials and the empty ID.
LEMMA RegisteredHonest ==
  ASSUME Typed, DriftInv, remote' \in {remote, Registered},
         UNCHANGED <<kind, saved>>
  PROVE  Honest(saved)' /\ Named(saved)' /\ Named(remote)'
<1>1. CASE remote' = remote
  BY <1>1 DEF DriftInv, Honest, Named, IdOmitted
<1>2. CASE remote' # remote
  <2>1. remote' = [Unregistered EXCEPT !.live = TRUE]
    BY <1>2 DEF Registered
  <2>2. remote'.cred = NoCred /\ remote'.credId = NoId
    BY <2>1 DEF Unregistered
  <2> QED
    BY <2>2, CredsAssumption
    DEF Typed, TypeOK, Kind, DriftInv, Honest, Named, IdOmitted
<1> QED BY <1>1, <1>2

\* A cluster stays of the kind it is.
LEMMA KindStep == ASSUME [Next]_vars PROVE UNCHANGED kind
BY DEF Next, Run, Faults, Outside, vars, StartCreate, StartRefresh, Refresh,
       RefreshGone, Panic, PlanDelete, PlanUpdate, PlanNothing, Register,
       CreateToken, PutSucceeds, PutGone, RetryPut, GiveUp, FinalRead,
       FinalReadGone, DeleteArchives, DeleteSucceeds, TokenGone, PutRejected,
       PutFails, PutAnswerLost, PutDelayed, FinalReadFails, DeleteFails,
       RefreshFails, RegisterFails, TokenFails, Crash, EditConfig,
       CredentialsReset, ConsoleArchives, LateUpdate

LEMMA DriftStep == ASSUME Typed, DriftInv, [Next]_vars PROVE DriftInv'
<1> USE DEF NoTrouble
<1>a. saved \in Resource /\ data \in Resource /\ remote \in Cluster
  BY DEF Typed, TypeOK
<1>b. Honest(saved) /\ Named(saved) /\ Named(remote) BY DEF DriftInv
<1>k. UNCHANGED kind BY KindStep
<1>1. CASE StartCreate \/ StartRefresh
  BY <1>1, <1>k
  DEF StartCreate, StartRefresh, DriftInv, Honest, Named, IdOmitted
<1>2. CASE Refresh
  <2>1. data = saved BY <1>2 DEF Refresh, DriftInv
  <2>2. Honest(AfterRead(data)) /\ Named(AfterRead(data))
    BY <1>2, <1>k, <1>a, <1>b, <2>1, AfterReadHonest DEF Refresh
  <2> QED BY <1>2, <1>k, <2>2 DEF Refresh, DriftInv, Honest, Named, IdOmitted
<1>3. CASE PlanDelete \/ PlanUpdate \/ PutFails \/ PutGone \/ RetryPut
           \/ PutDelayed
  BY <1>3, <1>k
  DEF PlanDelete, PlanUpdate, PutFails, PutGone, RetryPut, PutDelayed,
      DriftInv, Honest, Named, IdOmitted
<1>4. CASE Register
  BY <1>4, <1>k, RegisteredHonest DEF Register, DriftInv
<1>5. CASE CreateToken
  <2>1. data'.cred = data.cred BY <1>5, <1>a DEF CreateToken, Resource
  <2> QED
    BY <1>5, <1>k, <2>1, CredsAssumption
    DEF CreateToken, DriftInv, Honest, Named, IdOmitted
<1>6. CASE PutSucceeds
  <2>1. PICK id \in FreshIds :
          /\ remote' = Updated(data.cred, id)
          /\ data' = [data EXCEPT !.credId = Updated(data.cred, id).credId]
    BY <1>6 DEF PutSucceeds, AfterUpdate
  <2>2. data.cred \in Creds \cup {NoCred}
    BY <1>6 DEF PutSucceeds, Typed, SendsConfigured
  <2>3. Honest(saved)' /\ Named(remote)'
    BY <1>6, <1>k, <2>1, <2>2, FreshUpdateHonest DEF PutSucceeds
  <2>4. data'.cred = data.cred /\ data'.credId = remote'.credId
    BY <1>a, <2>1 DEF Resource
  <2>5. data.cred \in Creds => remote'.cred = data.cred
    BY <1>a, <1>k, <2>1, CredsAssumption DEF Updated, Cluster
  <2>6. Honest(data)' /\ Named(data)'
    BY <2>3, <2>4, <2>5 DEF Honest, Named, IdOmitted
  <2> QED
    BY <1>6, <1>k, <2>3, <2>6 DEF PutSucceeds, DriftInv, Named
<1>7. CASE PutAnswerLost
  <2>1. data.cred \in Creds \cup {NoCred}
    BY <1>7 DEF PutAnswerLost, Typed, SendsConfigured
  <2>2. Honest(saved)' /\ Named(remote)'
    BY <1>7, <1>k, <2>1, FreshUpdateHonest DEF PutAnswerLost
  <2> QED BY <1>7, <1>k, <2>2 DEF PutAnswerLost, DriftInv, Named
<1>8. CASE PutRejected \/ GiveUp
  BY <1>8, <1>k, <1>a, <1>b, SentinelHonest, FailedUpdateType,
     EndWithErrorHonest
  DEF PutRejected, GiveUp
<1>9. CASE FinalRead
  BY <1>9, <1>k, <1>a, <1>b, AfterReadHonest, AfterReadType, EndWithHonest
  DEF FinalRead, DriftInv, Typed
<1>10. CASE FinalReadFails
  BY <1>10, <1>k, <1>a, <1>b, EndWithErrorHonest DEF FinalReadFails, DriftInv
<1>11. CASE RefreshGone \/ FinalReadGone
  BY <1>11, <1>k, <1>b, NoResourceHonest, NoResourceType, EndWithHonest
  DEF RefreshGone, FinalReadGone
<1>12. CASE PlanNothing \/ TokenGone \/ Panic \/ RefreshFails \/ TokenFails
            \/ DeleteFails \/ Crash
  BY <1>12, <1>k, <1>a, <1>b, EndWithHonest
  DEF PlanNothing, TokenGone, Panic, RefreshFails, TokenFails, DeleteFails,
      Crash
<1>13. CASE RegisterFails
  <2>1. saved' = saved /\ pc' = "idle" BY <1>13, <1>k DEF RegisterFails, EndWith
  <2>2. Honest(saved)' /\ Named(saved)' /\ Named(remote)'
    BY <1>13, <1>k, <2>1, RegisteredHonest DEF RegisterFails
  <2> QED BY <2>1, <2>2 DEF DriftInv
<1>14. CASE DeleteArchives \/ ConsoleArchives
  <2>1. UNCHANGED runVars /\ remote' = Unregistered
    BY <1>14 DEF DeleteArchives, ConsoleArchives
  <2>2. Named(remote)' /\ Honest(saved)' /\ Honest(data)'
    BY <2>1, UnregisteredHonest
  <2> QED BY <1>k, <2>1, <2>2 DEF runVars, DriftInv, Named
<1>15. CASE DeleteSucceeds
  BY <1>15, <1>k, NoResourceHonest
  DEF DeleteSucceeds, DriftInv, Honest, Named, IdOmitted
<1>16. CASE EditConfig
  BY <1>16, <1>k DEF EditConfig, runVars, DriftInv, Honest, Named, IdOmitted
<1>17. CASE CredentialsReset
  <2>1. UNCHANGED runVars BY <1>17 DEF CredentialsReset
  <2>2. CASE remote' = [remote EXCEPT !.cred = NoCred, !.credId = NoId]
    <3>1. remote'.cred = NoCred /\ remote'.credId = NoId
      BY <1>a, <2>2 DEF Cluster
    <3> QED
      BY <2>1, <1>k, <3>1, CredsAssumption
      DEF runVars, DriftInv, Honest, Named, IdOmitted
  <2>3. CASE \E id \in FreshIds :
               remote' = [remote EXCEPT !.cred = Foreign, !.credId = id]
    <3>1. remote'.cred = Foreign /\ remote'.credId \in FreshIds
      BY <1>a, <2>3 DEF Cluster
    <3> QED
      BY <2>1, <1>k, <3>1, CredsAssumption
      DEF FreshIds, runVars, DriftInv, Honest, Named, IdOmitted
  <2> QED BY <1>17, <2>2, <2>3 DEF CredentialsReset
<1>18. CASE LateUpdate
  <2>1. PICK cred \in inFlight, id \in FreshIds : remote' = Updated(cred, id)
    BY <1>18 DEF LateUpdate
  <2>2. UNCHANGED runVars /\ cred \in Creds \cup {NoCred}
    BY <1>18 DEF LateUpdate, Typed, TypeOK
  <2>3. /\ Honest(saved)' /\ Named(remote)'
        /\ Honest(data) => Honest(data)'
    BY <1>k, <2>1, <2>2, FreshUpdateHonest DEF runVars
  <2> QED BY <1>k, <2>2, <2>3 DEF runVars, DriftInv, Named
<1>19. CASE UNCHANGED vars
  BY <1>19, <1>k DEF vars, runVars, DriftInv, Honest, Named, IdOmitted
<1> QED
  BY <1>1, <1>2, <1>3, <1>4, <1>5, <1>6, <1>7, <1>8, <1>9, <1>10, <1>11,
     <1>12, <1>13, <1>14, <1>15, <1>16, <1>17, <1>18, <1>19
  DEF Next, Run, Faults, Outside

\* Whatever fails, is lost, arrives late or is reset from outside, a state
\* that shows the current credentials_id shows the credentials CAST AI holds:
\* the sentinel of a failed update and the comparison in Read suffice.
THEOREM SilentDrift == Spec => []NoSilentDrift
<1>1. Init => DriftInv
  BY CredsAssumption
  DEF Init, DriftInv, Honest, Named, NoResource, Unregistered
<1>2. Typed /\ DriftInv /\ [Next]_vars => DriftInv' BY DriftStep
<1>3. DriftInv => NoSilentDrift BY DEF DriftInv, Honest, NoSilentDrift
<1> QED BY <1>1, <1>2, <1>3, Typing, PTL DEF Spec, Typed

-----------------------------------------------------------------------------
(* Leaving the state *)

\* A live cluster's resource never leaves the state.
THEOREM Tracking == Spec => TrackedUntilGone
<1>1. Typed /\ DriftInv /\ [Next]_vars
      => [saved.there /\ ~saved'.there => ~remote.live]_vars
  <2> SUFFICES ASSUME Typed, DriftInv, [Next]_vars, saved.there,
                      ~saved'.there
               PROVE  ~remote.live
    OBVIOUS
  <2>1. saved' # saved OBVIOUS
  <2>2. saved \in Resource /\ data \in Resource BY DEF Typed, TypeOK
  <2>3. CASE RefreshGone \/ FinalReadGone \/ DeleteSucceeds
    BY <2>3 DEF RefreshGone, FinalReadGone, DeleteSucceeds
  <2>4. CASE Refresh
    <3>1. saved'.there = data.there /\ data = saved
      BY <2>2, <2>4 DEF Refresh, AfterRead, Resource, DriftInv
    <3> QED BY <3>1
  <2>5. CASE FinalRead \/ FinalReadFails \/ PutRejected \/ GiveUp
    <3>1. saved'.there = data.there /\ data.there
      BY <2>2, <2>5
      DEF FinalRead, FinalReadFails, PutRejected, GiveUp, EndWith,
          EndWithError, AfterRead, AfterFailedUpdate, Resource, Typed,
          HasId
    <3> QED BY <3>1
  <2> QED
    BY <2>1, <2>3, <2>4, <2>5
    DEF Next, Run, Faults, Outside, vars, runVars, EndWith, StartCreate,
        StartRefresh, PlanDelete, PlanUpdate, PlanNothing, Register,
        CreateToken, PutSucceeds, PutGone, RetryPut, DeleteArchives,
        TokenGone, Panic, PutFails, PutAnswerLost, PutDelayed, DeleteFails,
        RefreshFails, RegisterFails, TokenFails, Crash, EditConfig,
        CredentialsReset, ConsoleArchives, LateUpdate
<1>2. Init => DriftInv
  BY CredsAssumption
  DEF Init, DriftInv, Honest, Named, NoResource, Unregistered
<1>3. Typed /\ DriftInv /\ [Next]_vars => DriftInv' BY DriftStep
<1> QED
  BY <1>1, <1>2, <1>3, Typing, PTL DEF Spec, Typed, TrackedUntilGone

\* Replacing or destroying a resource is a ClusterRemoval run: what
\* ClusterDelete implements is all that the rest of the life relies on.
THEOREM Deletion == Spec => DeleteAsPromised
<1> USE DEF Removal!removalVars, Removal!RemovalNext
<1>1. Typed /\ [Next]_vars
      => [pc = "delete" => Removal!RemovalNext]_(Removal!removalVars)
  <2> SUFFICES ASSUME Typed, [Next]_vars, pc = "delete"
               PROVE  [Removal!RemovalNext]_(Removal!removalVars)
    OBVIOUS
  <2>1. saved.there = TRUE BY DEF Typed, HasId, TypeOK, Resource
  <2>2. CASE DeleteArchives \/ ConsoleArchives
    <3>1. Removal!BackendArchives
      BY <2>2
      DEF DeleteArchives, ConsoleArchives, runVars, Unregistered,
          Removal!BackendArchives
    <3> QED BY <3>1
  <2>3. CASE DeleteSucceeds
    <3>1. saved'.there = FALSE /\ pc' # "delete" /\ UNCHANGED remote
      BY <2>3 DEF DeleteSucceeds, NoResource
    <3>2. Removal!Succeed
      BY <2>3, <3>1 DEF DeleteSucceeds, Removal!Succeed
    <3> QED BY <3>2
  <2>4. CASE DeleteFails \/ Crash
    <3>1. pc' = "idle" /\ UNCHANGED <<saved, remote>>
      BY <2>4 DEF DeleteFails, Crash, EndWith
    <3>2. Removal!Fail BY <2>1, <3>1 DEF Removal!Fail
    <3> QED BY <3>2
  <2>5. CASE CredentialsReset \/ LateUpdate
    <3>1. UNCHANGED <<saved, pc>> /\ remote'.live = remote.live
      BY <2>5
      DEF CredentialsReset, LateUpdate, Updated, runVars, Typed, TypeOK,
          Cluster
    <3> QED BY <3>1
  <2>6. CASE UNCHANGED vars BY <2>6 DEF vars, runVars
  <2> QED
    BY <2>2, <2>3, <2>4, <2>5, <2>6
    DEF Next, Run, Faults, Outside, StartCreate, StartRefresh, Refresh,
        RefreshGone, PlanDelete, PlanUpdate, PlanNothing, Register,
        CreateToken, PutSucceeds, PutGone, RetryPut, GiveUp, FinalRead,
        FinalReadGone, TokenGone, Panic, PutRejected, PutFails, PutAnswerLost,
        PutDelayed, FinalReadFails, RefreshFails, RegisterFails, TokenFails,
        EditConfig
<1> QED BY <1>1, Typing, PTL DEF Spec, Typed, DeleteAsPromised
=============================================================================
