--------------------------- MODULE ClusterResource ---------------------------
(***************************************************************************)
(* The life of a castai_eks_cluster, castai_gke_cluster or                 *)
(* castai_aks_cluster resource: Terraform runs (refresh, plan, apply) that *)
(* call the provider's Create, Read, Update and Delete, and the            *)
(* credentials CAST AI holds for the cluster.                              *)
(*                                                                         *)
(* The credentials themselves cannot be read back for GKE and AKS.  What   *)
(* can be read is credentials_id, which changes with every update, and the *)
(* provider detects drift by comparing it with the one in the state.       *)
(*                                                                         *)
(* Delete is the abstract ClusterRemoval that ClusterDelete implements.    *)
(* The remote cluster and Terraform core are external.                     *)
(***************************************************************************)
EXTENDS Naturals

CONSTANTS
  Creds,       \* credentials a user may configure (a role ARN, a JSON key...)
  Ids,         \* credential IDs that CAST AI generates
  MaxTrouble   \* bound on faults, crashes, edits and outside interventions

NoCred == "no credentials"
Forced == "credentials-drift-detected-force-apply"
Foreign == "foreign credentials"
Absent == "no resource block"
NoId == ""
Sentinel == "drift-protection-failed-update"

ASSUME CredsAssumption == Creds \cap {NoCred, Forced, Foreign, Absent} = {}
ASSUME IdsAssumption == Ids \cap {NoId, Sentinel} = {}
ASSUME TroubleAssumption == MaxTrouble \in Nat

VARIABLES
  kind,      \* the cloud, and how CAST AI answers where it has no credentials
  config,    \* the configuration: credentials, none, or no resource at all
  saved,     \* the resource in the Terraform state file
  data,      \* the ResourceData of the operation under way
  op,        \* what the run is doing with the resource
  pc,        \* where the run is
  remote,    \* the cluster in CAST AI
  inFlight,  \* credentials of update requests given up but still on their way
  trouble    \* how much trouble is still to come

runVars == <<saved, data, op, pc>>
vars == <<kind, config, runVars, remote, inFlight, trouble>>

-----------------------------------------------------------------------------
(* State *)

\* A cluster without credentials has no credentials_id: CAST AI may show an
\* empty one or leave it out of the answer.
Kind == [cloud: {"eks", "gke", "aks"}, omits: BOOLEAN]

\* What the schema lets a user configure: AKS requires credentials.
Configurable == IF kind.cloud = "aks" THEN Creds ELSE Creds \cup {NoCred}

\* "there" is a non-empty resource ID.
Resource == [there   : BOOLEAN,
             cred    : Creds \cup {NoCred, Forced, Foreign},
             credId  : Ids \cup {NoId, Sentinel},
             tainted : BOOLEAN]

NoResource ==
  [there |-> FALSE, cred |-> NoCred, credId |-> NoId, tainted |-> FALSE]

Cluster == [live   : BOOLEAN,
            cred   : Creds \cup {NoCred, Foreign},
            credId : Ids \cup {NoId}]

Unregistered == [live |-> FALSE, cred |-> NoCred, credId |-> NoId]

TypeOK ==
  /\ kind \in Kind
  /\ config \in Creds \cup {NoCred, Absent}
  /\ saved \in Resource
  /\ data \in Resource
  /\ op \in {"none", "refresh", "create", "update", "replace", "destroy"}
  /\ pc \in {"idle", "refresh", "plan", "register", "token", "put", "backoff",
             "read", "delete"}
  /\ remote \in Cluster
  /\ inFlight \subseteq Creds \cup {NoCred}
  /\ trouble \in 0..MaxTrouble

Init ==
  /\ kind \in Kind
  /\ config \in Configurable
  /\ saved = NoResource
  /\ data = NoResource
  /\ op = "none"
  /\ pc = "idle"
  /\ remote = Unregistered
  /\ inFlight = {}
  /\ trouble = MaxTrouble

Trouble ==
  /\ trouble > 0
  /\ trouble' = trouble - 1

NoTrouble == UNCHANGED trouble

\* A generated ID differs from every one that anything still remembers.
FreshIds == Ids \ {saved.credId, data.credId, remote.credId}

\* The operation ends and Terraform writes the resource to the state.
EndWith(resource) ==
  /\ saved' = resource
  /\ data' = NoResource
  /\ op' = "none"
  /\ pc' = "idle"

\* An error after SetId in Create leaves a tainted resource behind.
EndWithError(resource) ==
  EndWith([resource EXCEPT !.tainted = (op = "create")])

-----------------------------------------------------------------------------
(* Refresh and plan *)

\* Nothing in the state: the plan is to create the resource.
StartCreate ==
  /\ pc = "idle"
  /\ ~saved.there
  /\ config # Absent
  /\ pc' = "register"
  /\ op' = "create"
  /\ data' = [NoResource EXCEPT !.cred = config]
  /\ NoTrouble
  /\ UNCHANGED <<kind, config, saved, remote, inFlight>>

StartRefresh ==
  /\ pc = "idle"
  /\ saved.there
  /\ pc' = "refresh"
  /\ op' = "refresh"
  /\ data' = saved
  /\ NoTrouble
  /\ UNCHANGED <<kind, config, saved, remote, inFlight>>

\* The answer has no credentials_id.
IdOmitted == kind.omits /\ remote.credId = NoId

\* The Reads of EKS and AKS look for drift only where there is an ID, but then
\* save the ID there is not.
ReadPanics == IdOmitted /\ kind.cloud # "gke"

\* What Read makes of the resource, given an answer for a live cluster.  A
\* different ID means that CAST AI does not hold the credentials Terraform
\* applied last: the marker forces the next plan to apply them again.  No ID is
\* no drift, and is saved as an empty one.  For EKS the answer has the
\* credentials themselves, the role ARN.
AfterRead(resource) ==
  [resource EXCEPT
     !.cred = IF ~IdOmitted /\ remote.credId # resource.credId THEN Forced
              ELSE IF kind.cloud = "eks" THEN remote.cred ELSE @,
     !.credId = remote.credId]

Refresh ==
  /\ pc = "refresh"
  /\ remote.live
  /\ ~ReadPanics
  /\ saved' = AfterRead(data)
  /\ data' = AfterRead(data)
  /\ pc' = "plan"
  /\ NoTrouble
  /\ UNCHANGED <<kind, config, op, remote, inFlight>>

\* fetchClusterData: archived or not found.
RefreshGone ==
  /\ pc = "refresh"
  /\ ~remote.live
  /\ EndWith(NoResource)
  /\ NoTrouble
  /\ UNCHANGED <<kind, config, remote, inFlight>>

\* A Read that follows the pointer to the missing ID takes the provider down.
Panic ==
  /\ pc \in {"refresh", "read"}
  /\ remote.live
  /\ ReadPanics
  /\ EndWith(saved)
  /\ NoTrouble
  /\ UNCHANGED <<kind, config, remote, inFlight>>

PlanDelete ==
  /\ pc = "plan"
  /\ config = Absent \/ data.tainted
  /\ pc' = "delete"
  /\ op' = IF config = Absent THEN "destroy" ELSE "replace"
  /\ NoTrouble
  /\ UNCHANGED <<kind, config, saved, data, remote, inFlight>>

\* A difference in the credentials: Update gets the configured ones, and its
\* HasChanges check lets them through.
PlanUpdate ==
  /\ pc = "plan"
  /\ config # Absent
  /\ ~data.tainted
  /\ data.cred # config
  /\ pc' = "put"
  /\ op' = "update"
  /\ data' = [data EXCEPT !.cred = config]
  /\ NoTrouble
  /\ UNCHANGED <<kind, config, saved, remote, inFlight>>

PlanNothing ==
  /\ pc = "plan"
  /\ config # Absent
  /\ ~data.tainted
  /\ data.cred = config
  /\ EndWith(saved)
  /\ NoTrouble
  /\ UNCHANGED <<kind, config, remote, inFlight>>

-----------------------------------------------------------------------------
(* Create *)

\* Registering a cluster CAST AI already knows answers with the known one.
Registered ==
  IF remote.live THEN remote ELSE [Unregistered EXCEPT !.live = TRUE]

Register ==
  /\ pc = "register"
  /\ remote' = Registered
  /\ pc' = "token"
  /\ NoTrouble
  /\ UNCHANGED <<kind, config, saved, data, op, inFlight>>

\* createClusterToken, SetId; without credentials there is nothing to update.
CreateToken ==
  /\ pc = "token"
  /\ remote.live
  /\ data' = [data EXCEPT !.there = TRUE]
  /\ pc' = IF data.cred = NoCred THEN "read" ELSE "put"
  /\ NoTrouble
  /\ UNCHANGED <<kind, config, saved, op, remote, inFlight>>

-----------------------------------------------------------------------------
(* resourceCastaiClusterUpdate *)

\* An update CAST AI carries out (external).  A request that names no
\* credentials keeps the ones there are.
Updated(cred, id) ==
  IF cred = NoCred THEN remote
  ELSE [remote EXCEPT !.cred = cred, !.credId = id]

\* Mutant: the marker of an update under way stays.
AfterUpdate_Marked(resource, id) == [resource EXCEPT !.credId = Sentinel]

\* Mutant: the pointer is formatted instead of the ID it points to.
AfterUpdate_Nil(resource, id) == [resource EXCEPT !.credId = "<nil>"]

\* The generated ID goes to the state, or every Read would report drift.
AfterUpdate(resource, id) == [resource EXCEPT !.credId = id]

\* Mutant: a failed update leaves the ID of the update before.
AfterFailedUpdate_OldId(resource) == resource

\* Terraform saves the planned credentials even when Update fails; an ID that
\* CAST AI never returns makes the next Read see drift.
AfterFailedUpdate(resource) == [resource EXCEPT !.credId = Sentinel]

PutSucceeds ==
  /\ pc = "put"
  /\ remote.live
  /\ \E id \in FreshIds :
       /\ remote' = Updated(data.cred, id)
       /\ data' = AfterUpdate(data, Updated(data.cred, id).credId)
  /\ pc' = "read"
  /\ NoTrouble
  /\ UNCHANGED <<kind, config, saved, op, inFlight>>

\* 400 for another reason than the credentials: permanent.
PutRejected ==
  /\ pc = "put"
  /\ Trouble
  /\ EndWithError(AfterFailedUpdate(data))
  /\ UNCHANGED <<kind, config, remote, inFlight>>

\* Any other bad answer is retried: CAST AI may not see the credentials'
\* permissions yet, or be in trouble itself.
PutFails ==
  /\ pc = "put"
  /\ Trouble
  /\ pc' = "backoff"
  /\ UNCHANGED <<kind, config, saved, data, op, remote, inFlight>>

\* The cluster has been archived meanwhile.
PutGone ==
  /\ pc = "put"
  /\ ~remote.live
  /\ pc' = "backoff"
  /\ NoTrouble
  /\ UNCHANGED <<kind, config, saved, data, op, remote, inFlight>>

\* The update is carried out but its answer is lost.
PutAnswerLost ==
  /\ pc = "put"
  /\ remote.live
  /\ Trouble
  /\ \E id \in FreshIds : remote' = Updated(data.cred, id)
  /\ pc' = "backoff"
  /\ UNCHANGED <<kind, config, saved, data, op, inFlight>>

\* The client gives up a request that CAST AI will still carry out.
PutDelayed ==
  /\ pc = "put"
  /\ remote.live
  /\ Trouble
  /\ inFlight' = inFlight \cup {data.cred}
  /\ pc' = "backoff"
  /\ UNCHANGED <<kind, config, saved, data, op, remote>>

RetryPut ==
  /\ pc = "backoff"
  /\ pc' = "put"
  /\ NoTrouble
  /\ UNCHANGED <<kind, config, saved, data, op, remote, inFlight>>

\* The deadline of the operation passes.
GiveUp ==
  /\ pc = "backoff"
  /\ EndWithError(AfterFailedUpdate(data))
  /\ NoTrouble
  /\ UNCHANGED <<kind, config, remote, inFlight>>

-----------------------------------------------------------------------------
(* The Read that ends Create and Update *)

FinalRead ==
  /\ pc = "read"
  /\ remote.live
  /\ ~ReadPanics
  /\ EndWith(AfterRead(data))
  /\ NoTrouble
  /\ UNCHANGED <<kind, config, remote, inFlight>>

FinalReadGone ==
  /\ pc = "read"
  /\ ~remote.live
  /\ EndWith(NoResource)
  /\ NoTrouble
  /\ UNCHANGED <<kind, config, remote, inFlight>>

FinalReadFails ==
  /\ pc = "read"
  /\ Trouble
  /\ EndWithError(data)
  /\ UNCHANGED <<kind, config, remote, inFlight>>

-----------------------------------------------------------------------------
(* Delete, as ClusterRemoval promises it *)

DeleteArchives ==
  /\ pc = "delete"
  /\ remote.live
  /\ remote' = Unregistered
  /\ inFlight' = {}
  /\ NoTrouble
  /\ UNCHANGED <<kind, config, runVars>>

\* A replacement goes on to create the resource anew.
DeleteSucceeds ==
  /\ pc = "delete"
  /\ ~remote.live
  /\ saved' = NoResource
  /\ IF op = "replace"
     THEN /\ data' = [NoResource EXCEPT !.cred = config]
          /\ op' = "create"
          /\ pc' = "register"
     ELSE /\ data' = NoResource
          /\ op' = "none"
          /\ pc' = "idle"
  /\ NoTrouble
  /\ UNCHANGED <<kind, config, remote, inFlight>>

\* Mutant: the resource is forgotten although its deletion failed.
DeleteFails_Forgets ==
  /\ pc = "delete"
  /\ Trouble
  /\ EndWith(NoResource)
  /\ UNCHANGED <<kind, config, remote, inFlight>>

DeleteFails ==
  /\ pc = "delete"
  /\ Trouble
  /\ EndWith(saved)
  /\ UNCHANGED <<kind, config, remote, inFlight>>

-----------------------------------------------------------------------------
(* Faults before the resource has an ID, and crashes *)

\* Mutant: an error of the refresh counts as a missing cluster.
RefreshFails_Forgets ==
  /\ pc = "refresh"
  /\ Trouble
  /\ EndWith(NoResource)
  /\ UNCHANGED <<kind, config, remote, inFlight>>

RefreshFails ==
  /\ pc = "refresh"
  /\ Trouble
  /\ EndWith(saved)
  /\ UNCHANGED <<kind, config, remote, inFlight>>

\* With or without effect; there is no ID, so nothing is saved.
RegisterFails ==
  /\ pc = "register"
  /\ Trouble
  /\ remote' \in {remote, Registered}
  /\ EndWith(saved)
  /\ UNCHANGED <<kind, config, inFlight>>

\* The registered cluster is not in the state: SetId comes after the token.
TokenFails ==
  /\ pc = "token"
  /\ Trouble
  /\ EndWith(saved)
  /\ UNCHANGED <<kind, config, remote, inFlight>>

TokenGone ==
  /\ pc = "token"
  /\ ~remote.live
  /\ EndWith(saved)
  /\ NoTrouble
  /\ UNCHANGED <<kind, config, remote, inFlight>>

\* Terraform or the provider dies: the state file is as it was.
Crash ==
  /\ pc # "idle"
  /\ Trouble
  /\ EndWith(saved)
  /\ UNCHANGED <<kind, config, remote, inFlight>>

-----------------------------------------------------------------------------
(* The user, and others who use CAST AI (external) *)

EditConfig ==
  /\ pc = "idle"
  /\ Trouble
  /\ config' \in (Configurable \cup {Absent}) \ {config}
  /\ UNCHANGED <<kind, runVars, remote, inFlight>>

CredentialsReset ==
  /\ remote.live
  /\ Trouble
  /\ \/ remote' = [remote EXCEPT !.cred = NoCred, !.credId = NoId]
     \/ \E id \in FreshIds :
          remote' = [remote EXCEPT !.cred = Foreign, !.credId = id]
  /\ UNCHANGED <<kind, config, runVars, inFlight>>

ConsoleArchives ==
  /\ remote.live
  /\ Trouble
  /\ remote' = Unregistered
  /\ inFlight' = {}
  /\ UNCHANGED <<kind, config, runVars>>

LateUpdate ==
  /\ remote.live
  /\ \E cred \in inFlight, id \in FreshIds :
       /\ remote' = Updated(cred, id)
       /\ inFlight' = inFlight \ {cred}
  /\ NoTrouble
  /\ UNCHANGED <<kind, config, runVars>>

-----------------------------------------------------------------------------
Run ==
  \/ StartCreate \/ StartRefresh \/ Refresh \/ RefreshGone \/ Panic
  \/ PlanDelete \/ PlanUpdate \/ PlanNothing
  \/ Register \/ CreateToken
  \/ PutSucceeds \/ PutGone \/ RetryPut \/ GiveUp
  \/ FinalRead \/ FinalReadGone
  \/ DeleteArchives \/ DeleteSucceeds
  \/ TokenGone

Faults ==
  \/ PutRejected \/ PutFails \/ PutAnswerLost \/ PutDelayed
  \/ FinalReadFails \/ DeleteFails \/ RefreshFails \/ RegisterFails
  \/ TokenFails \/ Crash

Outside == EditConfig \/ CredentialsReset \/ ConsoleArchives \/ LateUpdate

Next == Run \/ Faults \/ Outside

Spec == Init /\ [][Next]_vars

\* The user keeps applying the configuration, and an operation that keeps
\* failing meets its deadline.  Nothing else is fair.
FairSpec ==
  /\ Spec
  /\ WF_vars(Run)
  /\ SF_vars(GiveUp)

-----------------------------------------------------------------------------
(* Properties *)

\* If the state shows credentials and the ID CAST AI has now, CAST AI holds
\* these very credentials: the next plan cannot say "no changes" over
\* credentials that were never applied, replaced or reset, whatever updates
\* failed, lost their answers, arrived late or were cut short by a crash.  It
\* takes an ID to tell: nothing is said of a cluster for which there is none.
NoSilentDrift ==
  (saved.there /\ remote.live /\ saved.cred \in Creds
     /\ saved.credId = remote.credId /\ ~IdOmitted)
  => remote.cred = saved.cred

\* The resource leaves the state only when the cluster is gone: not on an
\* error of a refresh, of the token call, of the final Read or of Delete.
TrackedUntilGone == [][saved.there /\ ~saved'.there => ~remote.live]_vars

\* A replacement or a destroy removes the cluster the way ClusterRemoval says.
Removal == INSTANCE ClusterRemoval
  WITH gone <- ~remote.live,
       tracked <- saved.there,
       outcome <- IF pc = "delete" THEN "running"
                  ELSE IF saved.there THEN "failed" ELSE "removed"

DeleteAsPromised ==
  [][pc = "delete" => Removal!RemovalNext]_(Removal!removalVars)

\* Once faults, edits and interventions end, repeated applies reach the
\* configuration and stay there: what failed is applied again, a resource
\* left tainted is replaced, and no plan reports drift for ever.  There are two
\* dead ends, both where CAST AI leaves the ID out.
Reached ==
  CASE config = Absent -> ~saved.there
    [] config = NoCred -> saved.there
    [] OTHER -> /\ saved.there
                /\ ~saved.tainted
                /\ remote.live
                /\ remote.cred = config
                /\ saved.cred = config
                /\ saved.credId = remote.credId

\* The credentials of a GKE cluster are gone, and no Read tells.
GoneUnseen ==
  /\ IdOmitted /\ kind.cloud = "gke"
  /\ saved.there /\ remote.live /\ saved.cred = config

\* A cluster without credentials in the state, or configured without them: the
\* Read of every run panics, that of a destroy too.
NeverRead ==
  /\ ReadPanics /\ remote.live
  /\ saved.there \/ config = NoCred

Convergence == <>[](Reached \/ GoneUnseen \/ NeverRead)
=============================================================================
