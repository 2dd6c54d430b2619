--------------------------- MODULE ClusterIdentity ---------------------------
(***************************************************************************)
(* Three resources of one configuration that stand on one cluster:         *)
(*                                                                         *)
(*   id       castai_eks_clusterid (castai/resource_eks_cluster_id.go) or  *)
(*            castai_gke_cluster_id (castai/resource_gke_cluster_id.go),   *)
(*            which registers the cluster to have its ID                   *)
(*   arn      castai_eks_user_arn (castai/resource_eks_cluster_userarn.go),*)
(*            a principal made for the ID that id has                      *)
(*   cluster  castai_eks_cluster or castai_gke_cluster, which registers    *)
(*            the same cluster and is no more than its ID here; the rest   *)
(*            of it is in ClusterResource                                  *)
(*                                                                         *)
(* Deleting id or cluster is the loop of ClusterDelete: the cluster goes   *)
(* from CAST AI under the hands of the other resources.                    *)
(***************************************************************************)
EXTENDS Naturals

CONSTANTS
  Ids,         \* IDs of clusters
  Accounts,    \* client service accounts of a GKE cluster
  NoId, NoAccount,
  MaxTrouble   \* bound on the faults, interventions and edits

\* What the parameters have to be.
IdentityAssumption ==
  /\ NoId \notin Ids
  /\ NoAccount \notin Accounts
  /\ MaxTrouble \in Nat

VARIABLES
  remote,    \* CAST AI: the ID of the cluster while it is registered, its
             \* client service account, whose principals there are, and
             \* whether a cluster that has gone is an error to ask one of
  want,      \* the configuration: which resources, and the service account
  saved,     \* the Terraform state: the cluster ID each resource has
  run,       \* what Terraform is doing, what it has read, what is planned
  quiet,     \* since the run began nobody else has changed anything
  trouble    \* how much trouble is still to come

vars == <<remote, want, saved, run, quiet, trouble>>

-----------------------------------------------------------------------------
(* State *)

Resources == IF remote.kind = "eks" THEN {"id", "arn", "cluster"} ELSE {"id", "cluster"}
State ==
  [id: Ids \cup {NoId}, arn: Ids \cup {NoId}, cluster: Ids \cup {NoId},
   account: Accounts \cup {NoAccount}, tainted: BOOLEAN]
NotSaved ==
  [id |-> NoId, arn |-> NoId, cluster |-> NoId, account |-> NoAccount, tainted |-> FALSE]

Ended == {"idle", "done", "failed"}
Steps == {"refresh", "apply", "token", "account", "principal"}

\* asks: what is still to be read; makes, removes: what is planned.
Run(pc, asks, seen) ==
  [pc |-> pc, asks |-> asks, seen |-> seen, removes |-> {}, makes |-> {}, moved |-> FALSE]

TypeOK ==
  /\ remote \in [kind: {"eks", "gke"}, strict: BOOLEAN, live: Ids \cup {NoId},
                 account: Accounts \cup {NoAccount}, principals: SUBSET Ids]
  /\ want \in [resources: SUBSET Resources, account: Accounts \cup {NoAccount}]
  /\ saved \in State
  /\ run \in [pc: Ended \cup Steps, asks: SUBSET Resources, seen: State,
              removes: SUBSET Resources, makes: SUBSET (Resources \cup {"account"}),
              moved: BOOLEAN]
  /\ quiet \in BOOLEAN
  /\ trouble \in 0..MaxTrouble

\* The principal is made for the ID.
Configured == {r \in SUBSET Resources : "arn" \in r => "id" \in r}

Init ==
  /\ remote \in [kind: {"eks", "gke"}, strict: BOOLEAN, live: {NoId},
                 account: {NoAccount}, principals: {{}}]
  /\ want \in [resources: Configured, account: Accounts \cup {NoAccount}]
  /\ saved = NotSaved
  /\ run = Run("idle", {}, NotSaved)
  /\ quiet = TRUE
  /\ trouble = MaxTrouble

Trouble ==
  /\ trouble > 0
  /\ trouble' = trouble - 1

Live(id) == id # NoId /\ id = remote.live

-----------------------------------------------------------------------------
(* What the calls do at CAST AI *)

\* An ID that nothing remembers: the set of IDs bounds how many there are.
\* Registering what is registered answers its ID.
Fresh == Ids \ ({remote.live, saved.id, saved.arn, saved.cluster} \cup remote.principals)
CanRegister == remote.live # NoId \/ Fresh # {}
Registered ==
  IF remote.live # NoId THEN remote
  ELSE [remote EXCEPT !.live = CHOOSE id \in Fresh : TRUE, !.account = NoAccount]

Archived(id) == IF Live(id) THEN [remote EXCEPT !.live = NoId] ELSE remote

\* The principal of a cluster can be asked for, made and deleted.
Answers(id) == Live(id) \/ ~remote.strict

-----------------------------------------------------------------------------
(* Refresh and plan *)

StartApply ==
  /\ run.pc \in Ended
  /\ run' = Run("refresh", {r \in Resources : saved[r] # NoId}, saved)
  /\ quiet' = TRUE
  /\ UNCHANGED <<remote, want, saved, trouble>>

Read(resource) ==
  /\ run.pc = "refresh"
  /\ resource \in run.asks

\* Mutant: what a Read does not find stays as it was.
Gone_Kept(resource) == run.seen

Gone(resource) == [run.seen EXCEPT ![resource] = NoId]

Sees(resource, seen) ==
  /\ run' = [run EXCEPT !.asks = @ \ {resource}, !.seen = seen]
  /\ UNCHANGED <<remote, want, saved, quiet, trouble>>

\* fetchClusterData finds no cluster where it is archived.
ReadId ==
  /\ Read("id")
  /\ Sees("id", IF ~Live(saved.id) THEN [Gone("id") EXCEPT !.tainted = FALSE]
                ELSE [run.seen EXCEPT !.account = remote.account])

ReadCluster ==
  /\ Read("cluster")
  /\ Sees("cluster", IF Live(saved.cluster) THEN run.seen ELSE Gone("cluster"))

\* No principal is an empty ARN, and this becomes the ID.
ReadArn ==
  /\ Read("arn")
  /\ Answers(saved.arn)
  /\ Sees("arn", IF saved.arn \in remote.principals THEN run.seen ELSE Gone("arn"))

\* One Read that fails is the end of the run, and nothing is saved.
ReadFails ==
  /\ Read("arn")
  /\ ~Answers(saved.arn)
  /\ run' = Run("failed", {}, NotSaved)
  /\ UNCHANGED <<remote, want, saved, quiet, trouble>>

\* Mutant: the principal stays with the cluster it was made for.
Outdated_Never(seen) == FALSE

\* The ID the principal was made for is not, or will not be, the ID of id.
Outdated(seen) == seen.arn # seen.id \/ seen.tainted

Plan ==
  /\ run.pc = "refresh"
  /\ run.asks = {}
  /\ LET seen == run.seen
         has == {r \in Resources : seen[r] # NoId}
         replaced == {r \in has \cap want.resources :
                        \/ r = "id" /\ seen.tainted
                        \/ r = "arn" /\ Outdated(seen)}
         drift == IF "id" \in (has \cap want.resources) \ replaced
                       /\ remote.kind = "gke" /\ seen.account # want.account
                  THEN {"account"} ELSE {}
     IN  /\ saved' = seen
         /\ run' = [Run("apply", {}, NotSaved) EXCEPT
                      !.removes = (has \ want.resources) \cup replaced,
                      !.makes = (want.resources \ has) \cup replaced \cup drift]
  /\ UNCHANGED <<remote, want, quiet, trouble>>

-----------------------------------------------------------------------------
(* Apply: what depends on the ID is destroyed before and made after it *)

Destroys(resource) ==
  /\ run.pc = "apply"
  /\ resource \in run.removes
  /\ resource = "arn" => "cluster" \notin run.removes
  /\ resource = "id" => run.removes = {"id"}

Makes(resource) ==
  /\ run.pc = "apply"
  /\ run.removes = {}
  /\ resource \in run.makes
  /\ resource = "arn" => "id" \notin run.makes
  /\ resource = "cluster" => run.makes \cap {"id", "arn"} = {}

Destroyed(resource) == run' = [run EXCEPT !.removes = @ \ {resource},
                                          !.moved = @ \/ resource # "arn"]
Made(resource) == run' = [run EXCEPT !.pc = "apply", !.makes = @ \ {resource}]

\* resourceCastaiClusterDelete, as ClusterRemoval promises it.
DeleteCluster ==
  \E resource \in {"id", "cluster"} :
    /\ Destroys(resource)
    /\ remote' = Archived(saved[resource])
    /\ saved' = IF resource = "cluster" THEN [saved EXCEPT !.cluster = NoId]
                ELSE [saved EXCEPT !.id = NoId, !.account = NoAccount, !.tainted = FALSE]
    /\ Destroyed(resource)
    /\ UNCHANGED <<want, quiet, trouble>>

DeleteArn ==
  /\ Destroys("arn")
  /\ Answers(saved.arn)
  /\ remote' = [remote EXCEPT !.principals = @ \ {saved.arn}]
  /\ saved' = [saved EXCEPT !.arn = NoId]
  /\ Destroyed("arn")
  /\ UNCHANGED <<want, quiet, trouble>>

\* A GKE ID is saved after the token is there.
CreateId ==
  /\ Makes("id") /\ CanRegister
  /\ remote' = Registered
  /\ IF remote.kind = "gke" THEN run' = [run EXCEPT !.pc = "token"] /\ UNCHANGED saved
     ELSE saved' = [saved EXCEPT !.id = remote'.live] /\ Made("id")
  /\ UNCHANGED <<want, quiet, trouble>>

Token ==
  /\ run.pc = "token"
  /\ remote.live # NoId
  /\ saved' = [saved EXCEPT !.id = remote.live, !.account = want.account]
  /\ IF want.account # NoAccount THEN run' = [run EXCEPT !.pc = "account"] ELSE Made("id")
  /\ UNCHANGED <<remote, want, quiet, trouble>>

CreateAccount ==
  /\ run.pc = "account"
  /\ Live(saved.id)
  /\ remote' = [remote EXCEPT !.account = want.account]
  /\ Made("id")
  /\ UNCHANGED <<want, saved, quiet, trouble>>

\* Update is Read: what was to change is as before, and planned again.
UpdateId ==
  /\ Makes("account")
  /\ saved' = IF Live(saved.id) THEN [saved EXCEPT !.account = remote.account] ELSE saved
  /\ IF Live(saved.id) THEN Made("account") ELSE run' = [run EXCEPT !.pc = "failed"]
  /\ UNCHANGED <<remote, want, quiet, trouble>>

\* A principal that is there is used.
CreateArn ==
  /\ Makes("arn")
  /\ Answers(saved.id)
  /\ IF saved.id \in remote.principals
     THEN saved' = [saved EXCEPT !.arn = saved.id] /\ Made("arn")
     ELSE run' = [run EXCEPT !.pc = "principal"] /\ UNCHANGED saved
  /\ UNCHANGED <<remote, want, quiet, trouble>>

Principal ==
  /\ run.pc = "principal"
  /\ Answers(saved.id)
  /\ remote' = [remote EXCEPT !.principals = @ \cup {saved.id}]
  /\ saved' = [saved EXCEPT !.arn = saved.id]
  /\ Made("arn")
  /\ UNCHANGED <<want, quiet, trouble>>

CreateCluster ==
  /\ Makes("cluster") /\ CanRegister
  /\ remote' = Registered
  /\ saved' = [saved EXCEPT !.cluster = remote'.live]
  /\ Made("cluster")
  /\ UNCHANGED <<want, quiet, trouble>>

Done ==
  /\ run.pc = "apply"
  /\ run.removes = {} /\ run.makes = {}
  /\ run' = [run EXCEPT !.pc = "done"]
  /\ UNCHANGED <<remote, want, saved, quiet, trouble>>

-----------------------------------------------------------------------------
(* Failures *)

\* An ID saved before the error makes a tainted resource.
AfterError == [saved EXCEPT !.tainted = @ \/ run.pc = "account"]

Fails ==
  /\ saved' = AfterError
  /\ run' = Run("failed", {}, NotSaved)

\* The cluster has gone between the calls.
Refused ==
  /\ \/ run.pc = "token" /\ remote.live = NoId
     \/ run.pc = "account" /\ ~Live(saved.id)
     \/ run.pc = "principal" /\ ~Answers(saved.id)
     \/ Makes("arn") /\ ~Answers(saved.id)
     \/ Destroys("arn") /\ ~Answers(saved.arn)
  /\ Fails
  /\ UNCHANGED <<remote, want, quiet, trouble>>

\* What a call whose answer is lost may have done.
CarriedOut ==
  {remote}
  \cup {Archived(saved[r]) : r \in {s \in {"id", "cluster"} : Destroys(s)}}
  \cup {Registered : r \in {s \in {"id", "cluster"} : Makes(s) /\ CanRegister}}
  \cup {[remote EXCEPT !.principals = @ \ {saved.arn}] : r \in {s \in {"arn"} : Destroys(s)}}
  \cup (IF run.pc = "principal" THEN {[remote EXCEPT !.principals = @ \cup {saved.id}]} ELSE {})
  \cup (IF run.pc = "account" /\ Live(saved.id)
        THEN {[remote EXCEPT !.account = want.account]} ELSE {})

Stops ==
  /\ run.pc \in Steps
  /\ Trouble
  /\ remote' \in CarriedOut
  /\ Fails
  /\ UNCHANGED <<want, quiet>>

\* The process dies: what a create has not ended with is not in the state.
Killed ==
  /\ run.pc \in Steps
  /\ Trouble
  /\ remote' \in CarriedOut
  /\ saved' = IF run.pc = "account" THEN [saved EXCEPT !.id = NoId, !.account = NoAccount]
              ELSE saved
  /\ run' = Run("failed", {}, NotSaved)
  /\ UNCHANGED <<want, quiet>>

-----------------------------------------------------------------------------
(* Everybody else: there is no importer *)

EditConfig ==
  /\ Trouble
  /\ run.pc \in Ended
  /\ want' \in [resources: Configured, account: Accounts \cup {NoAccount}] \ {want}
  /\ quiet' = FALSE
  /\ UNCHANGED <<remote, saved, run>>

\* The cluster is deleted, or registered again, elsewhere; a principal goes.
Console ==
  /\ Trouble
  /\ \/ remote.live # NoId /\ remote' = Archived(remote.live)
     \/ remote.live = NoId /\ CanRegister /\ remote' = Registered
     \/ \E id \in remote.principals :
          remote' = [remote EXCEPT !.principals = @ \ {id}]
  /\ quiet' = FALSE
  /\ UNCHANGED <<want, saved, run>>

-----------------------------------------------------------------------------
Terraform ==
  \/ ReadId \/ ReadCluster \/ ReadArn \/ ReadFails \/ Plan
  \/ DeleteCluster \/ DeleteArn
  \/ CreateId \/ Token \/ CreateAccount \/ UpdateId
  \/ CreateArn \/ Principal \/ CreateCluster
  \/ Done \/ Refused

Next ==
  \/ StartApply \/ Terraform
  \/ Stops \/ Killed
  \/ EditConfig \/ Console

Spec == Init /\ [][Next]_vars

\* Terraform runs to its end and the user applies again and again.
FairSpec == Spec /\ WF_vars(StartApply) /\ WF_vars(Terraform)

-----------------------------------------------------------------------------
(* Properties *)

\* What is configured is there, all of it on the cluster that is registered.
Together ==
  \A r \in Resources :
    IF r \in want.resources
    THEN Live(saved[r]) /\ (r = "arn" => saved.arn \in remote.principals)
    ELSE saved[r] = NoId

\* A change of the service account is planned for ever and never sent.
AccountStays ==
  remote.kind = "gke" /\ "id" \in want.resources /\ saved.account # want.account

\* An apply that ends without an error, nobody having interfered and no
\* resource having been destroyed with its cluster, ends with all resources on
\* the cluster that is registered.
SuccessIsReal ==
  run.pc = "done" /\ quiet /\ ~run.moved =>
    /\ Together
    /\ ~saved.tainted
    /\ remote.kind = "gke" /\ "id" \in want.resources /\ want.account # NoAccount =>
         AccountStays \/ remote.account = want.account

\* When a resource may leave the state that was not destroyed.
KnownLoss ==
  run.pc = "refresh" /\ remote' = remote =>
    \A r \in Resources : saved[r] # NoId /\ saved'[r] = NoId =>
      ~quiet \/ ~Live(saved[r]) \/ (r = "arn" /\ saved.arn \notin remote.principals)

\* A refresh drops a cluster, its ID or its principal from the state only if it
\* has gone.
OnlyKnownLosses == [][KnownLoss]_vars

\* A principal that cannot be asked for any more fails every plan.
Stuck ==
  \/ saved.arn # NoId /\ ~Answers(saved.arn)
  \/ AccountStays

Reached ==
  /\ Together
  /\ ~saved.tainted
  /\ remote.kind = "gke" /\ "id" \in want.resources =>
       want.account = saved.account /\ want.account = remote.account

\* It is reached, and a run that has begun has seen it and has nothing to do.
AtRest ==
  /\ Reached
  /\ \/ run.pc \in Ended
     \/ /\ run.pc = "refresh"
        /\ \A r \in Resources : run.seen[r] = saved[r]
        /\ ~run.seen.tainted
        /\ remote.kind = "gke" /\ "id" \in want.resources => run.seen.account = want.account
     \/ run.pc = "apply" /\ run.removes = {} /\ run.makes = {}

\* Where repeated applies come to rest.
Settled == Reached \/ Stuck

\* After the trouble, repeated applies bring all resources onto one registered
\* cluster with its service account, also when destroying one of them took it
\* away from the others, but for the dead ends.
Convergence == <>[]Settled
=============================================================================
