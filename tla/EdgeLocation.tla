---------------------------- MODULE EdgeLocation ----------------------------
(***************************************************************************)
(* castai_edge_location (castai/resource_edge_location.go): an edge        *)
(* location whose cloud credentials are write-only.  Terraform never keeps *)
(* them; the provider keeps their hash in the private state (castai/store) *)
(* and announces new ones by the number credentials_revision.              *)
(*                                                                         *)
(* The visible part of the provider block is one value, a specification;   *)
(* it comes back from CAST AI, the credentials do not.  Credentials are    *)
(* absent when the location is reached by impersonation.                   *)
(***************************************************************************)
EXTENDS Naturals

CONSTANTS
  Specs,       \* visible contents of the provider block
  Creds,       \* write-only credentials
  NoCred,      \* no credentials: the impersonation flow
  NoHash,      \* nothing is in the private state
  Absent,      \* the resource is not in the configuration
  MaxTrouble   \* bound on the faults, interventions and edits

ASSUME DataAssumption ==
  /\ Specs # {}
  /\ NoCred \notin Creds
  /\ NoHash \notin Creds
  /\ Absent \notin [spec: Specs, cred: Creds \cup {NoCred}]
ASSUME TroubleAssumption == MaxTrouble \in Nat

VARIABLES
  remote,    \* the edge location at CAST AI
  doubt,     \* since the hash was stored, credentials may have been replaced
             \* by a request without an answer, or dropped by one without them
  want,      \* the configuration
  saved,     \* the Terraform state, with its private part
  run,       \* what Terraform is doing, and the revision it plans
  trouble    \* how much trouble is still to come

vars == <<remote, doubt, want, saved, run, trouble>>

-----------------------------------------------------------------------------
(* State *)

Config == [spec: Specs, cred: Creds \cup {NoCred}]

\* A hash is as good as the credentials it was computed from.
Resource == [exists: BOOLEAN, spec: Specs, rev: Nat, hash: Creds \cup {NoHash}]

Location == [there: {"no", "yes", "deleting"}, spec: Specs,
             cred: Creds \cup {NoCred}]

Ended == {"idle", "done", "failed", "refused"}

TypeOK ==
  /\ remote \in Location
  /\ doubt \in BOOLEAN
  /\ want \in Config \cup {Absent}
  /\ saved \in Resource
  /\ run \in [pc: {"refresh", "plan", "create", "update", "delete", "poll"}
                  \cup Ended,
              rev: Nat]
  /\ trouble \in 0..MaxTrouble

Ends(how) == run' = [pc |-> how, rev |-> 0]
Goes(to) == run' = [run EXCEPT !.pc = to]

NotSaved(spec) == [exists |-> FALSE, spec |-> spec, rev |-> 0, hash |-> NoHash]

Init ==
  /\ \E spec \in Specs :
       /\ remote = [there |-> "no", spec |-> spec, cred |-> NoCred]
       /\ saved = NotSaved(spec)
  /\ doubt = FALSE
  /\ want \in Config
  /\ run = [pc |-> "idle", rev |-> 0]
  /\ trouble = MaxTrouble

Trouble ==
  /\ trouble > 0
  /\ trouble' = trouble - 1

-----------------------------------------------------------------------------
(* Refresh and plan *)

StartApply ==
  /\ run.pc \in Ended
  /\ run' = [pc |-> IF saved.exists THEN "refresh"
                    ELSE IF want # Absent THEN "create" ELSE "done",
             rev |-> 0]
  /\ UNCHANGED <<remote, doubt, want, saved, trouble>>

\* Mutant: Read keeps the visible part that was last applied.
Refresh_KeepsSpec ==
  /\ run.pc = "refresh"
  /\ IF remote.there = "no"
     THEN /\ saved' = NotSaved(saved.spec)
          /\ Goes(IF want # Absent THEN "create" ELSE "done")
     ELSE Goes("plan") /\ UNCHANGED saved
  /\ UNCHANGED <<remote, doubt, want, trouble>>

\* Read: 404 takes the resource out of the state; the visible part is synced.
Refresh ==
  /\ run.pc = "refresh"
  /\ IF remote.there = "no"
     THEN /\ saved' = NotSaved(saved.spec)
          /\ Goes(IF want # Absent THEN "create" ELSE "done")
     ELSE /\ saved' = [saved EXCEPT !.spec = remote.spec]
          /\ Goes("plan")
  /\ UNCHANGED <<remote, doubt, want, trouble>>

PlanDelete ==
  /\ run.pc = "plan"
  /\ want = Absent
  /\ Goes("delete")
  /\ UNCHANGED <<remote, doubt, want, saved, trouble>>

\* WriteOnlyStore.Equal cannot decode a hash that was never stored, and
\* ModifyPlan returns its error.
PlanRefused ==
  /\ run.pc = "plan"
  /\ want # Absent
  /\ want.cred # NoCred
  /\ saved.hash = NoHash
  /\ Ends("refused")
  /\ UNCHANGED <<remote, doubt, want, saved, trouble>>

\* The revision moves if the hash is not that of the configured credentials.
PlannedRevision ==
  IF want.cred # NoCred /\ saved.hash # want.cred
  THEN saved.rev + 1 ELSE saved.rev

PlanUpdate(rev) ==
  /\ run.pc = "plan"
  /\ want # Absent
  /\ want.cred # NoCred => saved.hash # NoHash
  /\ IF want.spec = saved.spec /\ rev = saved.rev
     THEN Ends("done")
     ELSE run' = [pc |-> "update", rev |-> rev]
  /\ UNCHANGED <<remote, doubt, want, saved>>

\* ModifyPlan.
ModifyPlan == PlanUpdate(PlannedRevision) /\ UNCHANGED trouble

\* Credentials that come from a resource still to be applied are not known to
\* the plan, and never have the stored hash.
ModifyPlanUnknown ==
  /\ want # Absent
  /\ want.cred # NoCred
  /\ Trouble
  /\ PlanUpdate(saved.rev + 1)

-----------------------------------------------------------------------------
(* Create, Update, Delete *)

\* Mutant: missing credentials are stored, too.
Created_StoresNull ==
  [exists |-> TRUE, spec |-> want.spec, rev |-> 1, hash |-> want.cred]

\* The first revision; the hash is stored if there are credentials.
Created ==
  [exists |-> TRUE, spec |-> want.spec, rev |-> 1,
   hash |-> IF want.cred = NoCred THEN NoHash ELSE want.cred]

\* Create; a location of this name must not exist.
Create ==
  /\ run.pc = "create"
  /\ remote.there = "no"
  /\ remote' = [there |-> "yes", spec |-> want.spec, cred |-> want.cred]
  /\ saved' = Created
  /\ doubt' = FALSE
  /\ Ends("done")
  /\ UNCHANGED <<want, trouble>>

CreateRefused ==
  /\ run.pc = "create"
  /\ remote.there # "no"
  /\ Ends("failed")
  /\ UNCHANGED <<remote, doubt, want, saved, trouble>>

CredentialsChanged == run.rev # saved.rev

\* What an update does at CAST AI (external).  It is only planned if the
\* provider block or the revision changed, and then brings the block and the
\* configured credentials; a block without any may or may not drop them.
UpdateEffect ==
  \E cred \in IF want.cred # NoCred THEN {want.cred} ELSE {remote.cred, NoCred} :
     remote' = [remote EXCEPT !.spec = want.spec, !.cred = cred]

\* WriteOnlyStore.Set, when the credentials changed.
StoredHash ==
  IF CredentialsChanged /\ want.cred # NoCred THEN want.cred ELSE saved.hash

\* Mutant: the new revision is not saved.
Updated_OldRevision == [saved EXCEPT !.spec = want.spec, !.hash = StoredHash]

Updated ==
  [saved EXCEPT !.spec = want.spec, !.rev = run.rev, !.hash = StoredHash]

\* Update, 200.
Update ==
  /\ run.pc = "update"
  /\ remote.there = "yes"
  /\ UpdateEffect
  /\ saved' = Updated
  /\ doubt' = (want.cred = NoCred)
  /\ Ends("done")
  /\ UNCHANGED <<want, trouble>>

\* The location is being deleted, or gone.
UpdateRefused ==
  /\ run.pc = "update"
  /\ remote.there # "yes"
  /\ Ends("failed")
  /\ UNCHANGED <<remote, doubt, want, saved, trouble>>

\* Delete: 404 is success, anything else waits for a 404.
Delete ==
  /\ run.pc = "delete"
  /\ IF remote.there = "no"
     THEN saved' = NotSaved(saved.spec) /\ Ends("done") /\ UNCHANGED remote
     ELSE /\ remote' = [remote EXCEPT !.there = "deleting"]
          /\ Goes("poll")
          /\ UNCHANGED saved
  /\ UNCHANGED <<doubt, want, trouble>>

\* Mutant: the location is forgotten as soon as its deletion was accepted.
DeletionSeen_Accepted == TRUE

\* waitForDeletion gets a 404.
DeletionSeen == remote.there = "no"

DeletionPolled ==
  /\ run.pc = "poll"
  /\ DeletionSeen
  /\ saved' = NotSaved(saved.spec)
  /\ Ends("done")
  /\ UNCHANGED <<remote, doubt, want, trouble>>

\* Mutant: the credentials are taken as stored although the update failed.
Fails_StoresHash ==
  /\ run.pc \in {"refresh", "create", "update", "delete", "poll"}
  /\ Trouble
  /\ saved' = IF run.pc = "update" THEN [saved EXCEPT !.hash = StoredHash] ELSE saved
  /\ Ends("failed")
  /\ UNCHANGED <<remote, doubt, want>>

\* A call is answered with an error, or the polling is, or runs out of time.
Fails ==
  /\ run.pc \in {"refresh", "create", "update", "delete", "poll"}
  /\ Trouble
  /\ Ends("failed")
  /\ UNCHANGED <<remote, doubt, want, saved>>

\* A call is carried out, but Terraform does not learn of it: the answer is
\* lost, or the process killed.
AnswerLost ==
  /\ Trouble
  /\ \/ /\ run.pc = "create" /\ remote.there = "no"
        /\ remote' = [there |-> "yes", spec |-> want.spec, cred |-> want.cred]
        /\ UNCHANGED doubt
     \/ /\ run.pc = "update" /\ remote.there = "yes"
        /\ UpdateEffect
        /\ doubt' = TRUE
     \/ /\ run.pc = "delete" /\ remote.there = "yes"
        /\ remote' = [remote EXCEPT !.there = "deleting"]
        /\ UNCHANGED doubt
  /\ Ends("failed")
  /\ UNCHANGED <<want, saved>>

-----------------------------------------------------------------------------
(* Everybody else *)

\* terraform import, and the Read that follows it.
Import ==
  /\ Trouble
  /\ run.pc \in Ended
  /\ ~saved.exists
  /\ remote.there = "yes"
  /\ saved' = [exists |-> TRUE, spec |-> remote.spec, rev |-> 1, hash |-> NoHash]
  /\ UNCHANGED <<remote, doubt, want, run>>

EditConfig ==
  /\ Trouble
  /\ run.pc \in Ended
  /\ want' \in (Config \cup {Absent}) \ {want}
  /\ UNCHANGED <<remote, doubt, saved, run>>

\* The deletion CAST AI accepted is carried out.
DeletionEnds ==
  /\ remote.there = "deleting"
  /\ remote' = [remote EXCEPT !.there = "no"]
  /\ UNCHANGED <<doubt, want, saved, run, trouble>>

\* Someone edits the visible part or deletes the location in the console.
Console ==
  /\ Trouble
  /\ remote.there = "yes"
  /\ \/ \E spec \in Specs \ {remote.spec} :
          remote' = [remote EXCEPT !.spec = spec]
     \/ remote' = [remote EXCEPT !.there = "deleting"]
  /\ UNCHANGED <<doubt, want, saved, run>>

-----------------------------------------------------------------------------
Terraform ==
  \/ Refresh
  \/ PlanDelete \/ PlanRefused \/ ModifyPlan
  \/ Create \/ CreateRefused
  \/ Update \/ UpdateRefused
  \/ Delete \/ DeletionPolled

Next ==
  \/ StartApply \/ Terraform \/ ModifyPlanUnknown
  \/ Fails \/ AnswerLost
  \/ Import \/ EditConfig \/ DeletionEnds \/ Console

Spec == Init /\ [][Next]_vars

\* Terraform runs to its end, the user applies again and again, and deletions
\* end.  Faults, edits, imports and unknown credentials are not fair.
FairSpec ==
  /\ Spec
  /\ WF_vars(StartApply)
  /\ WF_vars(Terraform)
  /\ WF_vars(DeletionEnds)

-----------------------------------------------------------------------------
(* Properties *)

\* A plan compares the configured credentials with the stored hash only, so
\* the hash must be that of the credentials CAST AI has: Create and Update
\* store it after the call succeeded, and no other step touches it.  The
\* exceptions are the ones doubt names.
HashIsCurrent ==
  saved.exists /\ saved.hash # NoHash /\ ~doubt /\ remote.there = "yes"
    => remote.cred = saved.hash

\* "Revision number incremented each time credentials change": an update never
\* brings new credentials under the old revision.
RevisionTells ==
  [][saved.exists /\ saved'.exists /\ saved'.hash # saved.hash
       => saved'.rev = saved.rev + 1]_vars

\* "Wait until it's fully removed so that dependent resources (e.g. omni
\* cluster) can be deleted": the state drops a location only when it is gone.
ForgottenOnlyWhenGone ==
  [][saved.exists /\ ~saved'.exists => remote.there = "no"]_vars

\* Once faults and edits end, repeated applies reach the configuration and
\* plan nothing more; unless the location was created without Terraform
\* learning of it, or plans are refused for want of a stored hash.
Converged ==
  IF want = Absent THEN ~saved.exists
  ELSE /\ saved.exists /\ saved.spec = want.spec
       /\ remote.there = "yes" /\ remote.spec = want.spec
       /\ want.cred \in {NoCred, saved.hash}

DeadEnd ==
  /\ want # Absent
  /\ remote.there = "yes"
  /\ \/ ~saved.exists
     \/ want.cred # NoCred /\ saved.hash = NoHash

Convergence == <>[](Converged \/ DeadEnd)

\* "Import is supported": a location with credentials that was imported can be
\* planned.
ImportsArePlanned == run.pc = "refused" => remote.cred = NoCred
=============================================================================
