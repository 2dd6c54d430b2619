--------------------------- MODULE RebalancingJob ---------------------------
(***************************************************************************)
(* castai_rebalancing_job (castai/resource_rebalancing_job.go): a schedule *)
(* is run in a cluster.  Create looks for a job of the schedule and adopts *)
(* it, else makes one; Read looks for it a second time, by schedule, when  *)
(* the ID is unknown.  Cluster and schedule may be changed in place, while *)
(* the update sends the enabled flag only.                                 *)
(*                                                                         *)
(* Whether CAST AI refuses a second job of a schedule in a cluster is not  *)
(* settled by the code: remote.unique is either.                           *)
(***************************************************************************)
EXTENDS Naturals

CONSTANTS
  Ids, Clusters, Schedules,
  NoId,        \* no job: the ID is empty
  NoJob,       \* nothing has this ID
  Absent,      \* the resource is not in the configuration
  MaxTrouble   \* bound on the faults, interventions and edits

Values == [cluster: Clusters, schedule: Schedules, enabled: BOOLEAN]
Jobs == [values: Values, ours: BOOLEAN]

\* What the parameters have to be.
JobAssumption ==
  /\ NoId \notin Ids
  /\ NoJob \notin Jobs
  /\ Absent \notin Values
  /\ MaxTrouble \in Nat

VARIABLES
  remote,    \* the jobs at CAST AI, and whether they are unique there
  want,      \* the configuration
  saved,     \* the Terraform state
  run,       \* what Terraform is doing
  quiet,     \* since the run began nobody else has changed anything
  trouble    \* how much trouble is still to come

vars == <<remote, want, saved, run, quiet, trouble>>

-----------------------------------------------------------------------------
(* State *)

NotSaved == [id |-> NoId, tainted |-> FALSE, values |-> Absent]
Saved(id, tainted, values) == [id |-> id, tainted |-> tainted, values |-> values]

Ended == {"idle", "done", "failed", "killed"}
Steps == {"list", "post", "put", "read", "relist", "plan", "delete"}

\* The call that is next, the operation it is part of, and the ID.
Run(pc, op, id) == [pc |-> pc, op |-> op, id |-> id]
Goes(pc) == run' = [run EXCEPT !.pc = pc]

TypeOK ==
  /\ remote \in [unique: BOOLEAN, jobs: [Ids -> Jobs \cup {NoJob}]]
  /\ want \in Values \cup {Absent}
  /\ saved \in {NotSaved} \cup [id: Ids, tainted: BOOLEAN, values: Values]
  /\ run \in [pc: Ended \cup Steps, op: {"none", "create", "update", "delete"},
              id: Ids \cup {NoId}]
  /\ quiet \in BOOLEAN
  /\ trouble \in 0..MaxTrouble

Exists(id) == id \in Ids /\ remote.jobs[id] # NoJob
Job(id) == remote.jobs[id].values
Of(cluster, schedule) ==
  {id \in Ids : Exists(id) /\ Job(id).cluster = cluster /\ Job(id).schedule = schedule}

\* The ID CAST AI gives next: one that was never used is as good as another.
Fresh == {id \in Ids : ~Exists(id) /\ id # saved.id /\ id # run.id}
NewId == CHOOSE id \in Fresh : TRUE

Init ==
  /\ \E unique \in BOOLEAN :
       remote = [unique |-> unique, jobs |-> [id \in Ids |-> NoJob]]
  /\ want \in Values
  /\ saved = NotSaved
  /\ run = Run("idle", "none", NoId)
  /\ quiet = TRUE
  /\ trouble = MaxTrouble

Trouble ==
  /\ trouble > 0
  /\ trouble' = trouble - 1

\* The attributes an operation uses: the planned ones, or those of the state.
Given == IF run.op \in {"create", "update"} THEN want ELSE saved.values

\* Jobs are looked up in one cluster.
Found == Exists(run.id) /\ Job(run.id).cluster = Given.cluster

-----------------------------------------------------------------------------
(* What the calls do at CAST AI *)

Accepts(values) == remote.unique => Of(values.cluster, values.schedule) = {}

Post ==
  /\ run.pc = "post"
  /\ Accepts(want)
  /\ Fresh # {}
  /\ remote' = [remote EXCEPT !.jobs[NewId] = [values |-> want, ours |-> TRUE]]

Put ==
  /\ run.pc = "put"
  /\ Found
  /\ remote' = [remote EXCEPT !.jobs[run.id].values.enabled = want.enabled]

Delete ==
  /\ run.pc = "delete"
  /\ Found
  /\ remote' = [remote EXCEPT !.jobs[run.id] = NoJob]

MaybeCarriedOut ==
  \/ UNCHANGED remote
  \/ Post
  \/ Put
  \/ Delete

-----------------------------------------------------------------------------
(* What is saved *)

\* Mutant: an update that fails drops the resource from the state.
AfterError_Drops == IF run.op = "update" THEN NotSaved ELSE saved

\* SDKv2 saves the planned values of an update that fails, and as tainted a
\* resource whose create fails after SetId.
AfterError ==
  IF run.op = "update" THEN [saved EXCEPT !.values = want]
  ELSE IF run.op = "create" /\ run.id # NoId THEN Saved(run.id, TRUE, want)
  ELSE saved

Fails ==
  /\ saved' = AfterError
  /\ Goes("failed")

\* Read ends: the refresh is followed by the plan, a create or update is done.
Keeps(id) ==
  /\ saved' = Saved(id, run.op = "none" /\ saved.tainted, Job(id))
  /\ run' = [run EXCEPT !.pc = IF run.op = "none" THEN "plan" ELSE "done", !.id = id]

\* There is nothing (any more): what is wanted is created in the same run.
\* Terraform takes an update that forgets the resource for a failure, and keeps
\* what it had.
Forgets ==
  IF run.op = "update" THEN UNCHANGED saved /\ Goes("failed")
  ELSE /\ saved' = NotSaved
       /\ IF want # Absent THEN run' = Run("list", "create", NoId) ELSE Goes("done")

-----------------------------------------------------------------------------
(* Refresh and plan *)

StartApply ==
  /\ run.pc \in Ended
  /\ run' = IF saved.id # NoId THEN Run("read", "none", saved.id)
            ELSE IF want # Absent THEN Run("list", "create", NoId)
            ELSE Run("done", "none", NoId)
  /\ quiet' = TRUE
  /\ UNCHANGED <<remote, want, saved, trouble>>

ReadFound ==
  /\ run.pc = "read"
  /\ Found
  /\ Keeps(run.id)
  /\ UNCHANGED <<remote, want, quiet, trouble>>

\* A new resource is not looked for again: the missing job is dereferenced.
ReadMissing ==
  /\ run.pc = "read"
  /\ ~Found
  /\ Goes(IF run.op = "create" THEN "killed" ELSE "relist")
  /\ UNCHANGED <<remote, want, saved, quiet, trouble>>

SameSchedule == Of(Given.cluster, Given.schedule)

RelistFound ==
  /\ run.pc = "relist"
  /\ \E id \in SameSchedule : Keeps(id)
  /\ UNCHANGED <<remote, want, quiet, trouble>>

\* Mutant: a job that is missing stays in the state.
RelistMissing_Stays ==
  /\ run.pc = "relist"
  /\ SameSchedule = {}
  /\ Goes(IF run.op = "none" THEN "plan" ELSE "done")
  /\ UNCHANGED <<remote, want, saved, quiet, trouble>>

\* "Rebalancing job not found, removing from state"
RelistMissing ==
  /\ run.pc = "relist"
  /\ SameSchedule = {}
  /\ Forgets
  /\ UNCHANGED <<remote, want, quiet, trouble>>

Plan ==
  /\ run.pc = "plan"
  /\ run' = IF want = Absent \/ saved.tainted THEN Run("delete", "delete", saved.id)
            ELSE IF saved.values = want THEN [run EXCEPT !.pc = "done"]
            ELSE Run("put", "update", saved.id)
  /\ UNCHANGED <<remote, want, saved, quiet, trouble>>

-----------------------------------------------------------------------------
(* Create, Update, Delete *)

\* Mutant: a job is made without looking whether there is one.
Existing_Ignored == {}

Existing == Of(want.cluster, want.schedule)

\* Mutant: the job that is found is adopted as it is.
ListFound_AsItIs ==
  /\ run.pc = "list"
  /\ \E id \in Existing : run' = Run("read", "create", id)
  /\ UNCHANGED <<remote, want, saved, quiet, trouble>>

ListFound ==
  /\ run.pc = "list"
  /\ \E id \in Existing : run' = Run("put", "create", id)
  /\ UNCHANGED <<remote, want, saved, quiet, trouble>>

ListEmpty ==
  /\ run.pc = "list"
  /\ Existing = {}
  /\ Goes("post")
  /\ UNCHANGED <<remote, want, saved, quiet, trouble>>

Create ==
  /\ Post
  /\ run' = Run("read", "create", NewId)
  /\ UNCHANGED <<want, saved, quiet, trouble>>

Update ==
  /\ Put
  /\ Goes("read")
  /\ UNCHANGED <<want, saved, quiet, trouble>>

Destroy ==
  /\ Delete
  /\ Forgets
  /\ UNCHANGED <<want, quiet, trouble>>

\* There is a job already, or none any more.
Refused ==
  /\ \/ run.pc = "post" /\ ~Accepts(want)
     \/ run.pc \in {"put", "delete"} /\ ~Found
  /\ Fails
  /\ UNCHANGED <<remote, want, quiet, trouble>>

CallFails ==
  /\ run.pc \in Steps
  /\ Trouble
  /\ MaybeCarriedOut
  /\ Fails
  /\ UNCHANGED <<want, quiet>>

Killed ==
  /\ run.pc \in Steps
  /\ Trouble
  /\ MaybeCarriedOut
  /\ Goes("killed")
  /\ UNCHANGED <<want, saved, quiet>>

-----------------------------------------------------------------------------
(* Everybody else *)

\* terraform import by cluster and name of the schedule, and its Read.
Import == \E id \in Ids :
  /\ Trouble
  /\ run.pc \in Ended
  /\ saved.id = NoId
  /\ Exists(id)
  /\ saved' = Saved(id, FALSE, Job(id))
  /\ UNCHANGED <<remote, want, run, quiet>>

EditConfig ==
  /\ Trouble
  /\ run.pc \in Ended
  /\ want' \in (Values \cup {Absent}) \ {want}
  /\ quiet' = FALSE
  /\ UNCHANGED <<remote, saved, run>>

\* The console, or another workspace: jobs are made, switched and deleted.
Others ==
  /\ Trouble
  /\ \/ \E values \in Values :
          /\ Fresh # {}
          /\ Accepts(values)
          /\ remote' =
               [remote EXCEPT !.jobs[NewId] = [values |-> values, ours |-> FALSE]]
     \/ \E id \in Ids :
          /\ Exists(id)
          /\ \/ remote' = [remote EXCEPT !.jobs[id].values.enabled = ~@]
             \/ remote' = [remote EXCEPT !.jobs[id] = NoJob]
  /\ quiet' = FALSE
  /\ UNCHANGED <<want, saved, run>>

-----------------------------------------------------------------------------
Terraform ==
  \/ ReadFound \/ ReadMissing \/ RelistFound \/ RelistMissing \/ Plan
  \/ ListFound \/ ListEmpty \/ Create \/ Update \/ Destroy \/ Refused

Next ==
  \/ StartApply \/ Terraform
  \/ CallFails \/ Killed
  \/ Import \/ EditConfig \/ Others

Spec == Init /\ [][Next]_vars

\* Terraform runs to its end and the user applies again and again.
FairSpec == Spec /\ WF_vars(StartApply) /\ WF_vars(Terraform)

-----------------------------------------------------------------------------
(* Properties *)

\* The resource never makes a second job for a cluster and schedule it has
\* made one for: whatever answers are lost, the next create finds it.
OneJobEach ==
  \A i, j \in Ids :
    /\ Exists(i) /\ remote.jobs[i].ours
    /\ Exists(j) /\ remote.jobs[j].ours
    /\ Job(i).cluster = Job(j).cluster /\ Job(i).schedule = Job(j).schedule
    => i = j

\* When a job that is there may leave the state.
KnownLoss ==
  Exists(saved.id) /\ remote' = remote /\ saved'.id # saved.id =>
    Given.cluster # Job(saved.id).cluster

\* A job that exists leaves the state, not having been deleted, only because
\* the state names another cluster than the job's (a change of the cluster
\* that failed and was saved): the job then goes on in the old cluster.
OnlyKnownLosses == [][KnownLoss]_vars

\* An undisturbed create that ends without an error leaves a job as configured,
\* an undisturbed update one that is enabled as configured, and the state shows
\* the job as it is.
SuccessIsReal ==
  run.pc = "done" /\ run.op \in {"create", "update"} /\ quiet =>
    /\ Exists(saved.id)
    /\ saved = Saved(saved.id, FALSE, Job(saved.id))
    /\ Job(saved.id).enabled = want.enabled
    /\ run.op = "create" => Job(saved.id) = want

Reached ==
  IF want = Absent THEN saved.id = NoId
  ELSE Exists(saved.id) /\ Job(saved.id) = want /\ saved = Saved(saved.id, FALSE, want)

\* It is reached, and no run has begun to change anything.
AtRest ==
  /\ Reached
  /\ \/ run.pc \in Ended
     \/ want # Absent /\ \E pc \in {"read", "plan"} : run = Run(pc, "none", saved.id)

\* A change of the schedule is planned for ever and never sent.
ScheduleStays ==
  want # Absent /\ Exists(saved.id) /\ Job(saved.id).schedule # want.schedule

\* Where repeated applies come to rest.
Settled == Reached \/ ScheduleStays

\* After the trouble, repeated applies reach the configured job, unless the
\* schedule was to change in place.
Convergence == <>[]Settled
=============================================================================
