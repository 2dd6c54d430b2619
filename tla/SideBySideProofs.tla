------------------------- MODULE SideBySideProofs -------------------------
(***************************************************************************)
(* The other components of SideBySide, for every value of their constants  *)
(* (RebalancingJob, NodeTemplate, OneTimeSecret and ClusterIdentity), and  *)
(* with them the properties of SideBySide itself.                          *)
(*                                                                         *)
(* RebalancingJob: OneJobEach needs to know what a create has looked up    *)
(* before it makes a job (JobAlone), and SuccessIsReal what an undisturbed *)
(* run has brought about before it reads the job back (JobDelivered).      *)
(*                                                                         *)
(* NodeTemplate: SuccessIsReal needs TemplateDelivered in the same way;    *)
(* and as the price is not sent if the state has none, TemplateInsight:    *)
(* where Read has left the state without a price, there is none.           *)
(*                                                                         *)
(* OneTimeSecret: OnlyKnownLosses needs SecretKept for a key, whose token  *)
(* is wherever the key is known, and SecretInsight for a connection, which *)
(* may have been switched by others.                                       *)
(*                                                                         *)
(* ClusterIdentity: SuccessIsReal and OnlyKnownLosses need IdentityInsight,*)
(* what an undisturbed refresh has seen, and what of it an apply leaves as *)
(* it is; and IdentityShape, what is still to be made or destroyed.        *)
(*                                                                         *)
(* SideBySide: Sound is the invariant of whichever component there is; a   *)
(* step is one of that component's specification (OwnStep).  StaysReached  *)
(* needs of each component that what a refresh of it reads, while it is    *)
(* reached, is what the state has (JobRests, and so on).                   *)
(***************************************************************************)
EXTENDS SideBySideSharedProofs

-----------------------------------------------------------------------------
(* The rebalancing job: what the call that comes next is for *)

JobPurpose ==
  /\ run.pc \in {"list", "post"} => run.op = "create"
  /\ run.pc = "put" => run.op \in {"create", "update"} /\ run.id \in Ids
  /\ run.pc = "read" => run.op # "delete" /\ run.id \in Ids
  /\ run.pc = "relist" => run.op \in {"none", "update"}
  /\ run.pc = "plan" => run.op = "none"
  /\ run.pc = "delete" => run.op = "delete"
  /\ run.pc \in Job!Steps /\ run.op = "create" => saved = Job!NotSaved /\ want \in Job!Values
  /\ run.pc \in Job!Steps /\ run.op = "update" => want \in Job!Values
  /\ run.pc \in Job!Steps /\ run.op # "create" => saved # Job!NotSaved /\ run.id = saved.id

\* Who is about to make a job has found none of its own.
JobAlone == run.pc = "post" => \A id \in Ids :
  Job!Exists(id) /\ remote.jobs[id].ours =>
    Job!Job(id).cluster # want.cluster \/ Job!Job(id).schedule # want.schedule

\* A job is looked for by its schedule when its ID was not found in the cluster.
JobMissed == run.pc = "relist" /\ Job!Exists(run.id) =>
  Job!Job(run.id).cluster # Job!Given.cluster

\* Of an undisturbed run: what was found or sent is there to be read.
JobDelivered == quiet =>
  /\ run.pc = "put" /\ run.op = "create" =>
       Job!Exists(run.id) /\ Job!Job(run.id).schedule = want.schedule
  /\ run.pc = "read" /\ run.op \in {"create", "update"} =>
       /\ Job!Found
       /\ Job!Job(run.id).enabled = want.enabled
       /\ run.op = "create" => Job!Job(run.id) = want
  /\ run.pc = "relist" => run.op # "update"

JobSound ==
  /\ Job!TypeOK /\ Job!OneJobEach /\ Job!SuccessIsReal
  /\ JobPurpose /\ JobAlone /\ JobMissed /\ JobDelivered

-----------------------------------------------------------------------------
(* The records the actions build *)

JobRemotes == [unique: BOOLEAN, jobs: [Ids -> Job!Jobs \cup {NoJob}]]
JobPCs == Job!Ended \cup Job!Steps
JobOps == {"none", "create", "update", "delete"}
JobRuns == [pc: JobPCs, op: JobOps, id: Ids \cup {NoId}]
JobKnown == [id: Ids, tainted: BOOLEAN, values: Job!Values]

LEMMA JobRunType ==
  ASSUME NEW pc \in JobPCs, NEW op \in JobOps, NEW id \in Ids \cup {NoId}
  PROVE  /\ Job!Run(pc, op, id) \in JobRuns
         /\ Job!Run(pc, op, id).pc = pc
         /\ Job!Run(pc, op, id).op = op
         /\ Job!Run(pc, op, id).id = id
BY DEF Job!Run, JobRuns

LEMMA JobGoesType ==
  ASSUME Job!TypeOK, NEW pc \in JobPCs, Job!Goes(pc)
  PROVE  run' \in JobRuns /\ run'.pc = pc /\ run'.op = run.op /\ run'.id = run.id
BY DEF Job!Goes, Job!TypeOK, JobRuns, JobPCs, JobOps

LEMMA JobSavedType ==
  ASSUME Job!JobAssumption, Job!TypeOK
  PROVE  /\ saved.id \in Ids \cup {NoId}
         /\ saved.id = NoId <=> saved = Job!NotSaved
         /\ saved # Job!NotSaved => saved \in JobKnown
BY DEF Job!JobAssumption, Job!TypeOK, Job!NotSaved, JobKnown

LEMMA JobRecordType ==
  ASSUME NEW id \in Ids, NEW tainted \in BOOLEAN, NEW values \in Job!Values
  PROVE  Job!Saved(id, tainted, values) \in JobKnown /\ Job!Saved(id, tainted, values).id = id
BY DEF Job!Saved, JobKnown

LEMMA JobType ==
  ASSUME Job!JobAssumption, Job!TypeOK, NEW id \in Ids, Job!Exists(id)
  PROVE  remote.jobs[id] \in Job!Jobs /\ Job!Job(id) \in Job!Values
BY DEF Job!JobAssumption, Job!TypeOK, Job!Exists, Job!Job, Job!Jobs

-----------------------------------------------------------------------------
(* What may become of a job *)

\* The job stays what it is for, whoever switches it, or goes.
JobStays(id) == Job!Exists(id)' =>
  /\ Job!Exists(id)
  /\ Job!Job(id)'.cluster = Job!Job(id).cluster /\ Job!Job(id)'.schedule = Job!Job(id).schedule
  /\ remote'.jobs[id].ours = remote.jobs[id].ours

LEMMA JobSwitched ==
  ASSUME Job!JobAssumption, Job!TypeOK, NEW one \in Ids, Job!Exists(one), NEW flag \in BOOLEAN,
         remote' = [remote EXCEPT !.jobs[one].values.enabled = flag]
  PROVE  /\ remote' \in JobRemotes
         /\ \A id \in Ids : JobStays(id)
         /\ remote'.jobs[one] # NoJob
         /\ remote'.jobs[one].values.enabled = flag
<1>1. /\ remote.jobs[one] \in Job!Jobs
      /\ remote \in JobRemotes
  BY JobType DEF Job!TypeOK, JobRemotes
<1> DEFINE job == [remote.jobs[one] EXCEPT !.values.enabled = flag]
<1>2. /\ job \in Job!Jobs
      /\ job.values.cluster = remote.jobs[one].values.cluster
      /\ job.values.schedule = remote.jobs[one].values.schedule
      /\ job.values.enabled = flag
      /\ job.ours = remote.jobs[one].ours
  BY <1>1 DEF Job!Jobs, Job!Values
<1>3. remote' = [remote EXCEPT !.jobs = [remote.jobs EXCEPT ![one] = job]]
  BY <1>1 DEF JobRemotes
<1> HIDE DEF job
<1>4. /\ remote' \in JobRemotes
      /\ remote'.jobs[one] = job
      /\ \A id \in Ids : id # one => remote'.jobs[id] = remote.jobs[id]
  BY <1>1, <1>2, <1>3 DEF JobRemotes
<1>5. job # NoJob
  BY <1>2 DEF Job!JobAssumption
<1> QED
  BY <1>2, <1>4, <1>5 DEF JobStays, Job!Exists, Job!Job

LEMMA JobPut ==
  ASSUME Job!JobAssumption, Job!TypeOK, want \in Job!Values, Job!Put
  PROVE  /\ remote' \in JobRemotes
         /\ \A id \in Ids : JobStays(id)
         /\ remote'.jobs[run.id] # NoJob
         /\ remote'.jobs[run.id].values.enabled = want.enabled
<1>1. /\ run.id \in Ids /\ Job!Exists(run.id)
      /\ remote' = [remote EXCEPT !.jobs[run.id].values.enabled = want.enabled]
  BY DEF Job!Put, Job!Found, Job!Exists
<1>2. want.enabled \in BOOLEAN
  BY DEF Job!Values
<1> QED
  BY <1>1, <1>2, JobSwitched

LEMMA JobDelete ==
  ASSUME Job!JobAssumption, Job!TypeOK, NEW one \in Ids,
         remote' = [remote EXCEPT !.jobs[one] = NoJob]
  PROVE  /\ remote' \in JobRemotes
         /\ ~Job!Exists(one)'
         /\ \A id \in Ids : JobStays(id)
<1>1. remote \in JobRemotes
  BY DEF Job!TypeOK, JobRemotes
<1>2. /\ remote' \in JobRemotes
      /\ remote'.jobs[one] = NoJob
      /\ \A id \in Ids : id # one => remote'.jobs[id] = remote.jobs[id]
  BY <1>1 DEF JobRemotes
<1> QED
  BY <1>2 DEF JobStays, Job!Exists, Job!Job

\* A new job has an ID of its own.
LEMMA JobMade ==
  ASSUME Job!JobAssumption, Job!TypeOK, Job!Fresh # {}, NEW job \in Job!Jobs,
         remote' = [remote EXCEPT !.jobs[Job!NewId] = job]
  PROVE  /\ remote' \in JobRemotes
         /\ Job!NewId \in Ids /\ ~Job!Exists(Job!NewId)
         /\ Job!NewId # saved.id /\ Job!NewId # run.id
         /\ remote'.jobs[Job!NewId] = job
         /\ \A id \in Ids \ {Job!NewId} : JobStays(id)
<1>1. Job!NewId \in Job!Fresh
  BY DEF Job!NewId
<1>2. remote \in JobRemotes
  BY DEF Job!TypeOK, JobRemotes
<1>3. /\ Job!NewId \in Ids /\ ~Job!Exists(Job!NewId)
      /\ Job!NewId # saved.id /\ Job!NewId # run.id
  BY <1>1 DEF Job!Fresh
<1>4. /\ remote' \in JobRemotes
      /\ remote'.jobs[Job!NewId] = job
      /\ \A id \in Ids \ {Job!NewId} : remote'.jobs[id] = remote.jobs[id]
  BY <1>2, <1>3 DEF JobRemotes
<1> QED
  BY <1>3, <1>4 DEF JobStays, Job!Exists, Job!Job, Job!JobAssumption

\* Where jobs stay, no two become the same.
LEMMA JobsStay ==
  ASSUME Job!OneJobEach, \A id \in Ids : JobStays(id)
  PROVE  Job!OneJobEach'
BY DEF Job!OneJobEach, JobStays, Job!Exists, Job!Job

-----------------------------------------------------------------------------
(* The steps of Terraform *)

LEMMA JobTroubleType ==
  ASSUME Job!JobAssumption, Job!TypeOK, Job!Trouble
  PROVE  trouble' \in 0..MaxTrouble
BY DEF Job!JobAssumption, Job!TypeOK, Job!Trouble

\* A run that failed or died promises nothing.
LEMMA JobStops ==
  ASSUME Job!JobAssumption, JobSound, remote' \in JobRemotes, Job!OneJobEach',
         saved' \in {Job!NotSaved} \cup JobKnown, run' \in JobRuns,
         run'.pc \in {"failed", "killed"}, UNCHANGED <<want, quiet>>,
         trouble' \in 0..MaxTrouble
  PROVE  JobSound'
<1>1. Job!TypeOK'
  BY DEF JobSound, Job!TypeOK, JobRemotes, JobKnown, JobRuns, JobPCs, JobOps
<1>2. run'.pc \notin Job!Steps /\ run'.pc # "done"
  BY DEF Job!Steps
<1> QED
  BY <1>1, <1>2
  DEF JobSound, JobPurpose, JobAlone, JobMissed, JobDelivered, Job!SuccessIsReal,
      Job!Steps

LEMMA JobErrorType ==
  ASSUME Job!JobAssumption, Job!TypeOK, JobPurpose, run.pc \in Job!Steps
  PROVE  /\ Job!AfterError \in {Job!NotSaved} \cup JobKnown
         /\ saved # Job!NotSaved => Job!AfterError.id = saved.id
<1>1. CASE run.op = "update"
  BY <1>1, JobSavedType DEF Job!AfterError, JobPurpose, JobKnown
<1>2. CASE run.op = "create"
  <2>1. run.id \in Ids \cup {NoId} BY DEF Job!TypeOK
  <2> QED BY <1>2, <2>1, JobRecordType DEF Job!AfterError, JobPurpose
<1>3. CASE run.op \notin {"create", "update"}
  BY <1>3, JobSavedType DEF Job!AfterError
<1> QED
  BY <1>1, <1>2, <1>3

\* A call that is not answered may have been carried out.
LEMMA JobMaybe ==
  ASSUME Job!JobAssumption, JobSound, Job!MaybeCarriedOut
  PROVE  remote' \in JobRemotes /\ Job!OneJobEach'
<1>1. CASE UNCHANGED remote
  BY <1>1 DEF JobSound, Job!TypeOK, JobRemotes, Job!OneJobEach, Job!Exists, Job!Job
<1>2. CASE Job!Post
  <2>1. run.op = "create" /\ want \in Job!Values
    BY <1>2 DEF Job!Post, JobSound, JobPurpose, Job!Steps
  <2> DEFINE job == [values |-> want, ours |-> TRUE]
  <2>2. job \in Job!Jobs
    BY <2>1 DEF Job!Jobs
  <2>3. /\ remote' \in JobRemotes
        /\ Job!NewId \in Ids /\ ~Job!Exists(Job!NewId)
        /\ remote'.jobs[Job!NewId] = job
        /\ \A id \in Ids \ {Job!NewId} : JobStays(id)
    BY <1>2, <2>2, JobMade DEF Job!Post, JobSound
  <2>4. \A id \in Ids \ {Job!NewId} : Job!Exists(id)' /\ remote'.jobs[id].ours =>
          remote'.jobs[id].values.cluster # want.cluster
            \/ remote'.jobs[id].values.schedule # want.schedule
    BY <1>2, <2>3 DEF Job!Post, JobSound, JobAlone, JobStays, Job!Job
  <2>5. \A i, j \in Ids \ {Job!NewId} : Job!Exists(i)' /\ remote'.jobs[i].ours
          /\ Job!Exists(j)' /\ remote'.jobs[j].ours
          /\ remote'.jobs[i].values.cluster = remote'.jobs[j].values.cluster
          /\ remote'.jobs[i].values.schedule = remote'.jobs[j].values.schedule => i = j
    BY <2>3 DEF JobSound, Job!OneJobEach, JobStays, Job!Job
  <2> QED
    BY <2>3, <2>4, <2>5 DEF Job!OneJobEach, Job!Job
<1>3. CASE Job!Put
  BY <1>3, JobPut, JobsStay DEF JobSound, JobPurpose, Job!Put, Job!Steps
<1>4. CASE Job!Delete
  BY <1>4, JobDelete, JobsStay DEF JobSound, Job!Delete, Job!Found, Job!Exists
<1> QED
  BY <1>1, <1>2, <1>3, <1>4 DEF Job!MaybeCarriedOut

LEMMA JobFailsSound ==
  ASSUME Job!JobAssumption, JobSound, Job!CallFails \/ Job!Killed \/ Job!Refused
  PROVE  JobSound'
<1>1. run.pc \in Job!Steps /\ UNCHANGED <<want, quiet>> /\ trouble' \in 0..MaxTrouble
  BY JobTroubleType
  DEF Job!CallFails, Job!Killed, Job!Refused, Job!Steps, JobSound, Job!TypeOK
<1>2. /\ remote' \in JobRemotes /\ Job!OneJobEach'
  BY JobMaybe DEF Job!CallFails, Job!Killed, Job!Refused, Job!MaybeCarriedOut
<1>3. CASE Job!CallFails \/ Job!Refused
  <2>1. saved' = Job!AfterError /\ Job!Goes("failed")
    BY <1>3 DEF Job!CallFails, Job!Refused, Job!Fails
  <2>2. saved' \in {Job!NotSaved} \cup JobKnown
    BY <1>1, <2>1, JobErrorType DEF JobSound
  <2>3. run' \in JobRuns /\ run'.pc = "failed"
    BY <2>1, JobGoesType DEF JobSound, JobPCs, Job!Ended
  <2> QED
    BY <1>1, <1>2, <2>2, <2>3, JobStops
<1>4. CASE Job!Killed
  <2>1. run' \in JobRuns /\ run'.pc = "killed"
    BY <1>4, JobGoesType DEF Job!Killed, JobSound, JobPCs, Job!Ended
  <2>2. saved' \in {Job!NotSaved} \cup JobKnown
    BY <1>4 DEF Job!Killed, JobSound, Job!TypeOK, JobKnown
  <2> QED
    BY <1>1, <1>2, <2>1, <2>2, JobStops
<1> QED
  BY <1>3, <1>4

\* Where no job changes, the jobs need no further look.
LEMMA JobQuiet ==
  ASSUME JobSound, UNCHANGED remote
  PROVE  /\ remote' \in JobRemotes /\ Job!OneJobEach'
         /\ \A id \in Ids : Job!Exists(id)' = Job!Exists(id) /\ Job!Job(id)' = Job!Job(id)
BY DEF JobSound, Job!TypeOK, JobRemotes, Job!OneJobEach, Job!Exists, Job!Job

LEMMA JobBeginsSound ==
  ASSUME Job!JobAssumption, JobSound,
         Job!StartApply \/ Job!Plan \/ Job!ListFound \/ Job!ListEmpty
  PROVE  JobSound'
<1>0. Job!TypeOK /\ JobPurpose
  BY DEF JobSound
<1>1. UNCHANGED <<remote, want, saved, trouble>>
  BY DEF Job!StartApply, Job!Plan, Job!ListFound, Job!ListEmpty
<1>2. remote' \in JobRemotes /\ Job!OneJobEach'
  BY <1>1, JobQuiet
<1>3. want # Absent => want \in Job!Values
  BY <1>0 DEF Job!TypeOK
<1>4. saved.id \in Ids \cup {NoId} /\ (saved.id = NoId <=> saved = Job!NotSaved)
  BY <1>0, JobSavedType
<1>5. CASE Job!StartApply
  <2>1. run' = IF saved.id # NoId THEN Job!Run("read", "none", saved.id)
               ELSE IF want # Absent THEN Job!Run("list", "create", NoId)
               ELSE Job!Run("done", "none", NoId)
    BY <1>5 DEF Job!StartApply
  <2>2. /\ run' \in JobRuns
        /\ \/ run'.pc = "read" /\ run'.op = "none" /\ run'.id = saved.id /\ saved.id # NoId
           \/ run'.pc = "list" /\ run'.op = "create" /\ saved.id = NoId /\ want # Absent
           \/ run'.pc = "done" /\ run'.op = "none"
    BY <1>4, <2>1, JobRunType DEF JobPCs, JobOps, Job!Ended, Job!Steps
  <2>3. quiet' \in BOOLEAN
    BY <1>5 DEF Job!StartApply
  <2>4. Job!TypeOK'
    BY <1>0, <1>1, <2>2, <2>3 DEF Job!TypeOK, JobRuns, JobPCs, JobOps
  <2>5. JobPurpose'
    BY <1>1, <1>3, <1>4, <2>2 DEF JobPurpose, Job!Steps
  <2> QED
    BY <1>2, <2>2, <2>4, <2>5
    DEF JobSound, JobAlone, JobMissed, JobDelivered, Job!SuccessIsReal
<1>6. CASE Job!Plan
  <2>1. /\ run.pc = "plan" /\ run.op = "none" /\ saved # Job!NotSaved /\ quiet' = quiet
        /\ run' = IF want = Absent \/ saved.tainted THEN Job!Run("delete", "delete", saved.id)
                  ELSE IF saved.values = want THEN [run EXCEPT !.pc = "done"]
                  ELSE Job!Run("put", "update", saved.id)
    BY <1>0, <1>6 DEF Job!Plan, JobPurpose, Job!Steps
  <2>2. [run EXCEPT !.pc = "done"] \in JobRuns
    BY <1>0 DEF Job!TypeOK, JobRuns, JobPCs, JobOps, Job!Ended
  <2>3. /\ run' \in JobRuns
        /\ \/ run'.pc = "delete" /\ run'.op = "delete" /\ run'.id = saved.id
           \/ run'.pc = "put" /\ run'.op = "update" /\ run'.id = saved.id /\ want # Absent
           \/ run'.pc = "done" /\ run'.op = "none"
    <3>1. CASE run' = Job!Run("delete", "delete", saved.id)
      BY <1>4, <3>1, JobRunType DEF JobPCs, JobOps, Job!Ended, Job!Steps
    <3>2. CASE run' = [run EXCEPT !.pc = "done"]
      BY <1>0, <2>1, <2>2, <3>2 DEF Job!TypeOK
    <3>3. CASE run' = Job!Run("put", "update", saved.id) /\ want # Absent
      BY <1>4, <3>3, JobRunType DEF JobPCs, JobOps, Job!Ended, Job!Steps
    <3> QED
      BY <2>1, <3>1, <3>2, <3>3
  <2>4. Job!TypeOK'
    BY <1>0, <1>1, <2>1, <2>3 DEF Job!TypeOK, JobRuns, JobPCs, JobOps
  <2>5. JobPurpose'
    BY <1>1, <1>3, <1>4, <2>1, <2>3 DEF JobPurpose, Job!Steps
  <2> QED
    BY <1>2, <2>3, <2>4, <2>5
    DEF JobSound, JobAlone, JobMissed, JobDelivered, Job!SuccessIsReal
<1>7. CASE Job!ListFound
  <2>1. PICK id \in Job!Existing : run' = Job!Run("put", "create", id)
    BY <1>7 DEF Job!ListFound
  <2>2. id \in Ids /\ Job!Exists(id) /\ Job!Job(id).schedule = want.schedule
    BY DEF Job!Existing, Job!Of
  <2>3. run' \in JobRuns /\ run'.pc = "put" /\ run'.op = "create" /\ run'.id = id
    BY <2>1, <2>2, JobRunType DEF JobPCs, JobOps, Job!Ended, Job!Steps
  <2>4. run.pc = "list" /\ quiet' = quiet
    BY <1>7 DEF Job!ListFound
  <2>5. Job!TypeOK'
    BY <1>0, <1>1, <2>3, <2>4 DEF Job!TypeOK, JobRuns, JobPCs, JobOps
  <2>6. JobPurpose'
    BY <1>0, <1>1, <2>2, <2>3, <2>4 DEF JobPurpose, Job!Steps
  <2>7. JobDelivered'
    BY <1>1, <2>2, <2>3 DEF JobDelivered, Job!Exists, Job!Job
  <2> QED
    BY <1>2, <2>3, <2>5, <2>6, <2>7 DEF JobSound, JobAlone, JobMissed, Job!SuccessIsReal
<1>8. CASE Job!ListEmpty
  <2>1. run.pc = "list" /\ Job!Existing = {} /\ Job!Goes("post") /\ quiet' = quiet
    BY <1>8 DEF Job!ListEmpty
  <2>2. run' \in JobRuns /\ run'.pc = "post" /\ run'.op = run.op /\ run'.id = run.id
    BY <1>0, <2>1, JobGoesType DEF JobPCs, Job!Steps
  <2>3. Job!TypeOK'
    BY <1>0, <1>1, <2>1, <2>2 DEF Job!TypeOK, JobRuns, JobPCs, JobOps
  <2>4. JobPurpose'
    BY <1>0, <1>1, <2>1, <2>2 DEF JobPurpose, Job!Steps
  <2>5. JobAlone'
    BY <1>1, <2>1 DEF JobAlone, Job!Existing, Job!Of, Job!Exists, Job!Job
  <2> QED
    BY <1>2, <2>2, <2>3, <2>4, <2>5 DEF JobSound, JobMissed, JobDelivered, Job!SuccessIsReal
<1> QED
  BY <1>5, <1>6, <1>7, <1>8

LEMMA JobReadSound ==
  ASSUME Job!JobAssumption, JobSound, Job!ReadFound \/ Job!RelistFound
  PROVE  JobSound'
<1>0. Job!TypeOK /\ JobPurpose
  BY DEF JobSound
<1>1. /\ UNCHANGED <<remote, want, quiet, trouble>>
      /\ run.pc \in {"read", "relist"}
      /\ run.op \in {"none", "update", "create"}
  <2>1. run.op \in JobOps
    BY <1>0 DEF Job!TypeOK, JobOps
  <2> QED
    BY <1>0, <2>1 DEF Job!ReadFound, Job!RelistFound, JobPurpose, JobOps
<1>2. PICK id \in Ids : /\ Job!Keeps(id) /\ Job!Exists(id)
                        /\ run.pc = "read" => id = run.id /\ Job!Found
  BY <1>0
  DEF Job!ReadFound, Job!RelistFound, Job!SameSchedule, Job!Of, JobPurpose, Job!Found
<1>3. Job!Job(id) \in Job!Values
  BY <1>0, <1>2, JobType
<1>4. /\ saved' = Job!Saved(id, run.op = "none" /\ saved.tainted, Job!Job(id))
      /\ run' = [run EXCEPT !.pc = IF run.op = "none" THEN "plan" ELSE "done", !.id = id]
  BY <1>2 DEF Job!Keeps
<1>5. \A tainted \in BOOLEAN : /\ Job!Saved(id, tainted, Job!Job(id)) \in JobKnown
                               /\ Job!Saved(id, tainted, Job!Job(id)).id = id
  BY <1>3, JobRecordType
<1>6. saved' \in JobKnown /\ saved'.id = id /\ saved' # Job!NotSaved
  <2> DEFINE tainted == run.op = "none" /\ saved.tainted
  <2>1. tainted \in BOOLEAN OBVIOUS
  <2>2. saved' = Job!Saved(id, tainted, Job!Job(id)) BY <1>4
  <2>3. Job!NotSaved.id \notin Ids BY DEF Job!NotSaved, Job!JobAssumption
  <2> HIDE DEF tainted
  <2> QED BY <1>5, <2>1, <2>2, <2>3
<1>7. /\ run' \in JobRuns /\ run'.id = id /\ run'.op = run.op
      /\ run'.pc = IF run.op = "none" THEN "plan" ELSE "done"
  BY <1>0, <1>1, <1>4 DEF Job!TypeOK, JobRuns, JobPCs, JobOps, Job!Ended, Job!Steps
<1>8. remote' \in JobRemotes /\ Job!OneJobEach'
  BY <1>1, JobQuiet
<1>9. Job!TypeOK'
  BY <1>0, <1>1, <1>6, <1>7 DEF Job!TypeOK, JobRuns, JobPCs, JobOps, JobKnown
<1>10. JobPurpose'
  BY <1>1, <1>6, <1>7 DEF JobPurpose, Job!Steps
<1>11. Job!SuccessIsReal'
  <2> SUFFICES ASSUME run.op \in {"create", "update"}, quiet
      PROVE  Job!SuccessIsReal'
    BY <1>1, <1>7 DEF Job!SuccessIsReal
  <2>1. run.pc = "read"
    BY <1>0, <1>1 DEF JobSound, JobDelivered, JobPurpose
  <2>2. /\ id = run.id /\ Job!Job(id).enabled = want.enabled
        /\ run.op = "create" => Job!Job(id) = want
    BY <1>2, <2>1 DEF JobSound, JobDelivered
  <2>3. saved' = Job!Saved(id, FALSE, Job!Job(id))
    BY <1>4
  <2>4. Job!Exists(id)' /\ Job!Job(id)' = Job!Job(id)
    BY <1>1, <1>2 DEF Job!Exists, Job!Job
  <2>5. Job!Saved(id, FALSE, Job!Job(id)).id = id
    BY DEF Job!Saved
  <2> QED
    BY <1>1, <1>6, <1>7, <2>2, <2>3, <2>4
    DEF Job!SuccessIsReal, Job!Exists, Job!Job, Job!Saved
<1> QED
  BY <1>7, <1>8, <1>9, <1>10, <1>11 DEF JobSound, JobAlone, JobMissed, JobDelivered

LEMMA JobReadMissingSound ==
  ASSUME Job!JobAssumption, JobSound, Job!ReadMissing
  PROVE  JobSound'
<1>0. Job!TypeOK /\ JobPurpose
  BY DEF JobSound
<1>1. run.pc = "read" /\ ~Job!Found /\ UNCHANGED <<remote, want, saved, quiet, trouble>>
  BY DEF Job!ReadMissing
<1>2. remote' \in JobRemotes /\ Job!OneJobEach'
  BY <1>1, JobQuiet
<1>3. CASE run.op = "create"
  <2>1. run' \in JobRuns /\ run'.pc = "killed"
    BY <1>0, <1>3, JobGoesType DEF Job!ReadMissing, JobPCs, Job!Ended
  <2>2. saved' \in {Job!NotSaved} \cup JobKnown /\ trouble' \in 0..MaxTrouble
    BY <1>0, <1>1 DEF Job!TypeOK, JobKnown
  <2> QED
    BY <1>1, <1>2, <2>1, <2>2, JobStops
<1>4. CASE run.op # "create"
  <2>1. run' \in JobRuns /\ run'.pc = "relist" /\ run'.op = run.op /\ run'.id = run.id
    BY <1>0, <1>4, JobGoesType DEF Job!ReadMissing, JobPCs, Job!Steps
  <2>2. Job!TypeOK'
    BY <1>0, <1>1, <2>1 DEF Job!TypeOK, JobRuns, JobPCs, JobOps
  <2>3. run.op \in {"none", "update"}
    BY <1>0, <1>1, <1>4 DEF JobPurpose, Job!TypeOK
  <2>4. JobPurpose'
    BY <1>0, <1>1, <2>1, <2>3 DEF JobPurpose, Job!Steps
  <2>5. JobMissed'
    BY <1>1, <2>1 DEF JobMissed, Job!Found, Job!Given, Job!Exists, Job!Job
  <2>6. JobDelivered'
    BY <1>1, <2>1, <2>3 DEF JobSound, JobDelivered
  <2> QED
    BY <1>2, <2>1, <2>2, <2>4, <2>5, <2>6 DEF JobSound, JobAlone, Job!SuccessIsReal
<1> QED
  BY <1>3, <1>4

\* There is nothing (any more).
LEMMA JobForgetsSound ==
  ASSUME Job!JobAssumption, JobSound, run.pc \in {"relist", "delete"}, Job!Forgets,
         remote' \in JobRemotes, Job!OneJobEach', UNCHANGED <<want, quiet, trouble>>
  PROVE  JobSound'
<1>0. Job!TypeOK /\ JobPurpose
  BY DEF JobSound
<1>1. trouble' \in 0..MaxTrouble
  BY <1>0 DEF Job!TypeOK
<1>2. CASE run.op = "update"
  <2>1. saved' = saved /\ Job!Goes("failed")
    BY <1>2 DEF Job!Forgets
  <2>2. run' \in JobRuns /\ run'.pc = "failed" /\ saved' \in {Job!NotSaved} \cup JobKnown
    BY <1>0, <2>1, JobGoesType DEF JobPCs, Job!Ended, Job!TypeOK, JobKnown
  <2> QED
    BY <1>1, <2>2, JobStops
<1>3. CASE run.op # "update" /\ want # Absent
  <2>1. saved' = Job!NotSaved /\ run' = Job!Run("list", "create", NoId) /\ want \in Job!Values
    BY <1>0, <1>3 DEF Job!Forgets, Job!TypeOK
  <2>2. run' \in JobRuns /\ run'.pc = "list" /\ run'.op = "create"
    BY <2>1, JobRunType DEF JobPCs, JobOps, Job!Ended, Job!Steps
  <2>3. Job!TypeOK'
    BY <1>0, <2>1, <2>2 DEF Job!TypeOK, JobRemotes, JobRuns, JobPCs, JobOps
  <2>4. JobPurpose'
    BY <2>1, <2>2 DEF JobPurpose, Job!Steps
  <2> QED
    BY <2>2, <2>3, <2>4 DEF JobSound, JobAlone, JobMissed, JobDelivered, Job!SuccessIsReal
<1>4. CASE run.op # "update" /\ want = Absent
  <2>1. saved' = Job!NotSaved /\ Job!Goes("done")
    BY <1>4 DEF Job!Forgets
  <2>2. run' \in JobRuns /\ run'.pc = "done" /\ run'.op = run.op
    BY <1>0, <2>1, JobGoesType DEF JobPCs, Job!Ended
  <2>3. Job!TypeOK'
    BY <1>0, <2>1, <2>2 DEF Job!TypeOK, JobRemotes, JobRuns, JobPCs, JobOps
  <2>4. run.op \in {"none", "delete"}
    BY <1>0, <1>4 DEF JobPurpose
  <2>5. JobPurpose'
    BY <2>2 DEF JobPurpose, Job!Steps
  <2> QED
    BY <2>2, <2>3, <2>4, <2>5
    DEF JobSound, JobAlone, JobMissed, JobDelivered, Job!SuccessIsReal
<1> QED
  BY <1>2, <1>3, <1>4

LEMMA JobEndsSound ==
  ASSUME Job!JobAssumption, JobSound, Job!RelistMissing \/ Job!Destroy
  PROVE  JobSound'
<1>1. CASE Job!RelistMissing
  <2>1. run.pc = "relist" /\ Job!Forgets /\ UNCHANGED <<remote, want, quiet, trouble>>
    BY <1>1 DEF Job!RelistMissing
  <2> QED
    BY <2>1, JobQuiet, JobForgetsSound
<1>2. CASE Job!Destroy
  <2>1. run.pc = "delete" /\ Job!Forgets /\ UNCHANGED <<want, quiet, trouble>>
    BY <1>2 DEF Job!Destroy, Job!Delete
  <2>2. remote' \in JobRemotes /\ Job!OneJobEach'
    BY <1>2, JobMaybe DEF Job!Destroy, Job!MaybeCarriedOut
  <2> QED
    BY <2>1, <2>2, JobForgetsSound
<1> QED
  BY <1>1, <1>2

\* The job just made is read next.
LEMMA JobCreateSound ==
  ASSUME Job!JobAssumption, JobSound, Job!Create
  PROVE  JobSound'
<1>0. Job!TypeOK /\ JobPurpose
  BY DEF JobSound
<1>1. /\ Job!Post /\ run.pc = "post" /\ run' = Job!Run("read", "create", Job!NewId)
      /\ UNCHANGED <<want, saved, quiet, trouble>>
  BY DEF Job!Create, Job!Post
<1>2. run.op = "create" /\ want \in Job!Values /\ saved = Job!NotSaved
  BY <1>0, <1>1 DEF JobPurpose, Job!Steps
<1> DEFINE job == [values |-> want, ours |-> TRUE]
<1>3. job \in Job!Jobs
  BY <1>2 DEF Job!Jobs
<1>4. Job!NewId \in Ids /\ remote'.jobs[Job!NewId] = job
  BY <1>0, <1>1, <1>3, JobMade DEF Job!Post
<1>5. remote' \in JobRemotes /\ Job!OneJobEach'
  BY <1>1, JobMaybe DEF Job!MaybeCarriedOut
<1>6. job # NoJob /\ job.values = want
  BY <1>3 DEF Job!JobAssumption
<1>7. run' \in JobRuns /\ run'.pc = "read" /\ run'.op = "create" /\ run'.id = Job!NewId
  BY <1>1, <1>4, JobRunType DEF JobPCs, JobOps, Job!Ended, Job!Steps
<1>8. Job!TypeOK'
  BY <1>0, <1>1, <1>5, <1>7 DEF Job!TypeOK, JobRemotes, JobRuns, JobPCs, JobOps
<1>9. JobPurpose'
  BY <1>1, <1>2, <1>4, <1>7 DEF JobPurpose, Job!Steps
<1>10. JobDelivered'
  <2>1. run'.id \in Ids /\ remote'.jobs[run'.id] # NoJob
    BY <1>4, <1>6, <1>7
  <2>2. remote'.jobs[run'.id].values = want'
    BY <1>1, <1>4, <1>6, <1>7
  <2> QED
    BY <1>7, <2>1, <2>2 DEF JobDelivered, Job!Found, Job!Given, Job!Exists, Job!Job
<1> QED
  BY <1>5, <1>7, <1>8, <1>9, <1>10 DEF JobSound, JobAlone, JobMissed, Job!SuccessIsReal

\* The job just changed is read next.
LEMMA JobUpdateSound ==
  ASSUME Job!JobAssumption, JobSound, Job!Update
  PROVE  JobSound'
<1>0. Job!TypeOK /\ JobPurpose
  BY DEF JobSound
<1>1. /\ Job!Put /\ run.pc = "put" /\ Job!Found /\ Job!Goes("read")
      /\ UNCHANGED <<want, saved, quiet, trouble>>
  BY DEF Job!Update, Job!Put
<1>2. run.op \in {"create", "update"} /\ run.id \in Ids /\ want \in Job!Values
  BY <1>0, <1>1 DEF JobPurpose, Job!Steps
<1>3. /\ remote' \in JobRemotes
      /\ \A id \in Ids : JobStays(id)
      /\ remote'.jobs[run.id] # NoJob
      /\ remote'.jobs[run.id].values.enabled = want.enabled
  BY <1>0, <1>1, <1>2, JobPut
<1>4. Job!OneJobEach'
  BY <1>3, JobsStay DEF JobSound
<1>5. run' \in JobRuns /\ run'.pc = "read" /\ run'.op = run.op /\ run'.id = run.id
  BY <1>0, <1>1, JobGoesType DEF JobPCs, Job!Steps
<1>6. Job!TypeOK'
  BY <1>0, <1>1, <1>3, <1>5 DEF Job!TypeOK, JobRemotes, JobRuns, JobPCs, JobOps
<1>7. JobPurpose'
  BY <1>0, <1>1, <1>2, <1>5 DEF JobPurpose, Job!Steps
<1>8. /\ remote'.jobs[run.id].values.cluster = want.cluster
      /\ quiet /\ run.op = "create" => remote'.jobs[run.id].values.schedule = want.schedule
  <2>1. Job!Exists(run.id)'
    BY <1>2, <1>3, <1>5 DEF Job!Exists
  <2>2. /\ remote'.jobs[run.id].values.cluster = Job!Job(run.id).cluster
        /\ remote'.jobs[run.id].values.schedule = Job!Job(run.id).schedule
    BY <1>2, <1>3, <1>5 DEF JobStays, Job!Exists, Job!Job
  <2> QED
    BY <1>1, <1>2, <2>2 DEF Job!Found, Job!Given, JobSound, JobDelivered
<1>9. /\ remote'.jobs[run.id].values \in Job!Values
  BY <1>2, <1>3 DEF JobRemotes, Job!Jobs
<1>10. quiet /\ run.op = "create" => remote'.jobs[run.id].values = want
  BY <1>2, <1>3, <1>8, <1>9 DEF Job!Values
<1>11. JobDelivered'
  <2>1. quiet' = quiet /\ want' = want
    BY <1>1
  <2>2. Job!Found'
    BY <1>2, <1>3, <1>5, <1>8, <2>1 DEF Job!Found, Job!Given, Job!Exists, Job!Job
  <2>3. Job!Job(run.id)'.enabled = want'.enabled
    BY <1>3, <1>5, <2>1 DEF Job!Job
  <2>4. quiet /\ run.op = "create" => Job!Job(run.id)' = want'
    BY <1>5, <1>10, <2>1 DEF Job!Job
  <2> QED
    BY <1>5, <2>1, <2>2, <2>3, <2>4 DEF JobDelivered
<1> QED
  BY <1>3, <1>4, <1>5, <1>6, <1>7, <1>11
  DEF JobSound, JobAlone, JobMissed, Job!SuccessIsReal

-----------------------------------------------------------------------------
(* Everybody else *)

LEMMA JobEditsSound ==
  ASSUME Job!JobAssumption, JobSound, Job!Import \/ Job!EditConfig
  PROVE  JobSound'
<1>0. Job!TypeOK
  BY DEF JobSound
<1>1. run.pc \notin Job!Steps /\ UNCHANGED <<remote, run>> /\ trouble' \in 0..MaxTrouble
  BY <1>0, JobTroubleType DEF Job!Import, Job!EditConfig, Job!Ended, Job!Steps
<1>2. remote' \in JobRemotes /\ Job!OneJobEach'
  BY <1>1, JobQuiet
<1>3. JobPurpose' /\ JobAlone' /\ JobMissed' /\ JobDelivered'
  BY <1>1 DEF JobPurpose, JobAlone, JobMissed, JobDelivered, Job!Steps
<1>4. CASE Job!Import
  <2>1. PICK id \in Ids : /\ Job!Exists(id) /\ saved.id = NoId
                          /\ saved' = Job!Saved(id, FALSE, Job!Job(id))
                          /\ UNCHANGED <<want, quiet>>
    BY <1>4 DEF Job!Import
  <2>2. saved' \in JobKnown
    BY <1>0, <2>1, JobType, JobRecordType
  <2>3. Job!TypeOK'
    BY <1>0, <1>1, <2>1, <2>2 DEF Job!TypeOK, JobKnown
  <2>4. ~Job!Exists(saved.id)
    BY <2>1 DEF Job!Exists, Job!JobAssumption
  <2>5. Job!SuccessIsReal'
    BY <1>1, <2>1, <2>4 DEF JobSound, Job!SuccessIsReal
  <2> QED
    BY <1>2, <1>3, <2>3, <2>5 DEF JobSound
<1>5. CASE Job!EditConfig
  <2>1. want' \in Job!Values \cup {Absent} /\ quiet' = FALSE /\ saved' = saved
    BY <1>5 DEF Job!EditConfig
  <2>2. Job!TypeOK'
    BY <1>0, <1>1, <2>1 DEF Job!TypeOK
  <2> QED
    BY <1>2, <1>3, <2>1, <2>2 DEF JobSound, Job!SuccessIsReal
<1> QED
  BY <1>4, <1>5

\* A job of others is new, not ours, and nobody's in this run; or a job stays.
LEMMA JobOthers ==
  ASSUME Job!JobAssumption, Job!TypeOK, Job!Others
  PROVE  /\ remote' \in JobRemotes
         /\ \A id \in Ids : \/ JobStays(id)
                            \/ id # run.id /\ ~remote'.jobs[id].ours
<1>1. CASE \E values \in Job!Values :
             /\ Job!Fresh # {}
             /\ remote' = [remote EXCEPT !.jobs[Job!NewId] = [values |-> values,
                    ours |-> FALSE]]
  <2>1. PICK values \in Job!Values :
          /\ Job!Fresh # {}
          /\ remote' = [remote EXCEPT !.jobs[Job!NewId] = [values |-> values, ours |-> FALSE]]
    BY <1>1
  <2> DEFINE job == [values |-> values, ours |-> FALSE]
  <2>2. job \in Job!Jobs /\ ~job.ours
    BY DEF Job!Jobs
  <2> HIDE DEF job
  <2>3. remote' = [remote EXCEPT !.jobs[Job!NewId] = job]
    BY <2>1 DEF job
  <2>4. /\ remote' \in JobRemotes
        /\ Job!NewId # run.id
        /\ remote'.jobs[Job!NewId] = job
        /\ \A id \in Ids \ {Job!NewId} : JobStays(id)
    BY <2>1, <2>2, <2>3, JobMade
  <2> QED
    BY <2>2, <2>4
<1>2. CASE \E id \in Ids : /\ Job!Exists(id)
                           /\ remote' = [remote EXCEPT !.jobs[id].values.enabled = ~@]
  <2>1. PICK one \in Ids : /\ Job!Exists(one)
                           /\ remote' = [remote EXCEPT !.jobs[one].values.enabled = ~@]
    BY <1>2
  <2> DEFINE flag == ~remote.jobs[one].values.enabled
  <2>2. flag \in BOOLEAN
    OBVIOUS
  <2>3. remote' = [remote EXCEPT !.jobs[one].values.enabled = flag]
    BY <2>1
  <2> HIDE DEF flag
  <2> QED
    BY <2>1, <2>2, <2>3, JobSwitched
<1>3. CASE \E id \in Ids : remote' = [remote EXCEPT !.jobs[id] = NoJob]
  BY <1>3, JobDelete
<1> QED
  BY <1>1, <1>2, <1>3 DEF Job!Others

LEMMA JobOthersSound ==
  ASSUME Job!JobAssumption, JobSound, Job!Others
  PROVE  JobSound'
<1>0. Job!TypeOK
  BY DEF JobSound
<1>1. UNCHANGED <<want, saved, run>> /\ quiet' = FALSE /\ trouble' \in 0..MaxTrouble
  BY <1>0, JobTroubleType DEF Job!Others
<1>2. /\ remote' \in JobRemotes
      /\ \A id \in Ids : \/ JobStays(id)
                         \/ id # run.id /\ ~remote'.jobs[id].ours
  BY <1>0, JobOthers
<1>3. Job!TypeOK'
  BY <1>0, <1>1, <1>2 DEF Job!TypeOK, JobRemotes
<1>4. \A id \in Ids : Job!Exists(id)' /\ remote'.jobs[id].ours =>
        /\ Job!Exists(id) /\ remote.jobs[id].ours
        /\ Job!Job(id)'.cluster = Job!Job(id).cluster
        /\ Job!Job(id)'.schedule = Job!Job(id).schedule
  BY <1>2 DEF JobStays
<1>5. Job!OneJobEach'
  BY <1>4 DEF JobSound, Job!OneJobEach, Job!Exists, Job!Job
<1>6. JobAlone'
  BY <1>1, <1>4 DEF JobSound, JobAlone, Job!Exists, Job!Job
<1>7. JobMissed'
  <2> SUFFICES ASSUME run.pc = "relist", run.id \in Ids, remote'.jobs[run.id] # NoJob
      PROVE  remote'.jobs[run.id].values.cluster # Job!Given.cluster
    BY <1>1 DEF JobMissed, Job!Exists, Job!Job, Job!Given
  <2>1. JobStays(run.id)
    BY <1>2
  <2>2. Job!Exists(run.id) /\ remote'.jobs[run.id].values.cluster = Job!Job(run.id).cluster
    BY <1>1, <2>1 DEF JobStays, Job!Exists, Job!Job
  <2> QED
    BY <2>2 DEF JobSound, JobMissed
<1>8. JobPurpose'
  BY <1>1 DEF JobSound, JobPurpose
<1> QED
  BY <1>1, <1>3, <1>5, <1>6, <1>7, <1>8 DEF JobSound, JobDelivered, Job!SuccessIsReal

-----------------------------------------------------------------------------
(* The invariant *)

LEMMA JobInit ==
  ASSUME Job!JobAssumption, Job!Init
  PROVE  JobSound
<1>1. PICK unique \in BOOLEAN :
        remote = [unique |-> unique, jobs |-> [id \in Ids |-> NoJob]]
  BY DEF Job!Init
<1>2. run.pc = "idle" /\ run \in JobRuns
  BY DEF Job!Init, Job!Run, JobRuns, JobPCs, JobOps, Job!Ended
<1>3. \A id \in Ids : ~Job!Exists(id)
  BY <1>1 DEF Job!Exists
<1>4. Job!TypeOK
  BY <1>1, <1>2 DEF Job!Init, Job!TypeOK, JobRuns, JobPCs, JobOps, Job!JobAssumption
<1>5. Job!OneJobEach
  BY <1>3 DEF Job!OneJobEach
<1> QED
  BY <1>2, <1>4, <1>5
  DEF JobSound, JobPurpose, JobAlone, JobMissed, JobDelivered, Job!SuccessIsReal,
      Job!Steps

LEMMA JobStep ==
  ASSUME Job!JobAssumption, JobSound, [Job!Next]_(Job!vars)
  PROVE  JobSound'
<1>1. CASE Job!StartApply \/ Job!Plan \/ Job!ListFound \/ Job!ListEmpty
  BY <1>1, JobBeginsSound
<1>2. CASE Job!ReadFound \/ Job!RelistFound
  BY <1>2, JobReadSound
<1>3. CASE Job!ReadMissing
  BY <1>3, JobReadMissingSound
<1>4. CASE Job!RelistMissing \/ Job!Destroy
  BY <1>4, JobEndsSound
<1>5. CASE Job!Create
  BY <1>5, JobCreateSound
<1>6. CASE Job!Update
  BY <1>6, JobUpdateSound
<1>7. CASE Job!CallFails \/ Job!Killed \/ Job!Refused
  BY <1>7, JobFailsSound
<1>8. CASE Job!Import \/ Job!EditConfig
  BY <1>8, JobEditsSound
<1>9. CASE Job!Others
  BY <1>9, JobOthersSound
<1>10. CASE UNCHANGED Job!vars
  <2>1. Job!TypeOK' /\ JobPurpose'
    BY <1>10 DEF Job!vars, JobSound, Job!TypeOK, JobPurpose
  <2>2. Job!OneJobEach' /\ JobAlone'
    BY <1>10 DEF Job!vars, JobSound, Job!OneJobEach, JobAlone, Job!Exists, Job!Job
  <2>3. JobMissed' /\ Job!SuccessIsReal'
    BY <1>10
    DEF Job!vars, JobSound, JobMissed, Job!SuccessIsReal, Job!Given, Job!Exists, Job!Job
  <2>4. JobDelivered'
    BY <1>10 DEF Job!vars, JobSound, JobDelivered, Job!Found, Job!Given, Job!Exists, Job!Job
  <2> QED
    BY <2>1, <2>2, <2>3, <2>4 DEF JobSound
<1> QED
  BY <1>1, <1>2, <1>3, <1>4, <1>5, <1>6, <1>7, <1>8, <1>9, <1>10 DEF Job!Next, Job!Terraform

LEMMA JobInvariant ==
  ASSUME Job!JobAssumption
  PROVE  Job!Spec => []JobSound
<1>1. Job!Init => JobSound
  BY JobInit
<1>2. JobSound /\ [Job!Next]_(Job!vars) => JobSound'
  BY JobStep
<1> QED
  BY <1>1, <1>2, PTL DEF Job!Spec

\* What a step takes out of the state.
LEMMA JobLoss ==
  ASSUME Job!JobAssumption, JobSound, Job!Next
  PROVE  Job!KnownLoss
<1> SUFFICES ASSUME Job!Exists(saved.id), remote' = remote, saved'.id # saved.id
    PROVE  Job!Given.cluster # Job!Job(saved.id).cluster
  BY DEF Job!KnownLoss
<1>0. Job!TypeOK /\ JobPurpose
  BY DEF JobSound
<1>1. saved.id \in Ids /\ saved # Job!NotSaved
  BY DEF Job!Exists, Job!NotSaved, Job!JobAssumption
<1>2. \/ Job!ReadFound \/ Job!RelistFound \/ Job!RelistMissing \/ Job!Destroy
      \/ Job!Refused \/ Job!CallFails \/ Job!Import
  BY DEF Job!Next, Job!Terraform, Job!StartApply, Job!ReadMissing, Job!Plan,
         Job!ListFound, Job!ListEmpty, Job!Create, Job!Update, Job!Killed, Job!EditConfig,
         Job!Others
<1>3. CASE Job!ReadFound
  <2>1. /\ run.id = saved.id
        /\ saved' = Job!Saved(run.id, run.op = "none" /\ saved.tainted, Job!Job(run.id))
    BY <1>0, <1>1, <1>3 DEF Job!ReadFound, Job!Keeps, JobPurpose, Job!Steps
  <2> QED
    BY <2>1 DEF Job!Saved
<1>4. CASE Job!RelistFound \/ Job!RelistMissing
  <2>1. run.pc = "relist" /\ run.id = saved.id
    BY <1>0, <1>1, <1>4 DEF Job!RelistFound, Job!RelistMissing, JobPurpose, Job!Steps
  <2> QED
    BY <2>1 DEF JobSound, JobMissed
<1>5. CASE Job!Destroy
  <2>1. run.id \in Ids /\ remote.jobs[run.id] # NoJob
    BY <1>5 DEF Job!Destroy, Job!Delete, Job!Found, Job!Exists
  <2>2. remote' = [remote EXCEPT !.jobs[run.id] = NoJob]
    BY <1>5 DEF Job!Destroy, Job!Delete
  <2>3. remote'.jobs[run.id] = NoJob
    BY <1>0, <2>1, <2>2 DEF Job!TypeOK
  <2> QED
    BY <2>1, <2>3
<1>6. CASE Job!Refused \/ Job!CallFails
  <2>1. run.pc \in Job!Steps /\ saved' = Job!AfterError
    BY <1>6 DEF Job!Refused, Job!CallFails, Job!Fails, Job!Steps
  <2> QED
    BY <1>0, <1>1, <2>1, JobErrorType
<1>7. CASE Job!Import
  BY <1>1, <1>7 DEF Job!Import, Job!JobAssumption
<1> QED
  BY <1>2, <1>3, <1>4, <1>5, <1>6, <1>7

\* Type correctness of a rebalancing job resource.
THEOREM JobTyping ==
  ASSUME Job!JobAssumption
  PROVE  Job!Spec => []Job!TypeOK
<1>1. JobSound => Job!TypeOK
  BY DEF JobSound
<1> QED
  BY <1>1, JobInvariant, PTL

\* The resource never makes a second job for a cluster and schedule it has made
\* one for, whatever answers are lost: the next create looks it up first.
THEOREM OneJob ==
  ASSUME Job!JobAssumption
  PROVE  Job!Spec => []Job!OneJobEach
<1>1. JobSound => Job!OneJobEach
  BY DEF JobSound
<1> QED
  BY <1>1, JobInvariant, PTL

\* An undisturbed apply that ends without an error leaves a job that exists, is
\* enabled as configured and, created, is the configured one, and saves it so.
THEOREM JobSuccess ==
  ASSUME Job!JobAssumption
  PROVE  Job!Spec => []Job!SuccessIsReal
<1>1. JobSound => Job!SuccessIsReal
  BY DEF JobSound
<1> QED
  BY <1>1, JobInvariant, PTL

\* A job that exists and was not deleted leaves the state only where the state
\* names another cluster than the job's.
THEOREM JobLosses ==
  ASSUME Job!JobAssumption
  PROVE  Job!Spec => Job!OnlyKnownLosses
<1>1. JobSound /\ [Job!Next]_(Job!vars) => [Job!KnownLoss]_(Job!vars)
  BY JobLoss
<1> QED
  BY <1>1, JobInvariant, PTL DEF Job!Spec, Job!OnlyKnownLosses

-----------------------------------------------------------------------------
(* What is reached stays reached *)

LEMMA JobReachedStays ==
  ASSUME Job!Reached, UNCHANGED <<remote, want, saved>>
  PROVE  Job!Reached'
BY DEF Job!Reached, Job!Exists, Job!Job

\* A run of what is reached reads the job by its ID and plans nothing.
LEMMA JobRests ==
  ASSUME Job!JobAssumption, Job!TypeOK, Job!AtRest, [Job!Next]_(Job!vars), trouble' = trouble
  PROVE  Job!AtRest'
<1>1. ~Job!Trouble
  BY DEF Job!Trouble, Job!TypeOK, Job!JobAssumption
<1>2. \A pc, op, id : /\ Job!Run(pc, op, id).pc = pc /\ Job!Run(pc, op, id).op = op
                      /\ Job!Run(pc, op, id).id = id
  BY DEF Job!Run
<1>3. /\ run.pc \in Job!Ended \cup {"read", "plan"}
      /\ run.pc \in {"read", "plan"} =>
           want # Absent /\ run = Job!Run(run.pc, "none", saved.id)
  BY <1>2 DEF Job!AtRest, Job!Ended
<1>4. want # Absent =>
        /\ Job!Exists(saved.id) /\ Job!Job(saved.id) = want
        /\ saved = Job!Saved(saved.id, FALSE, want)
        /\ saved.id \in Ids /\ saved.id # NoId /\ saved.values = want /\ ~saved.tainted
        /\ saved.tainted = FALSE
  BY DEF Job!AtRest, Job!Reached, Job!Exists, Job!Saved, Job!JobAssumption
<1>5. ASSUME NEW pc \in {"read", "plan"}, want # Absent, run' = Job!Run(pc, "none", saved.id),
             UNCHANGED <<remote, want, saved>>
      PROVE  Job!AtRest'
  BY <1>5, JobReachedStays DEF Job!AtRest
<1>6. ASSUME run'.pc \in Job!Ended, UNCHANGED <<remote, want, saved>>
      PROVE  Job!AtRest'
  BY <1>6, JobReachedStays DEF Job!AtRest
<1>7. CASE Job!StartApply
  <2>1. UNCHANGED <<remote, want, saved>>
    BY <1>7 DEF Job!StartApply
  <2>2. CASE want # Absent
    <3>1. run' = Job!Run("read", "none", saved.id)
      BY <1>4, <1>7, <2>2 DEF Job!StartApply
    <3> QED
      BY <1>5, <2>1, <2>2, <3>1
  <2>3. CASE want = Absent
    <3>1. saved.id = NoId
      BY <2>3 DEF Job!AtRest, Job!Reached
    <3>2. run' = Job!Run("done", "none", NoId)
      BY <1>7, <2>3, <3>1 DEF Job!StartApply
    <3> QED
      BY <1>2, <1>6, <2>1, <3>2 DEF Job!Ended
  <2> QED
    BY <2>2, <2>3
<1>8. CASE Job!ReadFound
  <2>1. /\ want # Absent /\ run = Job!Run("read", "none", saved.id)
        /\ run.op = "none" /\ run.id = saved.id
        /\ UNCHANGED <<remote, want>> /\ Job!Keeps(run.id)
    BY <1>2, <1>3, <1>8 DEF Job!ReadFound
  <2>2. /\ saved' = Job!Saved(saved.id, run.op = "none" /\ saved.tainted, want)
        /\ run' = [run EXCEPT !.pc = "plan", !.id = saved.id]
    BY <1>4, <2>1 DEF Job!Keeps
  <2>3. (run.op = "none" /\ saved.tainted) = FALSE
    BY <1>4, <2>1
  <2>4. saved' = saved
    BY <1>4, <2>1, <2>2, <2>3
  <2>5. run' = Job!Run("plan", "none", saved.id)
    BY <2>1, <2>2 DEF Job!Run
  <2> QED
    BY <1>5, <2>1, <2>4, <2>5
<1>9. CASE Job!ReadMissing
  <2>1. want # Absent /\ run.op = "none" /\ run.id = saved.id /\ ~Job!Found
    BY <1>2, <1>3, <1>9 DEF Job!ReadMissing
  <2> QED
    BY <1>4, <2>1 DEF Job!Found, Job!Given
<1>10. CASE Job!Plan
  <2>1. want # Absent /\ UNCHANGED <<remote, want, saved>>
    BY <1>3, <1>10 DEF Job!Plan
  <2>2. run' = [run EXCEPT !.pc = "done"]
    BY <1>4, <1>10, <2>1 DEF Job!Plan
  <2>3. run'.pc = "done"
    BY <2>2 DEF Job!TypeOK
  <2> QED
    BY <1>6, <2>1, <2>3 DEF Job!Ended
<1>11. CASE UNCHANGED Job!vars
  BY <1>11, JobReachedStays DEF Job!vars, Job!AtRest
<1>12. ASSUME Job!Next
       PROVE  Job!StartApply \/ Job!ReadFound \/ Job!ReadMissing \/ Job!Plan
  <2>1. run.pc \notin {"list", "post", "put", "relist", "delete"}
    BY <1>3 DEF Job!Ended
  <2> QED
    BY <1>1, <1>12, <2>1
    DEF Job!Next, Job!Terraform, Job!RelistFound, Job!RelistMissing, Job!ListFound,
        Job!ListEmpty, Job!Create, Job!Post, Job!Update, Job!Put, Job!Destroy, Job!Delete,
        Job!Refused, Job!CallFails, Job!Killed, Job!Import, Job!EditConfig, Job!Others
<1> QED
  BY <1>7, <1>8, <1>9, <1>10, <1>11, <1>12

-----------------------------------------------------------------------------
(* The node template: what the call that comes next is for *)

TemplatePurpose ==
  /\ run.pc = "post" => run.op = "create"
  /\ run.pc = "put" => run.op \in {"update", "move"}
  /\ run.pc = "reread" => run.op \in {"create", "update", "move"}
  /\ run.pc \in {"read", "plan"} => run.op = "none"
  /\ run.pc = "delete" => run.op = "delete"
  /\ run.pc \in Template!Steps /\ run.op = "create" => saved = Template!NotSaved
  /\ run.pc \in Template!Steps /\ run.op # "create" => saved # Template!NotSaved
  /\ run.pc \in Template!Steps /\ run.op \in {"create", "update", "move"} =>
       want \in Template!Values
  /\ run.pc \in Template!Steps /\ run.op = "update" => want.cluster = saved.values.cluster

\* A price the state does not have is not there.
TemplateInsight ==
  /\ quiet
  /\ run.pc = "plan" \/ (run.pc = "put" /\ run.op = "update")
  /\ Template!Exists(saved.values.cluster)
  /\ saved.values.content.price = Empty
  => Template!Template(saved.values.cluster).price = Empty

\* What is there after an undisturbed create or update.
TemplateSent ==
  LET template == Template!Template(want.cluster)
      wanted == want.content
  IN /\ Template!Exists(want.cluster)
     /\ template.labels = wanted.labels \/ (run.op = "update" /\ Template!LabelsStay)
     /\ template.price = wanted.price
     /\ template.nodes = IF run.op = "create" THEN Empty ELSE wanted.nodes

TemplateDelivered ==
  quiet /\ run.pc = "reread" /\ run.op \in {"create", "update"} => TemplateSent

TemplateSound ==
  /\ Template!TypeOK /\ Template!SuccessIsReal /\ TemplatePurpose /\ TemplateInsight
  /\ TemplateDelivered

-----------------------------------------------------------------------------
TemplateRemotes ==
  [keeps: BOOLEAN, shows: BOOLEAN,
   templates: [Clusters -> Template!Attributes \cup {NoTemplate}]]
TemplateKnown == [status: {"ok", "tainted"}, values: Template!Values]
TemplatePCs == Template!Ended \cup Template!Steps
TemplateOps == {"none", "create", "update", "move", "delete"}
TemplateRuns == [pc: TemplatePCs, op: TemplateOps]

LEMMA TemplateRunType ==
  ASSUME NEW pc \in TemplatePCs, NEW op \in TemplateOps
  PROVE  /\ Template!Run(pc, op) \in TemplateRuns
         /\ Template!Run(pc, op).pc = pc /\ Template!Run(pc, op).op = op
BY DEF Template!Run, TemplateRuns

LEMMA TemplateGoesType ==
  ASSUME Template!TypeOK, NEW pc \in TemplatePCs, Template!Goes(pc)
  PROVE  run' \in TemplateRuns /\ run'.pc = pc /\ run'.op = run.op
BY DEF Template!Goes, Template!TypeOK, TemplateRuns, TemplatePCs, TemplateOps

LEMMA TemplateSavedType ==
  ASSUME Template!TemplateAssumption, Template!TypeOK, saved # Template!NotSaved
  PROVE  saved \in TemplateKnown /\ saved.values \in Template!Values
BY DEF Template!TypeOK, TemplateKnown

LEMMA TemplateRecordType ==
  ASSUME Template!TemplateAssumption, NEW status \in {"ok", "tainted"},
         NEW values \in Template!Values
  PROVE  /\ Template!Saved(status, values) \in TemplateKnown
         /\ Template!Saved(status, values) # Template!NotSaved
         /\ Template!Saved(status, values).values = values
BY DEF Template!Saved, TemplateKnown, Template!NotSaved

LEMMA TemplateTroubleType ==
  ASSUME Template!TemplateAssumption, Template!TypeOK, Template!Trouble
  PROVE  trouble' \in 0..MaxTrouble
BY DEF Template!TemplateAssumption, Template!TypeOK, Template!Trouble

LEMMA TemplateBecomes ==
  ASSUME Template!TemplateAssumption, Template!TypeOK, NEW c \in Clusters,
         NEW t \in Template!Attributes \cup {NoTemplate}, Template!Becomes(c, t)
  PROVE  /\ remote' \in TemplateRemotes
         /\ remote'.keeps = remote.keeps
         /\ remote'.shows = remote.shows
         /\ remote'.templates[c] = t
BY DEF Template!TypeOK, Template!Becomes, TemplateRemotes

\* What an update leaves is the kept or the new value of each attribute.
LEMMA TemplateUpdated ==
  ASSUME Template!TypeOK, want \in Template!Values, NEW old \in Template!Attributes
  PROVE  /\ Template!Updated(old) \in Template!Attributes
         /\ \/ Template!Updated(old).labels = want.content.labels
            \/ /\ want.content.labels = Empty /\ remote.keeps
               /\ Template!Updated(old).labels = old.labels
         /\ \/ Template!Updated(old).price = want.content.price
            \/ /\ want.content.price = Empty
               /\ saved.values.content.price = want.content.price
               /\ Template!Updated(old).price = old.price
         /\ Template!Updated(old).nodes = want.content.nodes
BY DEF Template!Updated, Template!Attributes, Template!Values, Template!TypeOK

LEMMA TemplateMaybe ==
  ASSUME Template!TemplateAssumption, Template!TypeOK, TemplatePurpose, Template!MaybeCarriedOut
  PROVE  remote' \in TemplateRemotes
<1>1. CASE UNCHANGED remote
  BY <1>1 DEF Template!TypeOK, TemplateRemotes
<1>2. CASE Template!Post
  <2>1. want \in Template!Values
    BY <1>2 DEF Template!Post, TemplatePurpose, Template!Steps
  <2>2. /\ [want.content EXCEPT !.nodes = Empty] \in Template!Attributes
        /\ want.cluster \in Clusters
    BY <1>2, <2>1
    DEF Template!Post, Template!Values, Template!Attributes, Template!TemplateAssumption
  <2> QED
    BY <1>2, <2>2, TemplateBecomes DEF Template!Post
<1>3. CASE Template!Put
  <2>1. want \in Template!Values /\ want.cluster \in Clusters
    BY <1>3
    DEF Template!Put, Template!Exists, TemplatePurpose, Template!Steps, Template!Values
  <2>2. Template!Template(want.cluster) \in Template!Attributes
    BY <1>3, <2>1 DEF Template!Put, Template!Exists, Template!Template, Template!TypeOK
  <2>3. Template!Updated(Template!Template(want.cluster)) \in Template!Attributes
    BY <2>1, <2>2, TemplateUpdated
  <2> QED
    BY <1>3, <2>1, <2>3, TemplateBecomes DEF Template!Put
<1>4. CASE Template!Delete
  <2>1. saved.values.cluster \in Clusters
    BY <1>4, TemplateSavedType
    DEF Template!Delete, Template!Exists, TemplatePurpose, Template!Steps, Template!Values
  <2> QED
    BY <1>4, <2>1, TemplateBecomes DEF Template!Delete
<1> QED
  BY <1>1, <1>2, <1>3, <1>4 DEF Template!MaybeCarriedOut

\* A run that failed or died promises nothing.
LEMMA TemplateStops ==
  ASSUME Template!TemplateAssumption, Template!TypeOK, remote' \in TemplateRemotes,
         saved' \in {Template!NotSaved} \cup TemplateKnown, run' \in TemplateRuns,
         run'.pc \in {"failed", "killed"}, UNCHANGED <<want, quiet>>,
         trouble' \in 0..MaxTrouble
  PROVE  TemplateSound'
<1>1. Template!TypeOK'
  BY DEF Template!TypeOK, TemplateRemotes, TemplateKnown, TemplateRuns, TemplatePCs,
         TemplateOps
<1>2. run'.pc \notin Template!Steps /\ run'.pc \notin {"done", "plan", "put", "reread"}
  BY DEF Template!Steps
<1> QED
  BY <1>1, <1>2
  DEF TemplateSound, TemplatePurpose, TemplateInsight, TemplateDelivered,
      Template!SuccessIsReal, Template!Steps

LEMMA TemplateErrorType ==
  ASSUME Template!TemplateAssumption, Template!TypeOK, TemplatePurpose,
         run.pc \in Template!Steps
  PROVE  /\ Template!AfterError \in {Template!NotSaved} \cup TemplateKnown
         /\ saved # Template!NotSaved /\ run.op # "move" =>
              /\ Template!AfterError # Template!NotSaved
              /\ Template!AfterError.values.cluster = saved.values.cluster
<1>1. CASE run.op \in {"update", "move"}
  BY <1>1, TemplateRecordType DEF Template!AfterError, TemplatePurpose
<1>2. CASE run.op = "create"
  BY <1>2, TemplateRecordType DEF Template!AfterError, TemplatePurpose, Template!TypeOK
<1>3. CASE run.op \notin {"create", "update", "move"}
  BY <1>3 DEF Template!AfterError, Template!TypeOK, TemplateKnown
<1> QED
  BY <1>1, <1>2, <1>3

LEMMA TemplateFailsSound ==
  ASSUME Template!TemplateAssumption, TemplateSound,
         Template!CallFails \/ Template!Killed \/ Template!Refused \/ Template!RereadMissing
  PROVE  TemplateSound'
<1>0. Template!TypeOK /\ TemplatePurpose
  BY DEF TemplateSound
<1>1. run.pc \in Template!Steps /\ UNCHANGED <<want, quiet>> /\ trouble' \in 0..MaxTrouble
  BY <1>0, TemplateTroubleType
  DEF Template!CallFails, Template!Killed, Template!Refused, Template!RereadMissing,
      Template!Steps, Template!TypeOK
<1>2. remote' \in TemplateRemotes
  BY <1>0, TemplateMaybe
  DEF Template!CallFails, Template!Killed, Template!Refused, Template!RereadMissing,
      Template!MaybeCarriedOut
<1>3. CASE Template!CallFails \/ Template!Refused
  <2>1. saved' = Template!AfterError /\ Template!Goes("failed")
    BY <1>3 DEF Template!CallFails, Template!Refused, Template!Fails
  <2>2. saved' \in {Template!NotSaved} \cup TemplateKnown
    BY <1>0, <1>1, <2>1, TemplateErrorType
  <2>3. run' \in TemplateRuns /\ run'.pc = "failed"
    BY <1>0, <2>1, TemplateGoesType DEF TemplatePCs, Template!Ended
  <2> QED
    BY <1>0, <1>1, <1>2, <2>2, <2>3, TemplateStops
<1>4. CASE Template!Killed \/ Template!RereadMissing
  <2>1. saved' = saved /\ (Template!Goes("killed") \/ Template!Goes("failed"))
    BY <1>4 DEF Template!Killed, Template!RereadMissing
  <2>2. run' \in TemplateRuns /\ run'.pc \in {"killed", "failed"}
    BY <1>0, <2>1, TemplateGoesType DEF TemplatePCs, Template!Ended
  <2>3. saved' \in {Template!NotSaved} \cup TemplateKnown
    BY <1>0, <2>1 DEF Template!TypeOK, TemplateKnown
  <2> QED
    BY <1>0, <1>1, <1>2, <2>2, <2>3, TemplateStops
<1> QED
  BY <1>3, <1>4

LEMMA TemplateBeginsSound ==
  ASSUME Template!TemplateAssumption, TemplateSound,
         \/ Template!StartApply \/ Template!PlanDelete \/ Template!PlanNothing
         \/ Template!PlanUpdate \/ Template!ReadSkips
  PROVE  TemplateSound'
<1>0. Template!TypeOK /\ TemplatePurpose
  BY DEF TemplateSound
<1>1. UNCHANGED <<remote, want, saved, trouble>>
  BY DEF Template!StartApply, Template!PlanDelete, Template!PlanNothing,
         Template!PlanUpdate, Template!ReadSkips
<1>2. want # Absent => want \in Template!Values
  BY <1>0 DEF Template!TypeOK
<1>3. quiet' \in BOOLEAN
  BY <1>0
  DEF Template!StartApply, Template!PlanDelete, Template!PlanNothing, Template!PlanUpdate,
      Template!ReadSkips, Template!TypeOK
<1>4. CASE Template!StartApply
  <2>1. run' = IF saved # Template!NotSaved THEN Template!Run("read", "none")
               ELSE IF want # Absent THEN Template!Run("post", "create")
               ELSE Template!Run("done", "none")
    BY <1>4 DEF Template!StartApply
  <2>2. /\ run' \in TemplateRuns
        /\ \/ run'.pc = "read" /\ run'.op = "none" /\ saved # Template!NotSaved
           \/ run'.pc = "post" /\ run'.op = "create"
             /\ saved = Template!NotSaved /\ want # Absent
           \/ run'.pc = "done" /\ run'.op = "none"
    BY <2>1, TemplateRunType DEF TemplatePCs, TemplateOps, Template!Ended, Template!Steps
  <2>3. Template!TypeOK'
    BY <1>0, <1>1, <1>3, <2>2 DEF Template!TypeOK, TemplateRuns, TemplatePCs, TemplateOps
  <2>4. TemplatePurpose'
    BY <1>1, <1>2, <2>2 DEF TemplatePurpose, Template!Steps
  <2> QED
    BY <2>2, <2>3, <2>4
    DEF TemplateSound, TemplateInsight, TemplateDelivered, Template!SuccessIsReal
<1>5. CASE Template!PlanDelete
  <2>1. run.pc = "plan" /\ run' = Template!Run("delete", "delete") /\ saved # Template!NotSaved
    BY <1>0, <1>5 DEF Template!PlanDelete, TemplatePurpose, Template!Steps
  <2>2. run' \in TemplateRuns /\ run'.pc = "delete" /\ run'.op = "delete"
    BY <2>1, TemplateRunType DEF TemplatePCs, TemplateOps, Template!Ended, Template!Steps
  <2>3. Template!TypeOK'
    BY <1>0, <1>1, <1>3, <2>2 DEF Template!TypeOK, TemplateRuns, TemplatePCs, TemplateOps
  <2>4. TemplatePurpose'
    BY <1>1, <2>1, <2>2 DEF TemplatePurpose, Template!Steps
  <2> QED
    BY <2>2, <2>3, <2>4
    DEF TemplateSound, TemplateInsight, TemplateDelivered, Template!SuccessIsReal
<1>6. CASE Template!PlanNothing
  <2>1. run' \in TemplateRuns /\ run'.pc = "done" /\ run'.op = "none"
    BY <1>0, <1>6, TemplateGoesType
    DEF Template!PlanNothing, TemplatePurpose, TemplatePCs, Template!Ended
  <2>2. Template!TypeOK'
    BY <1>0, <1>1, <1>3, <2>1 DEF Template!TypeOK, TemplateRuns, TemplatePCs, TemplateOps
  <2>3. TemplatePurpose'
    BY <2>1 DEF TemplatePurpose, Template!Steps
  <2> QED
    BY <2>1, <2>2, <2>3
    DEF TemplateSound, TemplateInsight, TemplateDelivered, Template!SuccessIsReal
<1>7. CASE Template!PlanUpdate
  <2>1. /\ run.pc = "plan" /\ want \in Template!Values /\ saved # Template!NotSaved
        /\ quiet' = quiet
        /\ run' = Template!Run("put",
                     IF saved.values.cluster = want.cluster THEN "update" ELSE "move")
    BY <1>0, <1>2, <1>7
    DEF Template!PlanUpdate, Template!Stays, TemplatePurpose, Template!Steps
  <2>2. /\ run' \in TemplateRuns /\ run'.pc = "put"
        /\ \/ run'.op = "update" /\ saved.values.cluster = want.cluster
           \/ run'.op = "move"
    <3>1. CASE saved.values.cluster = want.cluster
      BY <2>1, <3>1, TemplateRunType
      DEF TemplatePCs, TemplateOps, Template!Ended, Template!Steps
    <3>2. CASE saved.values.cluster # want.cluster
      BY <2>1, <3>2, TemplateRunType
      DEF TemplatePCs, TemplateOps, Template!Ended, Template!Steps
    <3> QED
      BY <3>1, <3>2
  <2>3. Template!TypeOK'
    BY <1>0, <1>1, <1>3, <2>2 DEF Template!TypeOK, TemplateRuns, TemplatePCs, TemplateOps
  <2>4. TemplatePurpose'
    BY <1>1, <2>1, <2>2 DEF TemplatePurpose, Template!Steps
  <2>5. TemplateInsight'
    BY <1>1, <2>1 DEF TemplateSound, TemplateInsight, Template!Exists, Template!Template
  <2> QED
    BY <2>2, <2>3, <2>4, <2>5 DEF TemplateSound, TemplateDelivered, Template!SuccessIsReal
<1>8. CASE Template!ReadSkips
  <2>1. /\ run.op = "none" /\ saved # Template!NotSaved
        /\ ~Template!Exists(saved.values.cluster)
    BY <1>0, <1>8
    DEF Template!ReadSkips, TemplatePurpose, Template!Steps, Template!Exists
  <2>2. run' \in TemplateRuns /\ run'.pc = "plan" /\ run'.op = "none"
    BY <1>0, <1>8, <2>1, TemplateGoesType
    DEF Template!ReadSkips, TemplatePCs, Template!Steps
  <2>3. Template!TypeOK'
    BY <1>0, <1>1, <1>3, <2>2 DEF Template!TypeOK, TemplateRuns, TemplatePCs, TemplateOps
  <2>4. TemplatePurpose'
    BY <1>1, <2>1, <2>2 DEF TemplatePurpose, Template!Steps
  <2>5. TemplateInsight'
    BY <1>1, <2>1 DEF TemplateInsight, Template!Exists, Template!Template
  <2> QED
    BY <2>2, <2>3, <2>4, <2>5 DEF TemplateSound, TemplateDelivered, Template!SuccessIsReal
<1> QED
  BY <1>4, <1>5, <1>6, <1>7, <1>8

LEMMA TemplateShownType ==
  ASSUME Template!TemplateAssumption, Template!TypeOK,
         NEW given \in Template!Values, Template!Exists(given.cluster)
  PROVE  /\ Template!Shown(given) \in Template!Values
         /\ Template!Shown(given).cluster = given.cluster
         /\ Template!Shown(given).content.price = Empty =>
              Template!Template(given.cluster).price = Empty
         /\ /\ Template!Template(given.cluster).price = given.content.price
            /\ \/ Template!Template(given.cluster).nodes = given.content.nodes
               \/ remote.shows
            => Template!Shown(given) =
                 [cluster |-> given.cluster, content |-> Template!Template(given.cluster)]
         /\ /\ Template!Template(given.cluster).price = given.content.price
            /\ Template!Template(given.cluster).nodes = Empty /\ ~remote.shows
            => Template!Shown(given) =
                 [cluster |-> given.cluster,
                  content |-> [Template!Template(given.cluster)
                                 EXCEPT !.nodes = given.content.nodes]]
<1>1. Template!Template(given.cluster) \in Template!Attributes
  BY DEF Template!TypeOK, Template!Exists, Template!Template, Template!Values
<1> DEFINE template == Template!Template(given.cluster)
           price == IF template.price = Empty THEN given.content.price ELSE template.price
           nodes == IF template.nodes = Empty /\ ~remote.shows THEN given.content.nodes
                    ELSE template.nodes
           shown == [template EXCEPT !.price = price, !.nodes = nodes]
<1>2. Template!Shown(given) = [given EXCEPT !.content = shown]
  <2>1. template.price = Empty => given.content.price = price
    OBVIOUS
  <2> QED
    BY <1>1 DEF Template!Shown, Template!Attributes
<1>3. price \in Choices /\ nodes \in Choices
  BY <1>1 DEF Template!Values, Template!Attributes
<1>4. shown \in Template!Attributes
  BY <1>1, <1>3 DEF Template!Attributes
<1>5. price = Empty => template.price = Empty
  OBVIOUS
<1>6. template.price = given.content.price => price = template.price
  OBVIOUS
<1>7. template.nodes = given.content.nodes \/ remote.shows => nodes = template.nodes
  OBVIOUS
<1>8. template.nodes = Empty /\ ~remote.shows => nodes = given.content.nodes
  OBVIOUS
<1> HIDE DEF template, price, nodes
<1>9. template \in Template!Attributes
  BY <1>1 DEF template
<1>10. shown.price = price
  BY <1>9 DEF Template!Attributes
<1>11. price = template.price => shown = [template EXCEPT !.nodes = nodes]
  BY <1>9 DEF Template!Attributes
<1>12. nodes = template.nodes => [template EXCEPT !.nodes = nodes] = template
  BY <1>9 DEF Template!Attributes
<1> HIDE DEF shown
<1>13. /\ Template!Shown(given) \in Template!Values
       /\ Template!Shown(given).cluster = given.cluster
       /\ Template!Shown(given) = [cluster |-> given.cluster, content |-> shown]
  BY <1>2, <1>4 DEF Template!Values
<1>14. Template!Shown(given).content.price = price
  BY <1>10, <1>13
<1> QED
  BY <1>5, <1>6, <1>7, <1>8, <1>11, <1>12, <1>13, <1>14 DEF template

LEMMA TemplateReadSound ==
  ASSUME Template!TemplateAssumption, TemplateSound, Template!Refresh \/ Template!Reread
  PROVE  TemplateSound'
<1>0. Template!TypeOK /\ TemplatePurpose
  BY DEF TemplateSound
<1>1. UNCHANGED <<remote, want, quiet, trouble>>
  BY DEF Template!Refresh, Template!Reread
<1>2. CASE Template!Refresh
  <2>1. /\ run.pc = "read" /\ run.op = "none" /\ saved # Template!NotSaved
        /\ Template!Exists(saved.values.cluster)
        /\ saved' = [saved EXCEPT !.values = Template!Shown(saved.values)]
        /\ Template!Goes("plan")
    BY <1>0, <1>2 DEF Template!Refresh, TemplatePurpose, Template!Steps
  <2>2. saved \in TemplateKnown /\ saved.values \in Template!Values
    BY <1>0, <2>1, TemplateSavedType
  <2>3. /\ Template!Shown(saved.values) \in Template!Values
        /\ Template!Shown(saved.values).cluster = saved.values.cluster
        /\ Template!Shown(saved.values).content.price = Empty =>
             Template!Template(saved.values.cluster).price = Empty
    BY <1>0, <2>1, <2>2, TemplateShownType
  <2>4. /\ saved' \in TemplateKnown /\ saved' # Template!NotSaved
        /\ saved'.values = Template!Shown(saved.values)
    BY <2>1, <2>2, <2>3 DEF TemplateKnown, Template!NotSaved
  <2>5. run' \in TemplateRuns /\ run'.pc = "plan" /\ run'.op = "none"
    BY <1>0, <2>1, TemplateGoesType DEF TemplatePCs, Template!Steps
  <2>6. Template!TypeOK'
    BY <1>0, <1>1, <2>4, <2>5
    DEF Template!TypeOK, TemplateKnown, TemplateRuns, TemplatePCs, TemplateOps
  <2>7. TemplatePurpose'
    BY <2>4, <2>5 DEF TemplatePurpose, Template!Steps
  <2>8. TemplateInsight'
    BY <1>1, <2>3, <2>4 DEF TemplateInsight, Template!Exists, Template!Template
  <2> QED
    BY <2>5, <2>6, <2>7, <2>8 DEF TemplateSound, TemplateDelivered, Template!SuccessIsReal
<1>3. CASE Template!Reread
  <2>1. /\ run.pc = "reread" /\ Template!Exists(want.cluster) /\ want \in Template!Values
        /\ saved' = Template!Saved("ok", Template!Shown(want)) /\ Template!Goes("done")
    BY <1>0, <1>3 DEF Template!Reread, TemplatePurpose, Template!Steps
  <2>2. Template!Shown(want) \in Template!Values
    BY <1>0, <2>1, TemplateShownType
  <2>3. saved' \in TemplateKnown
    BY <2>1, <2>2, TemplateRecordType
  <2>4. run' \in TemplateRuns /\ run'.pc = "done" /\ run'.op = run.op
    BY <1>0, <2>1, TemplateGoesType DEF TemplatePCs, Template!Ended
  <2>5. Template!TypeOK'
    BY <1>0, <1>1, <2>3, <2>4
    DEF Template!TypeOK, TemplateKnown, TemplateRuns, TemplatePCs, TemplateOps
  <2>6. TemplatePurpose' /\ TemplateInsight' /\ TemplateDelivered'
    BY <2>4 DEF TemplatePurpose, TemplateInsight, TemplateDelivered, Template!Steps
  <2>7. Template!SuccessIsReal'
    <3> SUFFICES ASSUME run.op \in {"create", "update"}, quiet
        PROVE  Template!SuccessIsReal'
      BY <1>1, <2>4 DEF Template!SuccessIsReal
    <3>1. TemplateSent
      BY <2>1 DEF TemplateSound, TemplateDelivered
    <3> DEFINE template == Template!Template(want.cluster)
               wanted == want.content
    <3>2. CASE run.op = "create" /\ ~remote.shows
      <4>1. Template!Shown(want) =
              [cluster |-> want.cluster, content |-> [template EXCEPT !.nodes = wanted.nodes]]
        BY <1>0, <2>1, <3>1, <3>2, TemplateShownType DEF TemplateSent
      <4> QED
        BY <1>1, <2>1, <2>4, <3>1, <3>2, <4>1
        DEF Template!SuccessIsReal, TemplateSent, Template!LabelsStay, Template!Exists,
            Template!Template, Template!Saved
    <3>3. CASE ~(run.op = "create" /\ ~remote.shows)
      <4>1. template.price = wanted.price /\ (template.nodes = wanted.nodes \/ remote.shows)
        BY <3>1, <3>3 DEF TemplateSent
      <4>2. Template!Shown(want) = [cluster |-> want.cluster, content |-> template]
        BY <1>0, <2>1, <4>1, TemplateShownType
      <4> QED
        BY <1>1, <2>1, <2>4, <3>1, <3>3, <4>2
        DEF Template!SuccessIsReal, TemplateSent, Template!LabelsStay, Template!Exists,
            Template!Template, Template!Saved
    <3> QED
      BY <3>2, <3>3
  <2> QED
    BY <2>5, <2>6, <2>7 DEF TemplateSound
<1> QED
  BY <1>2, <1>3

LEMMA TemplateForgetsSound ==
  ASSUME Template!TemplateAssumption, TemplateSound, Template!RefreshMissing \/ Template!Destroy
  PROVE  TemplateSound'
<1>0. Template!TypeOK /\ TemplatePurpose
  BY DEF TemplateSound
<1>1. /\ remote' \in TemplateRemotes
      /\ UNCHANGED <<want, quiet, trouble>>
      /\ run.op \in {"none", "delete"}
      /\ Template!Forgets
  BY <1>0, TemplateMaybe
  DEF Template!RefreshMissing, Template!Destroy, Template!Delete,
      Template!MaybeCarriedOut, TemplatePurpose
<1>2. /\ saved' = Template!NotSaved
      /\ run' = IF want # Absent THEN Template!Run("post", "create")
             ELSE Template!Run("done", run.op)
  BY <1>1 DEF Template!Forgets
<1>3. /\ run' \in TemplateRuns
      /\ \/ run'.pc = "post" /\ run'.op = "create" /\ want # Absent
         \/ run'.pc = "done" /\ run'.op \in {"none", "delete"}
  BY <1>1, <1>2, TemplateRunType
  DEF TemplatePCs, TemplateOps, Template!Ended, Template!Steps
<1>4. Template!TypeOK'
  BY <1>0, <1>1, <1>2, <1>3
  DEF Template!TypeOK, TemplateRemotes, TemplateRuns, TemplatePCs, TemplateOps
<1>5. TemplatePurpose'
  BY <1>0, <1>1, <1>2, <1>3 DEF TemplatePurpose, Template!Steps, Template!TypeOK
<1> QED
  BY <1>3, <1>4, <1>5
  DEF TemplateSound, TemplateInsight, TemplateDelivered, Template!SuccessIsReal

LEMMA TemplateMoveSound ==
  ASSUME Template!TemplateAssumption, TemplateSound, Template!Move
  PROVE  TemplateSound'
<1>0. Template!TypeOK
  BY DEF TemplateSound
<1>1. /\ want \in Template!Values /\ saved' = Template!Saved("ok", want)
      /\ run' = Template!Run("done", "move")
      /\ UNCHANGED <<remote, want, quiet, trouble>>
  BY <1>0 DEF Template!Move, Template!Stays, Template!TypeOK
<1>2. saved' \in TemplateKnown
  BY <1>1, TemplateRecordType
<1>3. run' \in TemplateRuns /\ run'.pc = "done" /\ run'.op = "move"
  BY <1>1, TemplateRunType DEF TemplatePCs, TemplateOps, Template!Ended
<1>4. Template!TypeOK'
  BY <1>0, <1>1, <1>2, <1>3
  DEF Template!TypeOK, TemplateKnown, TemplateRuns, TemplatePCs, TemplateOps
<1> QED
  BY <1>3, <1>4
  DEF TemplateSound, TemplatePurpose, TemplateInsight, TemplateDelivered,
      Template!SuccessIsReal, Template!Steps

LEMMA TemplateCallSound ==
  ASSUME Template!TemplateAssumption, TemplateSound, Template!Call
  PROVE  TemplateSound'
<1>0. Template!TypeOK /\ TemplatePurpose
  BY DEF TemplateSound
<1>1. /\ Template!Post \/ Template!Put
      /\ run.pc \in {"post", "put"}
      /\ Template!Goes("reread") /\ UNCHANGED <<want, saved, quiet, trouble>>
  BY DEF Template!Call, Template!Post, Template!Put
<1>2. want \in Template!Values /\ run.op \in {"create", "update", "move"}
  BY <1>0, <1>1 DEF TemplatePurpose, Template!Steps
<1>3. remote' \in TemplateRemotes
  BY <1>0, <1>1, TemplateMaybe DEF Template!MaybeCarriedOut
<1>4. run' \in TemplateRuns /\ run'.pc = "reread" /\ run'.op = run.op
  BY <1>0, <1>1, TemplateGoesType DEF TemplatePCs, Template!Steps
<1>5. Template!TypeOK'
  BY <1>0, <1>1, <1>3, <1>4
  DEF Template!TypeOK, TemplateRemotes, TemplateRuns, TemplatePCs, TemplateOps
<1>6. TemplatePurpose'
  BY <1>0, <1>1, <1>2, <1>4 DEF TemplatePurpose, Template!Steps
<1>7. TemplateDelivered'
  <2> SUFFICES ASSUME quiet, run.op \in {"create", "update"}
      PROVE  TemplateSent'
    BY <1>1, <1>4 DEF TemplateDelivered
  <2>1. want.cluster \in Clusters /\ want.content \in Template!Attributes
    BY <1>1, <1>2
    DEF Template!Post, Template!Put, Template!Exists, Template!Values
  <2>2. CASE Template!Post
    <3> DEFINE template == [want.content EXCEPT !.nodes = Empty]
    <3>1. template \in Template!Attributes
      BY <2>1 DEF Template!Attributes, Template!TemplateAssumption
    <3>2. /\ template.labels = want.content.labels
          /\ template.price = want.content.price /\ template.nodes = Empty
      BY <2>1 DEF Template!Attributes
    <3>3. run.op = "create"
      BY <1>0, <2>2 DEF Template!Post, TemplatePurpose
    <3>4. remote'.templates[want.cluster] = template
      BY <1>0, <2>1, <2>2, <3>1, TemplateBecomes DEF Template!Post
    <3>5. template # NoTemplate /\ want.cluster # NoCluster
      BY <2>2, <3>1 DEF Template!Post, Template!TemplateAssumption
    <3> HIDE DEF template
    <3> QED
      BY <1>1, <1>4, <3>2, <3>3, <3>4, <3>5
      DEF TemplateSent, Template!Exists, Template!Template
  <2>3. CASE Template!Put
    <3>1. run.op = "update" /\ run.pc = "put" /\ want.cluster = saved.values.cluster
      BY <1>0, <2>3 DEF Template!Put, TemplatePurpose, Template!Steps
    <3> DEFINE old == Template!Template(want.cluster)
               new == Template!Updated(old)
    <3>2. old \in Template!Attributes
      BY <1>0, <2>1, <2>3
      DEF Template!Put, Template!Exists, Template!Template, Template!TypeOK
    <3>3. /\ new \in Template!Attributes
          /\ new.labels = want.content.labels
               \/ (want.content.labels = Empty /\ remote.keeps)
          /\ \/ new.price = want.content.price
             \/ /\ want.content.price = Empty
                /\ saved.values.content.price = want.content.price
                /\ new.price = old.price
          /\ new.nodes = want.content.nodes
      BY <1>0, <1>2, <3>2, TemplateUpdated
    <3>4. remote'.templates[want.cluster] = new /\ remote'.keeps = remote.keeps
      BY <1>0, <2>1, <2>3, <3>3, TemplateBecomes DEF Template!Put
    <3>5. new # NoTemplate /\ want.cluster # NoCluster
      BY <2>3, <3>3 DEF Template!Put, Template!Exists, Template!TemplateAssumption
    <3>6. saved.values.content.price = Empty => old.price = Empty
      BY <2>3, <3>1 DEF Template!Put, TemplateSound, TemplateInsight
    <3> HIDE DEF old, new
    <3>7. new.price = want.content.price
      BY <3>3, <3>6
    <3>8. new.labels = want.content.labels
            \/ (want.content.labels = Empty /\ remote'.keeps /\ new.labels # Empty)
      BY <3>3, <3>4
    <3> QED
      BY <1>1, <1>4, <3>1, <3>3, <3>4, <3>5, <3>7, <3>8
      DEF TemplateSent, Template!LabelsStay, Template!Exists, Template!Template
  <2> QED
    BY <1>1, <2>2, <2>3
<1> QED
  BY <1>4, <1>5, <1>6, <1>7 DEF TemplateSound, TemplateInsight, Template!SuccessIsReal

LEMMA TemplateEditsSound ==
  ASSUME Template!TemplateAssumption, TemplateSound,
         Template!Import \/ Template!EditConfig \/ Template!Others
  PROVE  TemplateSound'
<1>0. Template!TypeOK /\ TemplatePurpose
  BY DEF TemplateSound
<1>1. run' = run /\ trouble' \in 0..MaxTrouble
  BY <1>0, TemplateTroubleType DEF Template!Import, Template!EditConfig, Template!Others
<1>2. CASE Template!Import
  <2>1. PICK c \in Clusters :
          /\ Template!Exists(c) /\ saved = Template!NotSaved
          /\ saved' = Template!Saved("ok", [cluster |-> c, content |-> Template!Template(c)])
          /\ UNCHANGED <<remote, want, quiet>> /\ run.pc \in Template!Ended
    BY <1>2 DEF Template!Import
  <2>2. Template!Template(c) \in Template!Attributes
    BY <1>0, <2>1 DEF Template!TypeOK, Template!Exists, Template!Template
  <2>3. [cluster |-> c, content |-> Template!Template(c)] \in Template!Values
    BY <2>2 DEF Template!Values
  <2>4. saved' \in TemplateKnown
    BY <2>1, <2>3, TemplateRecordType
  <2>5. Template!TypeOK'
    BY <1>0, <1>1, <2>1, <2>4 DEF Template!TypeOK, TemplateKnown
  <2>6. run.pc \notin Template!Steps
    BY <2>1 DEF Template!Ended, Template!Steps
  <2>7. Template!SuccessIsReal'
    BY <1>1, <2>1
    DEF TemplateSound, Template!SuccessIsReal, Template!NotSaved, Template!Saved
  <2> QED
    BY <1>1, <2>5, <2>6, <2>7
    DEF TemplateSound, TemplatePurpose, TemplateInsight, TemplateDelivered, Template!Steps
<1>3. CASE Template!EditConfig
  <2>1. want' \in Template!Values \cup {Absent} /\ quiet' = FALSE /\ UNCHANGED <<remote, saved>>
        /\ run.pc \in Template!Ended
    BY <1>3 DEF Template!EditConfig, Template!Configurations
  <2>2. Template!TypeOK'
    BY <1>0, <1>1, <2>1 DEF Template!TypeOK
  <2>3. TemplatePurpose'
    BY <1>1, <2>1 DEF TemplatePurpose, Template!Ended, Template!Steps
  <2> QED
    BY <2>1, <2>2, <2>3
    DEF TemplateSound, TemplateInsight, TemplateDelivered, Template!SuccessIsReal
<1>4. CASE Template!Others
  <2>1. UNCHANGED <<want, saved>> /\ quiet' = FALSE
    BY <1>4 DEF Template!Others
  <2>2. PICK c \in Clusters, template \in Templates \cup {NoTemplate} :
          Template!Becomes(c, template)
    BY <1>4 DEF Template!Others
  <2>3. remote' \in TemplateRemotes
    BY <1>0, <2>2, TemplateBecomes DEF Template!TemplateAssumption
  <2>4. Template!TypeOK'
    BY <1>0, <1>1, <2>1, <2>3 DEF Template!TypeOK, TemplateRemotes
  <2>5. TemplatePurpose'
    BY <1>0, <1>1, <2>1 DEF TemplatePurpose
  <2> QED
    BY <2>1, <2>4, <2>5
    DEF TemplateSound, TemplateInsight, TemplateDelivered, Template!SuccessIsReal
<1> QED
  BY <1>2, <1>3, <1>4

LEMMA TemplateInit ==
  ASSUME Template!TemplateAssumption, Template!Init
  PROVE  TemplateSound
<1>1. run.pc = "idle" /\ run \in TemplateRuns
  BY DEF Template!Init, Template!Run, TemplateRuns, TemplatePCs, TemplateOps, Template!Ended
<1>2. Template!TypeOK
  BY <1>1
  DEF Template!Init, Template!TypeOK, Template!Configurations, TemplateRuns, TemplatePCs,
      TemplateOps, Template!TemplateAssumption
<1> QED
  BY <1>1, <1>2
  DEF TemplateSound, TemplatePurpose, TemplateInsight, TemplateDelivered,
      Template!SuccessIsReal, Template!Steps

LEMMA TemplateStep ==
  ASSUME Template!TemplateAssumption, TemplateSound, [Template!Next]_(Template!vars)
  PROVE  TemplateSound'
<1>1. CASE \/ Template!StartApply \/ Template!PlanDelete \/ Template!PlanNothing
           \/ Template!PlanUpdate \/ Template!ReadSkips
  BY <1>1, TemplateBeginsSound
<1>2. CASE Template!Refresh \/ Template!Reread
  BY <1>2, TemplateReadSound
<1>3. CASE Template!RefreshMissing \/ Template!Destroy
  BY <1>3, TemplateForgetsSound
<1>4. CASE Template!Move
  BY <1>4, TemplateMoveSound
<1>5. CASE Template!Call
  BY <1>5, TemplateCallSound
<1>6. CASE Template!CallFails \/ Template!Killed \/ Template!Refused \/ Template!RereadMissing
  BY <1>6, TemplateFailsSound
<1>7. CASE Template!Import \/ Template!EditConfig \/ Template!Others
  BY <1>7, TemplateEditsSound
<1>8. CASE UNCHANGED Template!vars
  <2>1. Template!TypeOK' /\ TemplatePurpose'
    BY <1>8 DEF Template!vars, TemplateSound, Template!TypeOK, TemplatePurpose
  <2>2. TemplateInsight'
    BY <1>8
    DEF Template!vars, TemplateSound, TemplateInsight, Template!Exists, Template!Template
  <2>3. TemplateDelivered'
    BY <1>8
    DEF Template!vars, TemplateSound, TemplateDelivered, TemplateSent,
        Template!LabelsStay, Template!Exists, Template!Template
  <2>4. Template!SuccessIsReal'
    BY <1>8
    DEF Template!vars, TemplateSound, Template!SuccessIsReal, Template!LabelsStay,
        Template!Exists, Template!Template
  <2> QED
    BY <2>1, <2>2, <2>3, <2>4 DEF TemplateSound
<1> QED
  BY <1>1, <1>2, <1>3, <1>4, <1>5, <1>6, <1>7, <1>8 DEF Template!Next, Template!Terraform

LEMMA TemplateInvariant ==
  ASSUME Template!TemplateAssumption
  PROVE  Template!Spec => []TemplateSound
<1>1. Template!Init => TemplateSound
  BY TemplateInit
<1>2. TemplateSound /\ [Template!Next]_(Template!vars) => TemplateSound'
  BY TemplateStep
<1> QED
  BY <1>1, <1>2, PTL DEF Template!Spec

\* What a step takes out of the state.
LEMMA TemplateLoss ==
  ASSUME Template!TemplateAssumption, TemplateSound, Template!Next
  PROVE  Template!KnownLoss
<1> SUFFICES ASSUME saved # Template!NotSaved, Template!Exists(saved.values.cluster),
                    remote' = remote,
                    saved' # saved
    PROVE  \/ saved' # Template!NotSaved /\ saved'.values.cluster = saved.values.cluster
           \/ run'.op = "move" /\ saved'.values.cluster = want.cluster
  BY DEF Template!KnownLoss
<1>0. Template!TypeOK /\ TemplatePurpose
  BY DEF TemplateSound
<1>1. saved \in TemplateKnown /\ saved.values \in Template!Values
  BY <1>0, TemplateSavedType
<1>2. \/ \/ Template!Refresh \/ Template!RefreshMissing \/ Template!Move \/ Template!Reread
      \/ Template!Destroy
      \/ Template!Refused \/ Template!CallFails \/ Template!Import
  BY DEF Template!Next, Template!Terraform, Template!StartApply, Template!PlanDelete,
         Template!PlanNothing, Template!PlanUpdate, Template!ReadSkips,
         Template!Call, Template!RereadMissing,
         Template!Killed, Template!EditConfig, Template!Others
<1>3. CASE Template!Refresh
  <2>1. saved' = [saved EXCEPT !.values = Template!Shown(saved.values)]
    BY <1>3 DEF Template!Refresh
  <2>2. Template!Shown(saved.values).cluster = saved.values.cluster
    BY <1>0, <1>1, TemplateShownType
  <2> QED
    BY <1>1, <2>1, <2>2 DEF TemplateKnown, Template!NotSaved
<1>4. CASE Template!RefreshMissing
  BY <1>4 DEF Template!RefreshMissing
<1>5. CASE Template!Move
  BY <1>5 DEF Template!Move, Template!Saved, Template!Run
<1>6. CASE Template!Reread
  <2>1. /\ want \in Template!Values /\ Template!Exists(want.cluster)
        /\ saved' = Template!Saved("ok", Template!Shown(want))
        /\ run.op \in {"update", "move"} /\ run'.op = run.op
        /\ run.op = "update" => want.cluster = saved.values.cluster
    BY <1>0, <1>6
    DEF Template!Reread, Template!Goes, TemplatePurpose, Template!Steps, Template!TypeOK
  <2>2. Template!Shown(want) \in Template!Values /\ Template!Shown(want).cluster = want.cluster
    BY <1>0, <2>1, TemplateShownType
  <2>3. saved' # Template!NotSaved /\ saved'.values = Template!Shown(want)
    BY <2>1, <2>2, TemplateRecordType
  <2> QED
    BY <2>1, <2>2, <2>3
<1>7. CASE Template!Destroy
  <2>1. saved.values.cluster \in Clusters /\ Template!Becomes(saved.values.cluster, NoTemplate)
    BY <1>1, <1>7
    DEF Template!Destroy, Template!Delete, Template!Exists, Template!Values
  <2>2. remote'.templates[saved.values.cluster] = NoTemplate
    BY <1>0, <2>1, TemplateBecomes
  <2> QED
    BY <2>2 DEF Template!Exists, Template!Template
<1>8. CASE Template!Refused \/ Template!CallFails
  <2>1. run.pc \in Template!Steps /\ saved' = Template!AfterError /\ run'.op = run.op
    BY <1>0, <1>8
    DEF Template!Refused, Template!CallFails, Template!Fails, Template!Goes,
        Template!Steps, Template!TypeOK
  <2>2. CASE run.op # "move"
    BY <1>0, <2>1, <2>2, TemplateErrorType
  <2>3. CASE run.op = "move"
    BY <2>1, <2>3 DEF Template!AfterError, Template!Saved
  <2> QED
    BY <2>2, <2>3
<1>9. CASE Template!Import
  BY <1>9 DEF Template!Import
<1> QED
  BY <1>2, <1>3, <1>4, <1>5, <1>6, <1>7, <1>8, <1>9

\* Type correctness of a node template resource.
THEOREM TemplateTyping ==
  ASSUME Template!TemplateAssumption
  PROVE  Template!Spec => []Template!TypeOK
<1>1. TemplateSound => Template!TypeOK
  BY DEF TemplateSound
<1> QED
  BY <1>1, TemplateInvariant, PTL

\* Where the cluster is not changed, an undisturbed create or update that ends
\* without an error leaves what it says it does, and the state shows it.
THEOREM TemplateSuccess ==
  ASSUME Template!TemplateAssumption
  PROVE  Template!Spec => []Template!SuccessIsReal
<1>1. TemplateSound => Template!SuccessIsReal
  BY DEF TemplateSound
<1> QED
  BY <1>1, TemplateInvariant, PTL

\* A template that exists and was not deleted leaves the state only in an update
\* that changes the cluster.
THEOREM TemplateLosses ==
  ASSUME Template!TemplateAssumption
  PROVE  Template!Spec => Template!OnlyKnownLosses
<1>1. TemplateSound /\ [Template!Next]_(Template!vars) => [Template!KnownLoss]_(Template!vars)
  BY TemplateLoss
<1> QED
  BY <1>1, TemplateInvariant, PTL DEF Template!Spec, Template!OnlyKnownLosses

-----------------------------------------------------------------------------
(* What is reached stays reached *)

LEMMA TemplateReachedStays ==
  ASSUME Template!Reached, UNCHANGED <<remote, want, saved>>
  PROVE  Template!Reached'
BY DEF Template!Reached, Template!Exists, Template!Template, Template!NotSaved

\* What Read shows of a template that is reached is what is configured, also
\* where there is no price.
LEMMA TemplateRests ==
  ASSUME Template!TemplateAssumption, Template!TypeOK, Template!AtRest,
         [Template!Next]_(Template!vars), trouble' = trouble
  PROVE  Template!AtRest'
<1>1. ~Template!Trouble
  BY DEF Template!Trouble, Template!TypeOK, Template!TemplateAssumption
<1>2. \A pc, op : Template!Run(pc, op).pc = pc /\ Template!Run(pc, op).op = op
  BY DEF Template!Run
<1>3. /\ run.pc \in Template!Ended \cup {"read", "plan"}
      /\ run.pc \in {"read", "plan"} => want # Absent
      /\ run.pc = "read" => run = Template!Run("read", "none")
  BY <1>2 DEF Template!AtRest, Template!Ended
<1>4. want # Absent =>
        /\ Template!Template(want.cluster) = want.content
        /\ saved = Template!Saved("ok", want)
        /\ saved.values = want /\ saved.status = "ok" /\ saved # Template!NotSaved
        /\ want \in Template!Values
        /\ Template!Exists(want.cluster)
  <2> SUFFICES ASSUME want # Absent
               PROVE  /\ Template!Template(want.cluster) = want.content
                      /\ saved = Template!Saved("ok", want)
                      /\ saved.values = want /\ saved.status = "ok"
                      /\ saved # Template!NotSaved
                      /\ want \in Template!Values
                      /\ Template!Exists(want.cluster)
    OBVIOUS
  <2>1. /\ Template!Template(want.cluster) = want.content
        /\ saved = Template!Saved("ok", want)
        /\ Template!Exists(want.cluster)
    BY DEF Template!AtRest, Template!Reached
  <2>2. saved.values = want /\ saved.status = "ok" /\ saved # Template!NotSaved
    BY <2>1 DEF Template!Saved, Template!NotSaved
  <2>3. want \in Template!Values
    BY DEF Template!TypeOK
  <2> QED
    BY <2>1, <2>2, <2>3
<1>5. ASSUME NEW pc \in {"read", "plan"}, want # Absent, run' = Template!Run(pc, "none"),
             UNCHANGED <<remote, want, saved>>
      PROVE  Template!AtRest'
  BY <1>5, TemplateReachedStays DEF Template!AtRest, Template!Run
<1>6. ASSUME run'.pc \in Template!Ended, UNCHANGED <<remote, want, saved>>
      PROVE  Template!AtRest'
  BY <1>6, TemplateReachedStays DEF Template!AtRest
<1>7. CASE Template!StartApply
  <2>1. UNCHANGED <<remote, want, saved>>
    BY <1>7 DEF Template!StartApply
  <2>2. CASE want # Absent
    <3>1. run' = Template!Run("read", "none")
      BY <1>4, <1>7, <2>2 DEF Template!StartApply
    <3> QED
      BY <1>5, <2>1, <2>2, <3>1
  <2>3. CASE want = Absent
    <3>1. saved = Template!NotSaved
      BY <2>3 DEF Template!AtRest, Template!Reached
    <3>2. run' = Template!Run("done", "none")
      BY <1>7, <2>3, <3>1 DEF Template!StartApply
    <3> QED
      BY <1>2, <1>6, <2>1, <3>2 DEF Template!Ended
  <2> QED
    BY <2>2, <2>3
<1>8. CASE Template!Refresh
  <2>1. /\ want # Absent /\ run = Template!Run("read", "none")
        /\ UNCHANGED <<remote, want>>
    BY <1>3, <1>8 DEF Template!Refresh
  <2>2. Template!Shown(want) = [cluster |-> want.cluster, content |-> want.content]
    BY <1>4, <2>1, TemplateShownType
  <2>3. Template!Shown(want) = want
    BY <1>4, <2>1, <2>2 DEF Template!Values
  <2>4. saved' = [saved EXCEPT !.values = want]
    BY <1>4, <1>8, <2>1, <2>3 DEF Template!Refresh
  <2>5. saved' = saved
    BY <1>4, <2>1, <2>4 DEF Template!Saved
  <2>6. run' = [run EXCEPT !.pc = "plan"]
    BY <1>8 DEF Template!Refresh, Template!Goes
  <2>7. run' = Template!Run("plan", "none")
    BY <2>1, <2>6 DEF Template!Run
  <2> QED
    BY <1>5, <2>1, <2>5, <2>7
<1>9. CASE Template!RefreshMissing \/ Template!ReadSkips
  BY <1>3, <1>4, <1>9 DEF Template!RefreshMissing, Template!ReadSkips, Template!Exists
<1>10. CASE Template!PlanDelete \/ Template!PlanUpdate \/ Template!Move
  BY <1>3, <1>4, <1>10 DEF Template!PlanDelete, Template!PlanUpdate, Template!Move
<1>11. CASE Template!PlanNothing
  <2>1. UNCHANGED <<remote, want, saved>> /\ run' = [run EXCEPT !.pc = "done"]
    BY <1>11 DEF Template!PlanNothing, Template!Goes
  <2>2. run'.pc = "done"
    BY <2>1 DEF Template!TypeOK
  <2> QED
    BY <1>6, <2>1, <2>2 DEF Template!Ended
<1>12. CASE UNCHANGED Template!vars
  BY <1>12, TemplateReachedStays DEF Template!vars, Template!AtRest, Template!Run
<1>13. ASSUME Template!Next
       PROVE  \/ Template!StartApply
              \/ Template!Refresh \/ Template!RefreshMissing \/ Template!ReadSkips
              \/ Template!PlanDelete \/ Template!PlanNothing \/ Template!PlanUpdate
              \/ Template!Move
  <2>1. run.pc \notin {"post", "put", "reread", "delete"}
    BY <1>3 DEF Template!Ended
  <2> QED
    BY <1>1, <1>13, <2>1
    DEF Template!Next, Template!Terraform, Template!Call, Template!Post, Template!Put,
        Template!Reread, Template!RereadMissing, Template!Destroy, Template!Delete,
        Template!Refused, Template!CallFails, Template!Killed, Template!Import,
        Template!EditConfig, Template!Others
<1> QED
  BY <1>7, <1>8, <1>9, <1>10, <1>11, <1>12, <1>13

-----------------------------------------------------------------------------
(* The secret that is given once: where its token is *)

SecretPurpose ==
  /\ run.pc = "post" => run.op = "create"
  /\ run.pc = "put" => run.op = "update"
  /\ run.pc \in {"switch", "read"} => run.op \in {"create", "update"}
  /\ run.pc \in {"refresh", "plan"} => run.op = "none" /\ saved # Secret!NotSaved
  /\ run.pc = "delete" => run.op = "delete"
  /\ run.pc \in Secret!Steps /\ run.op = "create" => saved = Secret!NotSaved
  /\ run.pc \in Secret!Steps /\ run.op = "update" => saved.status = "ok"
  /\ run.pc \in Secret!Steps /\ run.op \in {"create", "update"} => want \in Secret!Values
  /\ run.pc = "switch" => remote.kind = "sync"
  /\ run.pc = "switch" /\ run.op = "update" => saved.values.on # want.on
  /\ run.token <= remote.given

\* The token of a key is wherever the key is known.
SecretKept ==
  remote.kind = "key" /\ Secret!Exists =>
    /\ saved # Secret!NotSaved => saved.token = remote.object.token
    /\ run.pc \in {"put", "read"} => run.token = remote.object.token

\* What an undisturbed run knows of a connection.
SecretInsight ==
  quiet /\ Secret!Exists =>
    /\ run.pc = "plan" => saved.values.on = remote.object.values.on
    /\ run.pc = "put" => saved.values.on = remote.object.values.on
    /\ run.pc = "put" => run.token = saved.token
    /\ run.pc = "read" /\ remote.object.values.on =>
         \/ run.token = remote.object.token
         \/ run.op = "update" /\ saved.values.on /\ run.token = saved.token

SecretSound == Secret!TypeOK /\ SecretPurpose /\ SecretKept /\ SecretInsight

-----------------------------------------------------------------------------
SecretObjects == [values: Secret!Values, token: Nat]
SecretRemotes ==
  [kind: {"key", "sync"}, unique: BOOLEAN, orphan: BOOLEAN, given: Nat,
   object: SecretObjects \cup {NoObject}]
SecretKnown == [status: {"ok", "tainted"}, values: Secret!Values, token: Nat]
SecretPCs == Secret!Ended \cup Secret!Steps
SecretOps == {"none", "create", "update", "delete"}
SecretRuns == [pc: SecretPCs, op: SecretOps, token: Nat]

LEMMA SecretTypes ==
  Secret!TypeOK <=>
    /\ remote \in SecretRemotes /\ run \in SecretRuns
    /\ want \in Secret!Values \cup {Absent}
    /\ saved \in {Secret!NotSaved} \cup SecretKnown
    /\ saved.token <= remote.given
    /\ quiet \in BOOLEAN /\ trouble \in 0..MoreTrouble
BY DEF Secret!TypeOK, SecretObjects, SecretRemotes, SecretKnown, SecretRuns, SecretPCs,
       SecretOps

LEMMA SecretTypesNext ==
  ASSUME remote' \in SecretRemotes, run' \in SecretRuns,
         want' \in Secret!Values \cup {Absent},
         saved' \in {Secret!NotSaved} \cup SecretKnown,
         saved'.token <= remote'.given,
         quiet' \in BOOLEAN, trouble' \in 0..MoreTrouble
  PROVE  Secret!TypeOK'
BY DEF Secret!TypeOK, SecretObjects, SecretRemotes, SecretKnown, SecretRuns, SecretPCs,
       SecretOps

LEMMA SecretRunType ==
  ASSUME NEW pc \in SecretPCs, NEW op \in SecretOps, NEW token \in Nat
  PROVE  /\ Secret!Run(pc, op, token) \in SecretRuns
         /\ Secret!Run(pc, op, token).pc = pc
         /\ Secret!Run(pc, op, token).op = op
         /\ Secret!Run(pc, op, token).token = token
BY DEF Secret!Run, SecretRuns

LEMMA SecretGoesType ==
  ASSUME Secret!TypeOK, NEW pc \in SecretPCs, Secret!Goes(pc)
  PROVE  run' \in SecretRuns /\ run'.pc = pc /\ run'.op = run.op /\ run'.token = run.token
BY SecretTypes DEF Secret!Goes, SecretRuns

LEMMA SecretRecordType ==
  ASSUME NEW status \in {"ok", "tainted"}, NEW values \in Secret!Values, NEW token \in Nat
  PROVE  /\ Secret!Saved(status, values, token) \in SecretKnown
         /\ Secret!Saved(status, values, token) # Secret!NotSaved
         /\ Secret!Saved(status, values, token).status = status
         /\ Secret!Saved(status, values, token).values = values
         /\ Secret!Saved(status, values, token).token = token
BY DEF Secret!Saved, SecretKnown, Secret!NotSaved

LEMMA SecretTroubleType ==
  ASSUME Secret!SecretAssumption, Secret!TypeOK, Secret!Trouble
  PROVE  trouble' \in 0..MoreTrouble
BY DEF Secret!SecretAssumption, Secret!TypeOK, Secret!Trouble

\* An object that exists is one.
LEMMA SecretObject ==
  ASSUME Secret!TypeOK, Secret!Exists
  PROVE  remote.object \in SecretObjects /\ remote.object.values \in Secret!Values
         /\ remote.object.token \in Nat
BY SecretTypes DEF Secret!Exists, SecretRemotes, SecretObjects

-----------------------------------------------------------------------------
(* What the calls leave *)

LEMMA SecretMakes ==
  ASSUME Secret!SecretAssumption, Secret!TypeOK, NEW values \in Secret!Values
  PROVE  /\ Secret!Makes(values) \in SecretRemotes
         /\ Secret!Makes(values).object \in SecretObjects
         /\ Secret!Makes(values).object # NoObject
         /\ Secret!Makes(values).kind = remote.kind
         /\ remote.given <= Secret!Makes(values).given
         /\ Secret!Makes(values).object.token <= Secret!Makes(values).given
         /\ remote.kind = "sync" => ~Secret!Makes(values).object.values.on
<1>1. remote \in SecretRemotes /\ remote.given \in Nat /\ remote.given + 1 \in Nat
  BY SecretTypes DEF SecretRemotes
<1>2. CASE remote.kind = "key"
  <2> DEFINE object == [values |-> values, token |-> remote.given + 1]
  <2>1. object \in SecretObjects /\ object.token = remote.given + 1
    BY <1>1 DEF SecretObjects
  <2>2. Secret!Makes(values) = [remote EXCEPT !.given = remote.given + 1, !.object = object]
    BY <1>1, <1>2 DEF Secret!Makes, SecretRemotes
  <2> HIDE DEF object
  <2>3. /\ Secret!Makes(values) \in SecretRemotes
        /\ Secret!Makes(values).object = object /\ object # NoObject
        /\ Secret!Makes(values).given = remote.given + 1
        /\ Secret!Makes(values).kind = remote.kind
    BY <1>1, <2>1, <2>2 DEF SecretRemotes, SecretObjects, Secret!SecretAssumption
  <2> QED
    BY <1>1, <1>2, <2>1, <2>3
<1>3. CASE remote.kind # "key"
  <2> DEFINE object == [values |-> [values EXCEPT !.on = FALSE], token |-> 0]
  <2>1. /\ [values EXCEPT !.on = FALSE] \in Secret!Values
        /\ [values EXCEPT !.on = FALSE].on = FALSE
    BY DEF Secret!Values
  <2>2. object \in SecretObjects /\ object.token = 0 /\ ~object.values.on
    BY <2>1 DEF SecretObjects
  <2>3. Secret!Makes(values) = [remote EXCEPT !.object = object]
    BY <1>3 DEF Secret!Makes
  <2>4. [remote EXCEPT !.object = object] =
          [remote EXCEPT !.given = remote.given, !.object = object]
    BY <1>1 DEF SecretRemotes
  <2> HIDE DEF object
  <2>5. /\ Secret!Makes(values) \in SecretRemotes
        /\ Secret!Makes(values).object = object /\ object # NoObject
        /\ Secret!Makes(values).given = remote.given /\ Secret!Makes(values).kind = remote.kind
    BY <1>1, <2>2, <2>3, <2>4 DEF SecretRemotes, SecretObjects, Secret!SecretAssumption
  <2> QED
    BY <1>1, <2>2, <2>5
<1> QED
  BY <1>2, <1>3

LEMMA SecretOrphaned ==
  ASSUME Secret!SecretAssumption, NEW after \in SecretRemotes
  PROVE  /\ Secret!Orphaned(after) \in SecretRemotes
         /\ Secret!Orphaned(after).object = NoObject
         /\ Secret!Orphaned(after).given = after.given
         /\ Secret!Orphaned(after).kind = after.kind
BY DEF Secret!Orphaned, SecretRemotes

LEMMA SecretSwitches ==
  ASSUME Secret!SecretAssumption, Secret!TypeOK, Secret!Exists, NEW on \in BOOLEAN
  PROVE  /\ Secret!Switches(on) \in SecretRemotes
         /\ Secret!Switches(on).object \in SecretObjects
         /\ Secret!Switches(on).object # NoObject
         /\ Secret!Switches(on).object.values.on = on
         /\ Secret!Switches(on).kind = remote.kind
         /\ remote.given <= Secret!Switches(on).given
         /\ Secret!Switches(on).object.token = remote.object.token
              \/ Secret!Switches(on).object.token <= Secret!Switches(on).given
         /\ remote.kind = "key" => Secret!Switches(on).object.token = remote.object.token
         /\ remote.kind = "sync" /\ on =>
              Secret!Switches(on).object.token <= Secret!Switches(on).given
<1>1. /\ remote \in SecretRemotes /\ remote.object \in SecretObjects
      /\ remote.given \in Nat /\ remote.given + 1 \in Nat
  BY SecretTypes, SecretObject DEF SecretRemotes
<1>2. CASE remote.kind = "sync" /\ on
  <2> DEFINE values == [remote.object.values EXCEPT !.on = TRUE]
             object == [remote.object EXCEPT !.values = values, !.token = remote.given + 1]
  <2>1. values \in Secret!Values /\ values.on = TRUE
    BY <1>1 DEF SecretObjects, Secret!Values
  <2>5. Secret!Switches(on) = [remote EXCEPT !.given = remote.given + 1, !.object = object]
    BY <1>1, <1>2 DEF Secret!Switches, SecretRemotes
  <2> HIDE DEF values
  <2>2. object \in SecretObjects /\ object.token = remote.given + 1 /\ object.values = values
    BY <1>1, <2>1 DEF SecretObjects
  <2> HIDE DEF object
  <2>6. /\ Secret!Switches(on) \in SecretRemotes
        /\ Secret!Switches(on).object = object /\ object # NoObject
        /\ Secret!Switches(on).given = remote.given + 1
        /\ Secret!Switches(on).kind = remote.kind
    BY <1>1, <2>2, <2>5 DEF SecretRemotes, SecretObjects, Secret!SecretAssumption
  <2>7. Secret!Switches(on).object.values.on = on
    BY <1>2, <2>1, <2>2, <2>6, Zenon
  <2>8. /\ remote.given <= Secret!Switches(on).given
        /\ Secret!Switches(on).object.token <= Secret!Switches(on).given
    BY <1>1, <2>2, <2>6
  <2>9. remote.kind # "key"
    BY <1>2
  <2> QED
    BY <2>2, <2>6, <2>7, <2>8, <2>9, Zenon
<1>3. CASE ~(remote.kind = "sync" /\ on)
  <2>1. Secret!Switches(on) = [remote EXCEPT !.object.values.on = on]
    BY <1>3 DEF Secret!Switches
  <2>2. /\ Secret!Switches(on).kind = remote.kind
        /\ Secret!Switches(on).given = remote.given
        /\ Secret!Switches(on).object.token = remote.object.token
        /\ Secret!Switches(on).object.values.on = on
    BY <1>1, <2>1 DEF SecretRemotes, SecretObjects, Secret!Values
  <2>3. Secret!Switches(on) \in SecretRemotes /\ Secret!Switches(on).object \in SecretObjects
    BY <1>1, <2>1 DEF SecretRemotes, SecretObjects, Secret!Values
  <2> QED
    BY <1>1, <1>3, <2>2, <2>3 DEF Secret!SecretAssumption, SecretObjects
<1> QED
  BY <1>2, <1>3

LEMMA SecretConnector ==
  ASSUME Secret!SecretAssumption, Secret!TypeOK, Secret!Exists,
         NEW settings \in Settings, NEW connector \in Connectors \cup {NoConnector},
         remote' = [remote EXCEPT !.object.values.settings = settings,
                                  !.object.values.connector = connector]
  PROVE  /\ remote' \in SecretRemotes
         /\ remote'.object \in SecretObjects
         /\ remote'.object # NoObject
         /\ remote'.object.token = remote.object.token
         /\ remote'.object.values.on = remote.object.values.on
         /\ remote'.kind = remote.kind /\ remote'.given = remote.given
<1>1. remote \in SecretRemotes /\ remote.object \in SecretObjects
  BY SecretTypes, SecretObject
<1>2. remote' \in SecretRemotes /\ remote'.object \in SecretObjects
  BY <1>1 DEF SecretRemotes, SecretObjects, Secret!Values
<1>3. /\ remote'.object.token = remote.object.token
      /\ remote'.object.values.on = remote.object.values.on
      /\ remote'.kind = remote.kind /\ remote'.given = remote.given
  BY <1>1 DEF SecretRemotes, SecretObjects, Secret!Values
<1> QED
  BY <1>2, <1>3 DEF Secret!SecretAssumption, SecretObjects

\* The console's changes of one of the two.
LEMMA SecretChanges ==
  ASSUME Secret!SecretAssumption, Secret!TypeOK, Secret!Exists,
         \/ \E settings \in Settings :
              remote' = [remote EXCEPT !.object.values.settings = settings]
         \/ \E connector \in Connectors :
              remote' = [remote EXCEPT !.object.values.connector = connector]
  PROVE  /\ remote' \in SecretRemotes
         /\ remote'.object \in SecretObjects
         /\ remote'.object # NoObject
         /\ remote'.object.token = remote.object.token
         /\ remote'.object.values.on = remote.object.values.on
         /\ remote'.kind = remote.kind /\ remote'.given = remote.given
<1>1. remote \in SecretRemotes /\ remote.object \in SecretObjects
  BY SecretTypes, SecretObject
<1>2. ASSUME NEW settings \in Settings,
             remote' = [remote EXCEPT !.object.values.settings = settings]
      PROVE  remote' \in SecretRemotes /\ remote'.object \in SecretObjects
             /\ remote'.object.token = remote.object.token
             /\ remote'.object.values.on = remote.object.values.on
             /\ remote'.kind = remote.kind /\ remote'.given = remote.given
  BY <1>1, <1>2 DEF SecretRemotes, SecretObjects, Secret!Values
<1>3. ASSUME NEW connector \in Connectors,
             remote' = [remote EXCEPT !.object.values.connector = connector]
      PROVE  remote' \in SecretRemotes /\ remote'.object \in SecretObjects
             /\ remote'.object.token = remote.object.token
             /\ remote'.object.values.on = remote.object.values.on
             /\ remote'.kind = remote.kind /\ remote'.given = remote.given
  BY <1>1, <1>3 DEF SecretRemotes, SecretObjects, Secret!Values
<1> QED
  BY <1>2, <1>3 DEF Secret!SecretAssumption, SecretObjects

\* What a Read shows: all but the connector.
LEMMA SecretShown ==
  ASSUME Secret!TypeOK, Secret!Exists, NEW known \in Secret!Values
  PROVE  /\ Secret!Shown(known) \in Secret!Values
         /\ Secret!Shown(known).on = remote.object.values.on
BY SecretObject DEF Secret!Shown, Secret!Values

LEMMA SecretDeleted ==
  ASSUME Secret!TypeOK, remote' = [remote EXCEPT !.object = NoObject]
  PROVE  /\ remote' \in SecretRemotes /\ remote'.object = NoObject
         /\ remote'.kind = remote.kind /\ remote'.given = remote.given
BY SecretTypes DEF SecretRemotes

\* The calls that change an object which is known leave a key its token.
SecretMild ==
  /\ remote' \in SecretRemotes
  /\ remote'.kind = remote.kind
  /\ remote.given <= remote'.given
  /\ remote'.object # NoObject =>
       /\ Secret!Exists
       /\ remote.kind = "key" => remote'.object.token = remote.object.token

LEMMA SecretPut ==
  ASSUME Secret!SecretAssumption, Secret!TypeOK, want \in Secret!Values, Secret!Put
  PROVE  SecretMild /\ Secret!Exists'
         /\ (remote.kind = "sync" => remote'.object.values.on = remote.object.values.on
                                     /\ remote'.object.token = remote.object.token)
<1>0. /\ want.on \in BOOLEAN /\ Secret!Sent \in Settings /\ Secret!Exists
      /\ want.connector \in Connectors \cup {NoConnector}
  BY SecretObject DEF Secret!Values, Secret!Put, Secret!Sent
<1>1. remote.kind \in {"key", "sync"} /\ remote.given \in Nat
  BY SecretTypes DEF SecretRemotes
<1>2. CASE remote.kind = "key"
  <2>1. remote' = Secret!Switches(want.on)
    BY <1>2 DEF Secret!Put
  <2> QED
    BY <1>0, <1>2, <2>1, SecretSwitches DEF SecretMild, Secret!Exists
<1>3. CASE remote.kind = "sync"
  <2>1. remote' = [remote EXCEPT !.object.values.settings = Secret!Sent,
                                 !.object.values.connector = want.connector]
    BY <1>3 DEF Secret!Put
  <2>2. /\ remote' \in SecretRemotes
        /\ remote'.object # NoObject
        /\ remote'.object.token = remote.object.token
        /\ remote'.object.values.on = remote.object.values.on
        /\ remote'.kind = remote.kind /\ remote'.given = remote.given
    BY <1>0, <2>1, SecretConnector, Zenon
  <2> QED
    BY <1>0, <1>1, <2>2 DEF SecretMild, Secret!Exists
<1> QED
  BY <1>1, <1>2, <1>3

LEMMA SecretSwitch ==
  ASSUME Secret!SecretAssumption, Secret!TypeOK, want \in Secret!Values, Secret!Switch
  PROVE  SecretMild /\ Secret!Exists' /\ remote'.object.values.on = want.on
         /\ remote'.object.token \in Nat
         /\ (remote.kind = "sync" /\ want.on => remote'.object.token <= remote'.given)
<1>0. want.on \in BOOLEAN /\ Secret!Exists /\ remote' = Secret!Switches(want.on)
  BY DEF Secret!Values, Secret!Switch
<1> QED
  BY <1>0, SecretSwitches DEF SecretMild, Secret!Exists, SecretObjects

LEMMA SecretDelete ==
  ASSUME Secret!TypeOK, Secret!Delete \/ remote' = [remote EXCEPT !.object = NoObject]
  PROVE  SecretMild /\ ~Secret!Exists'
<1>1. remote' = [remote EXCEPT !.object = NoObject] /\ remote.given \in Nat
  BY SecretTypes DEF Secret!Delete, SecretRemotes
<1> QED
  BY <1>1, SecretDeleted DEF SecretMild, Secret!Exists

LEMMA SecretSame ==
  ASSUME Secret!TypeOK, UNCHANGED remote
  PROVE  SecretMild
BY SecretTypes DEF SecretMild, SecretRemotes, Secret!Exists

-----------------------------------------------------------------------------
(* The steps *)

LEMMA SecretErrorType ==
  ASSUME Secret!SecretAssumption, Secret!TypeOK, SecretPurpose, run.pc \in Secret!Steps
  PROVE  /\ Secret!AfterError \in {Secret!NotSaved} \cup SecretKnown
         /\ Secret!AfterError.token <= remote.given
         /\ Secret!AfterError.token \in {saved.token, run.token}
         /\ run.op \notin {"create", "update"} => Secret!AfterError = saved
         /\ run.op = "create" => Secret!AfterError.status # "ok"
         /\ run.op = "create" /\ run.pc \in {"switch", "read"} =>
              Secret!AfterError.token = run.token
         /\ run.op = "update" => Secret!AfterError.token = run.token
         /\ run.pc = "post" => Secret!AfterError = Secret!NotSaved
<1>0. /\ run.token \in Nat /\ run.token <= remote.given
      /\ saved \in {Secret!NotSaved} \cup SecretKnown /\ saved.token <= remote.given
      /\ Secret!NotSaved.status = "none"
  BY SecretTypes DEF SecretPurpose, SecretRuns, Secret!NotSaved
<1>1. CASE run.op = "update"
  <2>1. saved.status = "ok" /\ want \in Secret!Values
    BY <1>1 DEF SecretPurpose
  <2>2. Secret!AfterError = Secret!Saved(saved.status, want, run.token)
    BY <1>1 DEF Secret!AfterError
  <2>3. Secret!AfterError \in SecretKnown /\ Secret!AfterError.token = run.token
    BY <1>0, <2>1, <2>2, SecretRecordType
  <2>4. run.pc # "post"
    BY <1>1 DEF SecretPurpose
  <2> QED
    BY <1>0, <1>1, <2>3, <2>4
<1>2. CASE run.op = "create" /\ run.pc \in {"switch", "read"}
  <2>1. want \in Secret!Values
    BY <1>2 DEF SecretPurpose
  <2>2. Secret!AfterError = Secret!Saved("tainted", want, run.token)
    BY <1>2 DEF Secret!AfterError
  <2>3. /\ Secret!AfterError \in SecretKnown /\ Secret!AfterError.token = run.token
        /\ Secret!AfterError.status = "tainted"
    BY <1>0, <2>1, <2>2, SecretRecordType
  <2> QED
    BY <1>0, <1>2, <2>3
<1>3. CASE run.op # "update" /\ ~(run.op = "create" /\ run.pc \in {"switch", "read"})
  <2>1. Secret!AfterError = saved
    BY <1>3 DEF Secret!AfterError
  <2>2. run.op = "create" => saved = Secret!NotSaved
    BY DEF SecretPurpose
  <2>3. run.pc = "post" => run.op = "create"
    BY DEF SecretPurpose
  <2> QED
    BY <1>0, <1>3, <2>1, <2>2, <2>3
<1> QED
  BY <1>1, <1>2, <1>3

\* A run that has failed: what the state has of a key has its token.
LEMMA SecretStops ==
  ASSUME Secret!SecretAssumption, SecretSound, SecretMild, Secret!Goes("failed"),
         saved' \in {saved, Secret!NotSaved, Secret!AfterError}, run.pc \in Secret!Steps,
         UNCHANGED <<want, quiet>>, trouble' \in 0..MoreTrouble
  PROVE  SecretSound'
<1>0. Secret!TypeOK /\ SecretPurpose /\ SecretKept
  BY DEF SecretSound
<1>1. run' \in SecretRuns /\ run'.pc = "failed" /\ run'.token = run.token
  BY <1>0, SecretGoesType DEF SecretPCs, Secret!Ended
<1>2. /\ remote' \in SecretRemotes /\ remote'.given \in Nat /\ remote.given \in Nat
      /\ remote.given <= remote'.given /\ run.token \in Nat
  BY <1>0, SecretTypes DEF SecretMild, SecretRemotes, SecretRuns
<1>3. saved \in {Secret!NotSaved} \cup SecretKnown /\ saved.token <= remote.given
  BY <1>0, SecretTypes
<1>4. Secret!NotSaved.token = 0
  BY DEF Secret!NotSaved
<1>5. /\ saved' \in {Secret!NotSaved} \cup SecretKnown /\ saved'.token <= remote.given
      /\ saved'.token \in Nat
  BY <1>0, <1>2, <1>3, <1>4, SecretErrorType DEF SecretKnown
<1>6. saved'.token <= remote'.given /\ run'.token <= remote'.given
  BY <1>0, <1>1, <1>2, <1>5 DEF SecretPurpose
<1>7. Secret!TypeOK'
  BY <1>0, <1>1, <1>2, <1>5, <1>6, SecretTypes, SecretTypesNext
<1>8. SecretPurpose' /\ SecretInsight'
  BY <1>1, <1>6 DEF SecretPurpose, SecretInsight, Secret!Steps
<1>9. SecretKept'
  <2> SUFFICES ASSUME remote'.kind = "key", Secret!Exists', saved' # Secret!NotSaved
      PROVE  saved'.token = remote'.object.token
    BY <1>1 DEF SecretKept
  <2>1. Secret!Exists /\ remote.kind = "key" /\ remote'.object.token = remote.object.token
    BY DEF SecretMild, Secret!Exists
  <2>2. CASE saved' = saved
    BY <1>0, <2>1, <2>2 DEF SecretKept
  <2>3. CASE saved' = Secret!AfterError /\ Secret!AfterError # saved
    <3>1. run.pc \in {"put", "read"} /\ run.op \in {"create", "update"}
      BY <1>0, <2>1, <2>3, SecretErrorType DEF SecretPurpose, Secret!Steps
    <3>2. run.pc = "put" => run.op = "update"
      BY <1>0 DEF SecretPurpose
    <3>3. Secret!AfterError.token = run.token
      BY <1>0, <3>1, <3>2, SecretErrorType
    <3> QED
      BY <1>0, <2>1, <2>3, <3>1, <3>3 DEF SecretKept
  <2> QED
    BY <2>2, <2>3
<1> QED
  BY <1>7, <1>8, <1>9 DEF SecretSound

LEMMA SecretFailsSound ==
  ASSUME Secret!SecretAssumption, SecretSound,
         \/ Secret!CreatedInactive \/ Secret!ReadFails \/ Secret!Refused \/ Secret!Stops
         \/ Secret!Killed
  PROVE  SecretSound'
<1>0. Secret!TypeOK /\ SecretPurpose
  BY DEF SecretSound
<1>1. /\ run.pc \in Secret!Steps /\ Secret!Goes("failed") /\ UNCHANGED <<want, quiet>>
      /\ trouble' \in 0..MoreTrouble
      /\ saved' \in {saved, Secret!AfterError}
  BY <1>0, SecretTroubleType
  DEF Secret!CreatedInactive, Secret!ReadFails, Secret!Refused, Secret!Stops,
      Secret!Killed, Secret!Steps, Secret!TypeOK
<1>2. run.pc \in {"post", "put", "switch"} => want \in Secret!Values
  BY <1>0 DEF SecretPurpose, Secret!Steps
<1>3. ASSUME run.pc = "post", remote' = Secret!Orphaned(Secret!Makes(want))
      PROVE  SecretMild
  <2>1. /\ Secret!Makes(want) \in SecretRemotes /\ Secret!Makes(want).kind = remote.kind
        /\ remote.given <= Secret!Makes(want).given
    BY <1>0, <1>2, <1>3, SecretMakes
  <2> QED
    BY <1>3, <2>1, SecretOrphaned DEF SecretMild
<1>4. ASSUME remote' = Secret!Orphaned(remote)
      PROVE  SecretMild
  <2>1. remote \in SecretRemotes /\ remote.given \in Nat
    BY <1>0, SecretTypes DEF SecretRemotes
  <2> QED
    BY <1>4, <2>1, SecretOrphaned DEF SecretMild
<1>5. ASSUME Secret!Put \/ Secret!Switch \/ Secret!Delete
      PROVE  SecretMild
  BY <1>0, <1>2, <1>5, SecretPut, SecretSwitch, SecretDelete DEF Secret!Put, Secret!Switch
<1>6. SecretMild
  BY <1>0, <1>3, <1>4, <1>5, SecretSame
  DEF Secret!CreatedInactive, Secret!ReadFails, Secret!Refused, Secret!Stops,
      Secret!Killed
<1> QED
  BY <1>1, <1>6, SecretStops

\* The object is gone, and so is what the state had of it.
LEMMA SecretForgets ==
  ASSUME Secret!SecretAssumption, SecretSound, remote' \in SecretRemotes, ~Secret!Exists',
         saved' = Secret!NotSaved, UNCHANGED <<want, quiet, trouble>>,
         NEW op \in {"none", "delete"},
         run' = IF want = Absent THEN Secret!Run("done", op, 0)
                ELSE Secret!Run("post", "create", 0)
  PROVE  SecretSound'
<1>0. Secret!TypeOK
  BY DEF SecretSound
<1>1. /\ run' \in SecretRuns /\ run'.token = 0
      /\ \/ run'.pc = "done"
         \/ run'.pc = "post" /\ run'.op = "create" /\ want # Absent
  BY SecretRunType DEF SecretPCs, SecretOps, Secret!Ended, Secret!Steps
<1>2. saved'.token = 0 /\ 0 <= remote'.given
  BY DEF Secret!NotSaved, SecretRemotes
<1>3. Secret!TypeOK'
  BY <1>0, <1>1, <1>2, SecretTypes, SecretTypesNext
<1>4. SecretPurpose'
  BY <1>0, <1>1, <1>2, SecretTypes DEF SecretPurpose, Secret!Steps
<1> QED
  BY <1>1, <1>3, <1>4 DEF SecretSound, SecretKept, SecretInsight

LEMMA SecretBeginsSound ==
  ASSUME Secret!SecretAssumption, SecretSound, Secret!StartApply
  PROVE  SecretSound'
<1>0. Secret!TypeOK /\ SecretKept
  BY DEF SecretSound
<1>1. UNCHANGED <<remote, want, saved, trouble>> /\ quiet' = TRUE
  BY DEF Secret!StartApply
<1>2. /\ run' \in SecretRuns /\ run'.token = 0
      /\ \/ run'.pc = "refresh" /\ run'.op = "none" /\ saved # Secret!NotSaved
         \/ run'.pc = "post" /\ run'.op = "create" /\ saved = Secret!NotSaved /\ want # Absent
         \/ run'.pc = "done"
  BY SecretRunType DEF Secret!StartApply, SecretPCs, SecretOps, Secret!Ended, Secret!Steps
<1>3. Secret!TypeOK' /\ 0 <= remote.given
  BY <1>0, <1>1, <1>2, SecretTypes, SecretTypesNext DEF SecretRemotes
<1>4. SecretPurpose'
  BY <1>0, <1>1, <1>2, <1>3, SecretTypes DEF SecretPurpose, Secret!Steps
<1>5. SecretKept' /\ SecretInsight'
  BY <1>0, <1>1, <1>2 DEF SecretKept, SecretInsight, Secret!Exists
<1> QED
  BY <1>3, <1>4, <1>5 DEF SecretSound

LEMMA SecretReadSound ==
  ASSUME Secret!SecretAssumption, SecretSound,
         Secret!Refresh \/ Secret!RefreshFindsNothing \/ Secret!ReadBack
  PROVE  SecretSound'
<1>0. Secret!TypeOK /\ SecretPurpose /\ SecretKept
  BY DEF SecretSound
<1>1. UNCHANGED <<remote, want, quiet, trouble>> /\ remote \in SecretRemotes
  BY <1>0, SecretTypes DEF Secret!Refresh, Secret!RefreshFindsNothing, Secret!ReadBack
<1>2. CASE Secret!Refresh
  <2>1. /\ run.pc = "refresh" /\ run.op = "none" /\ saved # Secret!NotSaved /\ Secret!Exists
        /\ saved' = Secret!Saved(saved.status, Secret!Shown(saved.values), saved.token)
        /\ Secret!Goes("plan")
    BY <1>0, <1>2 DEF Secret!Refresh, Secret!TokenAfterRead, SecretPurpose
  <2>2. /\ saved \in SecretKnown /\ Secret!Shown(saved.values) \in Secret!Values
        /\ Secret!Shown(saved.values).on = remote.object.values.on
    <3>1. saved \in SecretKnown /\ saved.values \in Secret!Values
      BY <1>0, <2>1, SecretTypes DEF SecretKnown
    <3> QED
      BY <1>0, <2>1, <3>1, SecretShown
  <2>3. /\ saved' \in SecretKnown /\ saved' # Secret!NotSaved
        /\ saved'.values.on = remote.object.values.on /\ saved'.token = saved.token
    BY <2>1, <2>2, SecretRecordType DEF SecretKnown
  <2>4. /\ run' \in SecretRuns /\ run'.pc = "plan" /\ run'.op = "none"
        /\ run'.token = run.token
    BY <1>0, <2>1, SecretGoesType DEF SecretPCs, Secret!Steps
  <2>5. Secret!TypeOK'
    BY <1>0, <1>1, <2>3, <2>4, SecretTypes, SecretTypesNext
  <2>6. SecretPurpose'
    BY <1>0, <1>1, <2>3, <2>4 DEF SecretPurpose, Secret!Steps
  <2>7. SecretKept' /\ SecretInsight'
    BY <1>0, <1>1, <2>1, <2>3, <2>4 DEF SecretKept, SecretInsight, Secret!Exists
  <2> QED
    BY <2>5, <2>6, <2>7 DEF SecretSound
<1>3. CASE Secret!RefreshFindsNothing /\ remote.kind # "sync"
  <2>1. ~Secret!Exists' /\ saved' = Secret!NotSaved
        /\ run' = IF want = Absent THEN Secret!Run("done", "none", 0)
                  ELSE Secret!Run("post", "create", 0)
    BY <1>1, <1>3 DEF Secret!RefreshFindsNothing, Secret!Exists
  <2> QED
    BY <1>1, <2>1, SecretForgets
<1>4. CASE Secret!RefreshFindsNothing /\ remote.kind = "sync"
  <2>1. Secret!Goes("failed") /\ saved' = saved /\ run.pc \in Secret!Steps
    BY <1>4 DEF Secret!RefreshFindsNothing, Secret!Steps
  <2>2. SecretMild /\ trouble' \in 0..MoreTrouble
    BY <1>0, <1>1, SecretSame DEF Secret!TypeOK
  <2> QED
    BY <1>1, <2>1, <2>2, SecretStops
<1>5. CASE Secret!ReadBack
  <2>1. /\ run.pc = "read" /\ Secret!Exists
        /\ saved' = Secret!Saved("ok", Secret!Shown(want), run.token)
        /\ Secret!Goes("done")
    BY <1>5 DEF Secret!ReadBack, Secret!TokenAfterRead
  <2>2. /\ Secret!Shown(want) \in Secret!Values /\ run.token \in Nat
        /\ run.token <= remote.given
    <3>1. want \in Secret!Values
      BY <1>0, <2>1 DEF SecretPurpose, Secret!Steps
    <3> QED
      BY <1>0, <2>1, <3>1, SecretTypes, SecretShown DEF SecretRuns, SecretPurpose
  <2>3. saved' \in SecretKnown /\ saved'.token = run.token
    BY <2>1, <2>2, SecretRecordType
  <2>4. run' \in SecretRuns /\ run'.pc = "done" /\ run'.token = run.token
    BY <1>0, <2>1, SecretGoesType DEF SecretPCs, Secret!Ended
  <2>5. Secret!TypeOK'
    BY <1>0, <1>1, <2>2, <2>3, <2>4, SecretTypes, SecretTypesNext
  <2>6. SecretPurpose' /\ SecretInsight'
    BY <1>1, <2>2, <2>4 DEF SecretPurpose, SecretInsight, Secret!Steps
  <2>7. SecretKept'
    BY <1>0, <1>1, <2>1, <2>3, <2>4 DEF SecretKept, Secret!Exists
  <2> QED
    BY <2>5, <2>6, <2>7 DEF SecretSound
<1> QED
  BY <1>2, <1>3, <1>4, <1>5

LEMMA SecretPlanSound ==
  ASSUME Secret!SecretAssumption, SecretSound, Secret!Plan
  PROVE  SecretSound'
<1>0. Secret!TypeOK /\ SecretPurpose /\ SecretKept /\ SecretInsight
  BY DEF SecretSound
<1>1. /\ run.pc = "plan" /\ saved # Secret!NotSaved
      /\ UNCHANGED <<remote, want, saved, quiet, trouble>>
  BY <1>0 DEF Secret!Plan, SecretPurpose
<1>2. /\ saved \in SecretKnown /\ saved.token \in Nat /\ saved.token <= remote.given
      /\ remote.given \in Nat /\ remote.kind \in {"key", "sync"}
  BY <1>0, <1>1, SecretTypes DEF SecretKnown, SecretRemotes
<1>3. ASSUME NEW pc \in {"delete", "done"}, NEW op \in {"delete", "none"},
             run' = Secret!Run(pc, op, 0), pc = "delete" => op = "delete"
      PROVE  SecretSound'
  <2>1. run' \in SecretRuns /\ run'.pc = pc /\ run'.op = op /\ run'.token = 0
    BY <1>3, SecretRunType DEF SecretPCs, SecretOps, Secret!Ended, Secret!Steps
  <2>2. Secret!TypeOK'
    BY <1>0, <1>1, <2>1, SecretTypes, SecretTypesNext
  <2>3. SecretPurpose'
    BY <1>1, <1>2, <1>3, <2>1 DEF SecretPurpose, Secret!Steps
  <2>4. SecretKept' /\ SecretInsight'
    BY <1>0, <1>1, <2>1 DEF SecretKept, SecretInsight, Secret!Exists
  <2> QED
    BY <2>2, <2>3, <2>4 DEF SecretSound
<1>4. ASSUME want # Absent, ~Secret!Replaces,
             NEW pc \in {"put", "switch", "read"}, run' = Secret!Run(pc, "update", saved.token),
             pc = "put" \/ (remote.kind = "sync" /\ pc = Secret!ThenSwitch(saved.values))
      PROVE  SecretSound'
  <2>1. /\ run' \in SecretRuns /\ run'.pc = pc /\ run'.op = "update"
        /\ run'.token = saved.token
    BY <1>2, <1>4, SecretRunType DEF SecretPCs, SecretOps, Secret!Ended, Secret!Steps
  <2>2. want \in Secret!Values /\ saved.status = "ok"
    BY <1>0, <1>2, <1>4 DEF Secret!TypeOK, Secret!Replaces, SecretKnown
  <2>3. pc # "put" => pc = IF saved.values.on # want.on THEN "switch" ELSE "read"
    BY <1>4 DEF Secret!ThenSwitch
  <2>4. Secret!TypeOK'
    BY <1>0, <1>1, <2>1, SecretTypes, SecretTypesNext
  <2>5. SecretPurpose'
    <3>1. pc = "switch" => remote.kind = "sync" /\ saved.values.on # want.on
      BY <1>4, <2>3
    <3> QED
      BY <1>1, <1>2, <2>1, <2>2, <3>1 DEF SecretPurpose
  <2>6. SecretKept'
    BY <1>0, <1>1, <2>1 DEF SecretKept, Secret!Exists
  <2>7. SecretInsight'
    <3>1. quiet /\ Secret!Exists => saved.values.on = remote.object.values.on
      BY <1>0, <1>1 DEF SecretInsight
    <3> QED
      BY <1>1, <2>1, <3>1 DEF SecretInsight, Secret!Exists
  <2> QED
    BY <2>4, <2>5, <2>6, <2>7 DEF SecretSound
<1>5. Secret!ThenSwitch(saved.values) \in {"switch", "read"}
  BY DEF Secret!ThenSwitch
<1>6. \/ run' = Secret!Run("delete", "delete", 0)
      \/ run' = Secret!Run("done", "none", 0)
      \/ want # Absent /\ ~Secret!Replaces /\ run' = Secret!Run("put", "update", saved.token)
      \/ /\ want # Absent /\ ~Secret!Replaces /\ remote.kind = "sync"
         /\ run' = Secret!Run(Secret!ThenSwitch(saved.values), "update", saved.token)
  BY <1>2 DEF Secret!Plan
<1> QED
  BY <1>3, <1>4, <1>5, <1>6

LEMMA SecretCallSound ==
  ASSUME Secret!SecretAssumption, SecretSound,
         Secret!Create \/ Secret!Update \/ Secret!SwitchDone \/ Secret!Destroy
  PROVE  SecretSound'
<1>0. Secret!TypeOK /\ SecretPurpose /\ SecretKept /\ SecretInsight
  BY DEF SecretSound
<1>1. UNCHANGED <<want, quiet, trouble>> /\ remote.kind \in {"key", "sync"}
  BY <1>0, SecretTypes
  DEF Secret!Create, Secret!Update, Secret!SwitchDone, Secret!Destroy, SecretRemotes
<1>2. CASE Secret!Create
  <2>1. /\ run.pc = "post" /\ run.op = "create"
        /\ saved = Secret!NotSaved /\ want \in Secret!Values
        /\ remote' = Secret!Makes(want) /\ saved' = saved
    BY <1>0, <1>2 DEF Secret!Create, Secret!Post, SecretPurpose, Secret!Steps
  <2>2. /\ remote' \in SecretRemotes /\ remote'.object \in SecretObjects
        /\ remote'.object # NoObject /\ remote'.kind = remote.kind
        /\ remote'.object.token <= remote'.given
        /\ remote.kind = "sync" => ~remote'.object.values.on
        /\ remote'.object.token \in Nat /\ remote'.given \in Nat
    BY <1>0, <2>1, SecretMakes DEF SecretObjects, SecretRemotes
  <2> DEFINE pc == IF remote.kind = "sync" /\ want.on THEN "switch" ELSE "read"
  <2>3. pc \in {"switch", "read"} /\ (pc = "switch" => remote.kind = "sync")
    OBVIOUS
  <2>4. run' = Secret!Run(pc, "create", remote'.object.token)
    BY <1>2 DEF Secret!Create
  <2> HIDE DEF pc
  <2>5. /\ run' \in SecretRuns /\ run'.pc = pc /\ run'.op = "create"
        /\ run'.token = remote'.object.token
    BY <2>2, <2>3, <2>4 DEF Secret!Run, SecretRuns, SecretPCs, SecretOps, Secret!Steps
  <2>6. saved'.token = 0 /\ 0 <= remote'.given
    BY <2>1, <2>2 DEF Secret!NotSaved
  <2>7. Secret!TypeOK'
    BY <1>0, <1>1, <2>1, <2>2, <2>5, <2>6, SecretTypes, SecretTypesNext
  <2>8. SecretPurpose'
    BY <1>1, <2>1, <2>2, <2>3, <2>5 DEF SecretPurpose
  <2>9. SecretKept' /\ SecretInsight'
    BY <2>1, <2>3, <2>5 DEF SecretKept, SecretInsight
  <2> QED
    BY <2>7, <2>8, <2>9 DEF SecretSound
<1>3. CASE Secret!Update
  <2>1. /\ run.pc = "put" /\ run.op = "update" /\ saved.status = "ok" /\ want \in Secret!Values
        /\ Secret!Put /\ saved' = saved /\ Secret!Exists
        /\ Secret!Goes(IF remote.kind = "key" THEN "read" ELSE Secret!ThenSwitch(saved.values))
    BY <1>0, <1>3 DEF Secret!Update, Secret!Put, SecretPurpose, Secret!Steps
  <2>2. /\ SecretMild /\ Secret!Exists'
        /\ remote.kind = "sync" => /\ remote'.object.values.on = remote.object.values.on
                                   /\ remote'.object.token = remote.object.token
    BY <1>0, <2>1, SecretPut
  <2> DEFINE pc == IF remote.kind = "key" THEN "read" ELSE Secret!ThenSwitch(saved.values)
  <2>3. /\ pc \in {"switch", "read"}
        /\ pc = "switch" => remote.kind = "sync" /\ saved.values.on # want.on
    BY <1>1 DEF Secret!ThenSwitch
  <2>4. Secret!Goes(pc)
    BY <2>1
  <2> HIDE DEF pc
  <2>5. /\ run' \in SecretRuns /\ run'.pc = pc /\ run'.op = "update"
        /\ run'.token = run.token
    BY <1>0, <2>1, <2>3, <2>4, SecretGoesType DEF SecretPCs, Secret!Steps
  <2>6. /\ remote' \in SecretRemotes /\ remote'.given \in Nat /\ remote.given \in Nat
        /\ remote.given <= remote'.given /\ remote'.kind = remote.kind
        /\ run.token \in Nat /\ run.token <= remote.given
        /\ saved.token \in Nat /\ saved.token <= remote.given
    BY <1>0, <2>2, SecretTypes
    DEF SecretMild, SecretRemotes, SecretRuns, SecretPurpose, SecretKnown, Secret!NotSaved
  <2>7. Secret!TypeOK'
    BY <1>0, <1>1, <2>1, <2>5, <2>6, SecretTypes, SecretTypesNext
  <2>8. SecretPurpose'
    BY <1>1, <2>1, <2>3, <2>5, <2>6 DEF SecretPurpose
  <2>9. SecretKept'
    BY <1>0, <2>1, <2>2, <2>5, <2>6 DEF SecretKept, SecretMild, Secret!Exists
  <2>10. SecretInsight'
    <3> SUFFICES ASSUME quiet, pc = "read", remote'.object.values.on
        PROVE  \/ run'.token = remote'.object.token
               \/ saved.values.on /\ run'.token = saved.token
      BY <1>1, <2>1, <2>3, <2>5 DEF SecretInsight
    <3>1. CASE remote.kind = "key"
      BY <1>0, <2>1, <2>2, <2>5, <3>1 DEF SecretKept, SecretMild, Secret!Exists
    <3>2. CASE remote.kind = "sync"
      BY <1>0, <2>1, <2>2, <2>5, <3>2 DEF SecretInsight
    <3> QED
      BY <1>1, <3>1, <3>2
  <2> QED
    BY <2>7, <2>8, <2>9, <2>10 DEF SecretSound
<1>4. CASE Secret!SwitchDone
  <2>1. /\ run.pc = "switch" /\ run.op \in {"create", "update"} /\ want \in Secret!Values
        /\ Secret!Switch /\ saved' = saved /\ remote.kind = "sync"
        /\ run' = [run EXCEPT !.pc = "read", !.token = Secret!TokenOf]
        /\ run.op = "create" => saved = Secret!NotSaved
        /\ run.op = "update" => saved.status = "ok"
    BY <1>0, <1>4 DEF Secret!SwitchDone, Secret!Switch, SecretPurpose, Secret!Steps
  <2>2. /\ SecretMild /\ Secret!Exists' /\ remote'.object.values.on = want.on
        /\ remote'.object.token \in Nat
        /\ want.on => remote'.object.token <= remote'.given
    BY <1>0, <2>1, SecretSwitch
  <2>3. /\ remote' \in SecretRemotes /\ remote'.given \in Nat /\ remote.given \in Nat
        /\ remote.given <= remote'.given /\ remote'.kind = remote.kind
        /\ run.token \in Nat /\ run.token <= remote.given
        /\ saved.token \in Nat /\ saved.token <= remote.given
    BY <1>0, <2>2, SecretTypes
    DEF SecretMild, SecretRemotes, SecretRuns, SecretPurpose, SecretKnown, Secret!NotSaved
  <2>4. Secret!TokenOf \in Nat /\ Secret!TokenOf <= remote'.given
        /\ (want.on => Secret!TokenOf = remote'.object.token)
    BY <2>2, <2>3 DEF Secret!TokenOf
  <2>5. /\ run' \in SecretRuns /\ run'.pc = "read" /\ run'.op = run.op
        /\ run'.token = Secret!TokenOf
    BY <1>0, <2>1, <2>4, SecretTypes DEF SecretRuns, SecretPCs, Secret!Steps
  <2>6. Secret!TypeOK'
    BY <1>0, <1>1, <2>1, <2>3, <2>5, SecretTypes, SecretTypesNext
  <2>7. SecretPurpose'
    BY <1>1, <2>1, <2>3, <2>4, <2>5 DEF SecretPurpose
  <2>8. SecretKept' /\ SecretInsight'
    BY <2>1, <2>2, <2>3, <2>4, <2>5 DEF SecretKept, SecretInsight
  <2> QED
    BY <2>6, <2>7, <2>8 DEF SecretSound
<1>5. CASE Secret!Destroy
  <2>1. /\ Secret!Delete /\ saved' = Secret!NotSaved
        /\ run' = IF want = Absent THEN Secret!Run("done", "delete", 0)
                  ELSE Secret!Run("post", "create", 0)
    BY <1>5 DEF Secret!Destroy
  <2>2. remote' \in SecretRemotes /\ ~Secret!Exists'
    BY <1>0, <2>1, SecretDelete DEF SecretMild
  <2> QED
    BY <1>1, <2>1, <2>2, SecretForgets
<1> QED
  BY <1>2, <1>3, <1>4, <1>5

LEMMA SecretEditsSound ==
  ASSUME Secret!SecretAssumption, SecretSound, Secret!EditConfig \/ Secret!Console
  PROVE  SecretSound'
<1>0. Secret!TypeOK /\ SecretPurpose /\ SecretKept
  BY DEF SecretSound
<1>1. UNCHANGED <<saved, run>> /\ quiet' = FALSE /\ trouble' \in 0..MoreTrouble
  BY <1>0, SecretTroubleType DEF Secret!EditConfig, Secret!Console
<1>2. /\ remote.given \in Nat /\ run.token \in Nat /\ run.token <= remote.given
      /\ saved.token \in Nat /\ saved.token <= remote.given
  BY <1>0, SecretTypes
  DEF SecretRemotes, SecretRuns, SecretPurpose, SecretKnown, Secret!NotSaved
<1>3. SecretInsight'
  BY <1>1 DEF SecretInsight
<1>4. CASE Secret!EditConfig
  <2>1. run.pc \in Secret!Ended /\ want' \in Secret!Values \cup {Absent} /\ remote' = remote
    BY <1>4 DEF Secret!EditConfig, Secret!Configurable
  <2>2. Secret!TypeOK'
    BY <1>0, <1>1, <2>1, SecretTypes, SecretTypesNext
  <2>3. SecretPurpose' /\ SecretKept'
    BY <1>0, <1>1, <2>1
    DEF SecretPurpose, SecretKept, Secret!Exists, Secret!Ended, Secret!Steps
  <2> QED
    BY <1>3, <2>2, <2>3 DEF SecretSound
<1>5. CASE Secret!Console
  <2>1. want' = want /\ Secret!Exists
    BY <1>5 DEF Secret!Console
  <2>2. SecretMild
    <3>1. CASE remote' = Secret!Switches(~remote.object.values.on)
      BY <1>0, <2>1, <3>1, SecretSwitches DEF SecretMild
    <3>2. CASE \/ \E settings \in Settings :
                    remote' = [remote EXCEPT !.object.values.settings = settings]
               \/ \E connector \in Connectors :
                    remote' = [remote EXCEPT !.object.values.connector = connector]
      BY <1>0, <1>2, <2>1, <3>2, SecretChanges DEF SecretMild
    <3>3. CASE remote' = [remote EXCEPT !.object = NoObject]
      BY <1>0, <3>3, SecretDelete
    <3> QED
      BY <1>5, <3>1, <3>2, <3>3 DEF Secret!Console
  <2>3. /\ remote' \in SecretRemotes /\ remote'.given \in Nat
        /\ remote.given <= remote'.given /\ remote'.kind = remote.kind
    BY <2>2 DEF SecretMild, SecretRemotes
  <2>0. saved'.token <= remote'.given /\ remote'.given \in Nat
    BY <1>1, <1>2, <2>3
  <2>4. Secret!TypeOK'
    BY <1>0, <1>1, <2>0, <2>1, <2>3, SecretTypes, SecretTypesNext
  <2>5. SecretPurpose'
    BY <1>0, <1>1, <1>2, <2>1, <2>3 DEF SecretPurpose
  <2>6. SecretKept'
    BY <1>0, <1>1, <2>2, <2>3 DEF SecretKept, SecretMild, Secret!Exists
  <2> QED
    BY <1>3, <2>4, <2>5, <2>6 DEF SecretSound
<1> QED
  BY <1>4, <1>5

LEMMA SecretInit ==
  ASSUME Secret!SecretAssumption, Secret!Init
  PROVE  SecretSound
<1>1. /\ run.pc = "idle" /\ run \in SecretRuns /\ run.token = 0
  BY DEF Secret!Init, Secret!Run, SecretRuns, SecretPCs, SecretOps, Secret!Ended
<1>2. remote \in SecretRemotes /\ remote.object = NoObject /\ remote.given = 0
  <2>1. PICK kind \in {"key", "sync"}, unique \in BOOLEAN, orphan \in {FALSE} :
          remote = [kind |-> kind, unique |-> unique, orphan |-> orphan,
                    given |-> 0, object |-> NoObject]
    BY DEF Secret!Init
  <2>2. orphan \in BOOLEAN
    OBVIOUS
  <2> QED
    BY <2>1, <2>2 DEF SecretRemotes
<1>3. Secret!TypeOK
  BY <1>1, <1>2, SecretTypes
  DEF Secret!Init, Secret!Configurable, Secret!NotSaved, Secret!SecretAssumption
<1> QED
  BY <1>1, <1>2, <1>3
  DEF SecretSound, SecretPurpose, SecretKept, SecretInsight, Secret!Exists, Secret!Steps

LEMMA SecretStep ==
  ASSUME Secret!SecretAssumption, SecretSound, [Secret!Next]_(Secret!vars)
  PROVE  SecretSound'
<1>1. CASE Secret!Next
  BY <1>1, SecretFailsSound, SecretBeginsSound, SecretReadSound, SecretPlanSound,
    SecretCallSound, SecretEditsSound
  DEF Secret!Next, Secret!Terraform
<1>2. CASE UNCHANGED Secret!vars
  BY <1>2
  DEF Secret!vars, SecretSound, Secret!TypeOK, SecretPurpose, SecretKept, SecretInsight,
      Secret!Exists
<1> QED
  BY <1>1, <1>2

LEMMA SecretInvariant ==
  ASSUME Secret!SecretAssumption
  PROVE  Secret!Spec => []SecretSound
<1>1. Secret!Init => SecretSound
  BY SecretInit
<1>2. SecretSound /\ [Secret!Next]_(Secret!vars) => SecretSound'
  BY SecretStep
<1> QED
  BY <1>1, <1>2, PTL DEF Secret!Spec

\* A step keeps the kind, and a run that has failed is one of four.
LEMMA SecretKind ==
  ASSUME Secret!SecretAssumption, SecretSound, Secret!Next
  PROVE  remote'.kind = remote.kind
<1>0. Secret!TypeOK /\ SecretPurpose /\ remote \in SecretRemotes
  BY SecretTypes DEF SecretSound
<1>1. /\ run.pc \in {"post", "put", "switch"} => want \in Secret!Values
  BY <1>0 DEF SecretPurpose, Secret!Steps
<1>2. ASSUME run.pc = "post"
      PROVE  Secret!Makes(want).kind = remote.kind /\ Secret!Makes(want) \in SecretRemotes
  BY <1>0, <1>1, <1>2, SecretMakes
<1>3. ASSUME run.pc = "post",
             remote' = Secret!Makes(want) \/ remote' = Secret!Orphaned(Secret!Makes(want))
      PROVE  remote'.kind = remote.kind
  BY <1>2, <1>3, SecretOrphaned
<1>4. ASSUME Secret!Put \/ Secret!Switch \/ Secret!Delete \/ remote' = Secret!Orphaned(remote)
      PROVE  remote'.kind = remote.kind
  BY <1>0, <1>1, <1>4, SecretPut, SecretSwitch, SecretDelete, SecretOrphaned
  DEF Secret!Put, Secret!Switch, SecretMild
<1>5. ASSUME Secret!Console
      PROVE  remote'.kind = remote.kind
  <2>1. Secret!Exists
    BY <1>5 DEF Secret!Console
  <2>2. remote.object.values.on \in BOOLEAN
    BY <1>0, <2>1, SecretObject DEF Secret!Values
  <2>3. CASE remote' = Secret!Switches(~remote.object.values.on)
    BY <1>0, <2>1, <2>3, SecretSwitches
  <2>4. CASE \/ \E settings \in Settings :
                  remote' = [remote EXCEPT !.object.values.settings = settings]
             \/ \E connector \in Connectors :
                  remote' = [remote EXCEPT !.object.values.connector = connector]
    BY <1>0, <2>1, <2>4, SecretChanges
  <2>5. CASE remote' = [remote EXCEPT !.object = NoObject]
    BY <1>0, <2>5, SecretDeleted
  <2> QED
    BY <1>5, <2>3, <2>4, <2>5 DEF Secret!Console
<1>6. \/ UNCHANGED remote \/ Secret!Put \/ Secret!Switch \/ Secret!Delete
      \/ remote' = Secret!Orphaned(remote) \/ Secret!Console
      \/ /\ run.pc = "post"
         /\ remote' = Secret!Makes(want) \/ remote' = Secret!Orphaned(Secret!Makes(want))
  BY DEF Secret!Next, Secret!Terraform, Secret!StartApply, Secret!Refresh,
         Secret!RefreshFindsNothing, Secret!Plan, Secret!Create, Secret!Post,
         Secret!Update, Secret!SwitchDone, Secret!ReadBack, Secret!Destroy,
         Secret!ReadFails, Secret!Refused, Secret!CreatedInactive, Secret!Stops,
         Secret!Killed, Secret!EditConfig
<1> QED
  BY <1>3, <1>4, <1>5, <1>6

\* When a step loses a token.
LEMMA SecretLoss ==
  ASSUME Secret!SecretAssumption, SecretSound, Secret!Next
  PROVE  Secret!KnownLoss
<1>0. Secret!TypeOK /\ SecretPurpose /\ SecretInsight /\ Secret!NotSaved.status = "none"
  BY DEF SecretSound, Secret!NotSaved
<1>1. remote.kind \in {"key", "sync"} /\ remote'.kind = remote.kind
  BY <1>0, SecretKind DEF Secret!TypeOK
<1>2. CASE remote.kind = "key"
  <2>1. SecretKept'
    BY SecretStep DEF SecretSound
  <2>2. ~Secret!Misfit'
    BY <1>0, <1>1, <1>2, <2>1 DEF SecretKept, Secret!Misfit, Secret!Exists
  <2> QED
    BY <2>2 DEF Secret!KnownLoss
<1>3. CASE remote.kind = "sync"
  <2> SUFFICES ASSUME run' # run, ~Secret!Misfit, Secret!Misfit', quiet, run.pc # "refresh",
                      ~(run.op = "update" /\ run'.pc = "failed")
      PROVE  FALSE
    BY <1>3 DEF Secret!KnownLoss
  <2>0. /\ saved'.status = "ok" /\ Secret!Exists' /\ saved'.values.on
        /\ remote'.object.values.on
        /\ saved'.token # remote'.object.token
    BY <1>1, <1>3 DEF Secret!Misfit
  <2>1. saved' # Secret!NotSaved
    BY <1>0, <2>0
  <2>2. CASE Secret!StartApply \/ Secret!Plan
    BY <2>2 DEF Secret!StartApply, Secret!Plan, Secret!Misfit, Secret!Exists
  <2>3. CASE Secret!Create \/ Secret!Destroy
    BY <1>0, <2>1, <2>3
    DEF Secret!Create, Secret!Post, Secret!Destroy, SecretPurpose, Secret!Steps
  <2>4. CASE Secret!Update
    <3>1. /\ Secret!Put /\ saved' = saved /\ want \in Secret!Values /\ Secret!Exists
      BY <1>0, <2>4 DEF Secret!Update, Secret!Put, SecretPurpose, Secret!Steps
    <3>2. /\ remote'.object.values.on = remote.object.values.on
          /\ remote'.object.token = remote.object.token
      BY <1>0, <1>3, <3>1, SecretPut
    <3> QED
      BY <1>3, <2>0, <3>1, <3>2 DEF Secret!Misfit
  <2>5. CASE Secret!SwitchDone
    <3>1. /\ Secret!Switch /\ saved' = saved /\ want \in Secret!Values /\ run.pc = "switch"
      BY <1>0, <2>5 DEF Secret!SwitchDone, Secret!Switch, SecretPurpose, Secret!Steps
    <3>2. remote'.object.values.on = want.on
      BY <1>0, <3>1, SecretSwitch
    <3>3. run.op = "update"
      BY <1>0, <2>1, <3>1 DEF SecretPurpose, Secret!Steps
    <3>4. /\ saved \in SecretKnown /\ saved.values.on # want.on
          /\ saved.values.on \in BOOLEAN /\ want.on \in BOOLEAN
      BY <1>0, <2>1, <3>1, <3>3, SecretTypes DEF SecretPurpose, SecretKnown, Secret!Values
    <3>5. want.on
      BY <2>0, <3>2, Zenon
    <3>6. saved.values.on
      BY <2>0, <3>1
    <3> QED
      BY <3>4, <3>5, <3>6, Zenon
  <2>6. CASE Secret!ReadBack
    <3>1. /\ run.pc = "read" /\ Secret!Exists /\ remote' = remote
          /\ saved' = Secret!Saved("ok", Secret!Shown(want), run.token)
      BY <2>6 DEF Secret!ReadBack, Secret!TokenAfterRead
    <3>2. saved'.token = run.token
      BY <3>1 DEF Secret!Saved
    <3>3. /\ run.op = "update" /\ saved.values.on /\ run.token = saved.token
          /\ remote.object.values.on
      BY <1>0, <2>0, <3>1, <3>2 DEF SecretInsight
    <3>4. saved.status = "ok"
      BY <1>0, <3>1, <3>3 DEF SecretPurpose, Secret!Steps
    <3> QED
      BY <1>3, <2>0, <3>1, <3>2, <3>3, <3>4 DEF Secret!Misfit
  <2>7. CASE Secret!Refresh \/ Secret!RefreshFindsNothing \/ Secret!EditConfig \/ Secret!Console
    BY <2>7
    DEF Secret!Refresh, Secret!RefreshFindsNothing, Secret!EditConfig, Secret!Console
  <2>8. CASE \/ Secret!CreatedInactive \/ Secret!ReadFails \/ Secret!Refused \/ Secret!Stops
             \/ Secret!Killed
    <3>1. /\ run.pc \in Secret!Steps /\ Secret!Goes("failed")
          /\ saved' \in {saved, Secret!AfterError}
      BY <2>8
      DEF Secret!CreatedInactive, Secret!ReadFails, Secret!Refused, Secret!Stops,
          Secret!Killed, Secret!Steps
    <3>2. run.op # "update"
      BY <1>0, <3>1, SecretGoesType DEF SecretPCs, Secret!Ended
    <3>3. run.op # "create"
      BY <1>0, <2>0, <3>1, SecretErrorType DEF SecretPurpose
    <3>4. saved' = saved
      BY <1>0, <3>1, <3>2, <3>3, SecretErrorType
    <3>5. run.pc \notin {"post", "put", "switch", "read"}
      BY <1>0, <3>2, <3>3 DEF SecretPurpose
    <3>6. remote' = remote \/ Secret!Delete
      BY <2>8, <3>3, <3>5
      DEF Secret!CreatedInactive, Secret!ReadFails, Secret!Refused, Secret!Stops,
          Secret!Killed, Secret!Put, Secret!Switch
    <3>7. remote' = remote
      BY <1>0, <2>0, <3>6, SecretDelete
    <3> QED
      BY <3>4, <3>7 DEF Secret!Misfit, Secret!Exists
  <2> QED
    BY <2>2, <2>3, <2>4, <2>5, <2>6, <2>7, <2>8 DEF Secret!Next, Secret!Terraform
<1> QED
  BY <1>1, <1>2, <1>3

\* Type correctness of a secret that is given once.
THEOREM SecretTyping ==
  ASSUME Secret!SecretAssumption
  PROVE  Secret!Spec => []Secret!TypeOK
<1>1. SecretSound => Secret!TypeOK
  BY DEF SecretSound
<1> QED
  BY <1>1, SecretInvariant, PTL

\* A key is never without its token, whatever calls fail, and a connection loses
\* it only in a failed update or where it was switched behind Terraform's back.
THEOREM SecretLosses ==
  ASSUME Secret!SecretAssumption
  PROVE  Secret!Spec => Secret!OnlyKnownLosses
<1>1. SecretSound /\ [Secret!Next]_(Secret!vars) => [Secret!KnownLoss]_(Secret!vars)
  BY SecretLoss
<1> QED
  BY <1>1, SecretInvariant, PTL DEF Secret!Spec, Secret!OnlyKnownLosses

-----------------------------------------------------------------------------
(* What is reached stays reached *)

LEMMA SecretReachedStays ==
  ASSUME Secret!Reached, UNCHANGED <<remote, want, saved>>
  PROVE  Secret!Reached'
BY DEF Secret!Reached, Secret!Exists, Secret!Misfit, Secret!NotSaved

\* A refresh of what is reached keeps the token, and nothing is planned.
LEMMA SecretRests ==
  ASSUME Secret!SecretAssumption, Secret!TypeOK, Secret!AtRest,
         [Secret!Next]_(Secret!vars), trouble' = trouble
  PROVE  Secret!AtRest'
<1>1. ~Secret!Trouble
  BY DEF Secret!Trouble, Secret!TypeOK, Secret!SecretAssumption
<1>2. \A pc, op, token : Secret!Run(pc, op, token).pc = pc
  BY DEF Secret!Run
<1>3. /\ run.pc \in Secret!Ended \cup {"refresh", "plan"}
      /\ run.pc \in {"refresh", "plan"} => want # Absent
      /\ run.pc = "refresh" => run = Secret!Run("refresh", "none", 0)
  BY <1>2 DEF Secret!AtRest, Secret!Ended
<1>4. want # Absent =>
        /\ Secret!Exists /\ remote.object.values = want
        /\ saved = Secret!Saved("ok", want, saved.token)
        /\ saved.values = want /\ saved.status = "ok" /\ saved # Secret!NotSaved
  BY DEF Secret!AtRest, Secret!Reached, Secret!Saved, Secret!NotSaved
<1>5. ASSUME NEW pc \in {"refresh", "plan"}, want # Absent, run' = Secret!Run(pc, "none", 0),
             UNCHANGED <<remote, want, saved>>
      PROVE  Secret!AtRest'
  BY <1>5, SecretReachedStays DEF Secret!AtRest, Secret!Run
<1>6. ASSUME run'.pc \in Secret!Ended, UNCHANGED <<remote, want, saved>>
      PROVE  Secret!AtRest'
  BY <1>6, SecretReachedStays DEF Secret!AtRest
<1>7. CASE Secret!StartApply
  <2>1. UNCHANGED <<remote, want, saved>>
    BY <1>7 DEF Secret!StartApply
  <2>2. CASE want # Absent
    <3>1. run' = Secret!Run("refresh", "none", 0)
      BY <1>4, <1>7, <2>2 DEF Secret!StartApply
    <3> QED
      BY <1>5, <2>1, <2>2, <3>1
  <2>3. CASE want = Absent
    <3>1. saved = Secret!NotSaved
      BY <2>3 DEF Secret!AtRest, Secret!Reached
    <3>2. run' = Secret!Run("done", "none", 0)
      BY <1>7, <2>3, <3>1 DEF Secret!StartApply
    <3> QED
      BY <1>2, <1>6, <2>1, <3>2 DEF Secret!Ended
  <2> QED
    BY <2>2, <2>3
<1>8. CASE Secret!Refresh
  <2>1. /\ want # Absent /\ run = Secret!Run("refresh", "none", 0)
        /\ UNCHANGED <<remote, want>>
    BY <1>3, <1>8 DEF Secret!Refresh
  <2>0. Secret!Shown(want) = want
    <3>1. want \in Secret!Values
      BY <2>1 DEF Secret!TypeOK
    <3> QED
      BY <1>4, <2>1, <3>1 DEF Secret!Shown, Secret!Values
  <2>2. saved' = Secret!Saved("ok", want, saved.token)
    BY <1>4, <1>8, <2>0, <2>1 DEF Secret!Refresh, Secret!TokenAfterRead
  <2>3. saved' = saved
    BY <1>4, <2>1, <2>2
  <2>4. run' = [run EXCEPT !.pc = "plan"]
    BY <1>8 DEF Secret!Refresh, Secret!Goes
  <2>5. run' = Secret!Run("plan", "none", 0)
    BY <2>1, <2>4 DEF Secret!Run
  <2> QED
    BY <1>5, <2>1, <2>3, <2>5
<1>9. CASE Secret!RefreshFindsNothing
  BY <1>3, <1>4, <1>9 DEF Secret!RefreshFindsNothing
<1>10. CASE Secret!Plan
  <2>1. want # Absent /\ UNCHANGED <<remote, want, saved>>
    BY <1>3, <1>10 DEF Secret!Plan
  <2>2. ~Secret!Replaces
    BY <1>4, <2>1 DEF Secret!Replaces
  <2>3. run' = Secret!Run("done", "none", 0)
    BY <1>4, <1>10, <2>1, <2>2 DEF Secret!Plan
  <2> QED
    BY <1>2, <1>6, <2>1, <2>3 DEF Secret!Ended
<1>11. CASE UNCHANGED Secret!vars
  BY <1>11, SecretReachedStays DEF Secret!vars, Secret!AtRest, Secret!Run
<1>12. ASSUME Secret!Next
       PROVE  \/ Secret!StartApply \/ Secret!Refresh \/ Secret!RefreshFindsNothing
              \/ Secret!Plan
  <2>1. run.pc \notin {"post", "put", "switch", "read", "delete"}
    BY <1>3 DEF Secret!Ended
  <2> QED
    BY <1>1, <1>12, <2>1
    DEF Secret!Next, Secret!Terraform, Secret!Create, Secret!Post, Secret!Update,
        Secret!Put, Secret!SwitchDone, Secret!Switch, Secret!ReadBack, Secret!Destroy,
        Secret!Delete, Secret!ReadFails, Secret!Refused, Secret!CreatedInactive,
        Secret!Stops, Secret!Killed, Secret!EditConfig, Secret!Console
<1> QED
  BY <1>7, <1>8, <1>9, <1>10, <1>11, <1>12

-----------------------------------------------------------------------------
(* The resources on one cluster *)

IdentityApplies == {"apply", "token", "account", "principal"}

\* During an apply a resource is in the state, or still to be made.
IdentityFine(r) ==
  /\ r \in run.removes => saved[r] # NoId
  /\ r \in run.removes /\ r \in want.resources => r \in run.makes
  /\ r \in run.makes => r \in want.resources
  /\ r \in run.makes /\ r \notin run.removes =>
       saved[r] = NoId \/ (run.pc = "account" /\ r = "id")
  /\ r \notin want.resources /\ r \notin run.removes => saved[r] = NoId
  /\ r \in want.resources /\ r \notin run.makes => saved[r] # NoId

\* What a run is for.
IdentityShape ==
  /\ want.resources \in Identity!Configured
  /\ saved.id = NoId => ~saved.tainted
  /\ run.pc = "refresh" =>
       /\ run.removes = {} /\ run.makes = {}
       /\ \A r \in Identity!Resources : saved[r] = NoId => run.seen[r] = NoId
       /\ \A r \in run.asks : run.seen[r] = saved[r]
       /\ run.seen.id = NoId => ~run.seen.tainted
  /\ run.pc \in IdentityApplies =>
       /\ \A r \in Identity!Resources : IdentityFine(r)
       /\ run.pc # "apply" => run.removes = {}
  /\ run.pc \in {"token", "account"} => remote.kind = "gke" /\ "id" \in run.makes
  /\ run.pc = "account" =>
       saved.id # NoId /\ saved.account = want.account /\ ~saved.tainted
  /\ run.pc = "principal" =>
       remote.kind = "eks" /\ "arn" \in run.makes /\ "id" \notin run.makes

\* A cluster is there, or a principal.
IdentitySure(r, id) == IF r = "arn" THEN id \in remote.principals ELSE Identity!Live(id)

\* A resource that is in the state and not to be touched is as it should be.
IdentityRight(r) ==
  /\ Identity!Live(saved[r])
  /\ r = "arn" => saved.arn \in remote.principals
  /\ r = "id" => ~saved.tainted
  /\ r = "id" /\ remote.kind = "gke" /\ want.account # NoAccount =>
       saved.account # want.account \/ remote.account = want.account

IdentityInsight == quiet =>
  /\ run.pc = "refresh" =>
       /\ \A r \in Identity!Resources : r \notin run.asks =>
            /\ run.seen[r] # NoId => IdentitySure(r, run.seen[r])
            /\ run.seen[r] = NoId => saved[r] = NoId \/ ~IdentitySure(r, saved[r])
       /\ "id" \notin run.asks /\ run.seen.id # NoId => run.seen.account = remote.account
  /\ run.pc \in IdentityApplies /\ ~run.moved =>
       \A r \in want.resources : r \notin run.removes /\ r \notin run.makes => IdentityRight(r)
  /\ run.pc = "account" => Identity!Live(saved.id)

IdentitySound == Identity!TypeOK /\ IdentityShape /\ IdentityInsight /\ Identity!SuccessIsReal

-----------------------------------------------------------------------------
IdentityKinds == {"id", "arn", "cluster"}
IdentityRemotes ==
  [kind: {"eks", "gke"}, strict: BOOLEAN, live: ClusterIds \cup {NoId},
   account: Accounts \cup {NoAccount}, principals: SUBSET ClusterIds]
IdentityWants == [resources: SUBSET Identity!Resources, account: Accounts \cup {NoAccount}]
IdentityPCs == Identity!Ended \cup Identity!Steps
IdentityRuns ==
  [pc: IdentityPCs, asks: SUBSET Identity!Resources, seen: Identity!State,
      removes: SUBSET Identity!Resources,
   makes: SUBSET (Identity!Resources \cup {"account"}), moved: BOOLEAN]

LEMMA IdentityTypes ==
  Identity!TypeOK <=>
    /\ remote \in IdentityRemotes /\ want \in IdentityWants
    /\ saved \in Identity!State /\ run \in IdentityRuns
    /\ quiet \in BOOLEAN /\ trouble \in 0..MoreTrouble
BY DEF Identity!TypeOK, IdentityRemotes, IdentityWants, IdentityRuns, IdentityPCs

LEMMA IdentityTypesNext ==
  ASSUME remote' \in IdentityRemotes, want' \in IdentityWants',
         saved' \in Identity!State, run' \in IdentityRuns',
         quiet' \in BOOLEAN, trouble' \in 0..MoreTrouble
  PROVE  Identity!TypeOK'
BY DEF Identity!TypeOK, IdentityRemotes, IdentityWants, IdentityRuns, IdentityPCs

LEMMA IdentityResources ==
  /\ Identity!Resources \subseteq IdentityKinds
  /\ {"id", "cluster"} \subseteq Identity!Resources
  /\ "arn" \in Identity!Resources <=> remote.kind = "eks"
BY DEF Identity!Resources, IdentityKinds

LEMMA IdentityStateType ==
  /\ Identity!NotSaved \in Identity!State
  /\ \A s \in Identity!State : \A r \in IdentityKinds : s[r] \in ClusterIds \cup {NoId}
  /\ \A s \in Identity!State : s["id"] = s.id /\ s["arn"] = s.arn /\ s["cluster"] = s.cluster
BY DEF Identity!NotSaved, Identity!State, IdentityKinds

LEMMA IdentityTrouble ==
  ASSUME Identity!IdentityAssumption, Identity!TypeOK, Identity!Trouble
  PROVE  trouble' \in 0..MoreTrouble
BY DEF Identity!IdentityAssumption, Identity!TypeOK, Identity!Trouble

-----------------------------------------------------------------------------
(* What the calls do at CAST AI *)

LEMMA IdentityRegistered ==
  ASSUME Identity!IdentityAssumption, Identity!TypeOK, Identity!CanRegister
  PROVE  /\ Identity!Registered \in IdentityRemotes /\ Identity!Registered.kind = remote.kind
         /\ Identity!Registered.live \in ClusterIds
         /\ Identity!Registered.principals = remote.principals
         /\ remote.live # NoId => Identity!Registered = remote
<1>1. remote \in IdentityRemotes
  BY IdentityTypes
<1>2. CASE remote.live # NoId
  BY <1>1, <1>2 DEF Identity!Registered, IdentityRemotes
<1>3. CASE remote.live = NoId
  <2> DEFINE id == CHOOSE i \in Identity!Fresh : TRUE
  <2>1. id \in ClusterIds
    BY <1>3 DEF Identity!CanRegister, Identity!Fresh
  <2>2. Identity!Registered = [remote EXCEPT !.live = id, !.account = NoAccount]
    BY <1>3 DEF Identity!Registered
  <2> HIDE DEF id
  <2> QED
    BY <1>1, <1>3, <2>1, <2>2 DEF IdentityRemotes
<1> QED
  BY <1>2, <1>3

LEMMA IdentityArchived ==
  ASSUME Identity!TypeOK, NEW id
  PROVE  Identity!Archived(id) \in IdentityRemotes /\ Identity!Archived(id).kind = remote.kind
BY IdentityTypes DEF Identity!Archived, IdentityRemotes

LEMMA IdentityPrincipals ==
  ASSUME Identity!TypeOK, NEW set \in SUBSET ClusterIds
  PROVE  LET after == [remote EXCEPT !.principals = set]
         IN  /\ after \in IdentityRemotes /\ after.kind = remote.kind
             /\ after.live = remote.live /\ after.account = remote.account
             /\ after.principals = set
BY IdentityTypes DEF IdentityRemotes

\* The principal is made for an ID there is.
LEMMA IdentityPrincipalsId ==
  ASSUME Identity!TypeOK, IdentityShape, run.pc = "principal"
  PROVE  saved.id \in ClusterIds
<1>1. saved \in Identity!State /\ run \in IdentityRuns /\ want \in IdentityWants
  BY IdentityTypes
<1>2. "arn" \in run.makes /\ "id" \notin run.makes /\ "arn" \in Identity!Resources
  BY IdentityResources DEF IdentityShape
<1>3. "arn" \in want.resources
  BY <1>2 DEF IdentityShape, IdentityApplies, IdentityFine
<1>4. "id" \in want.resources /\ "id" \in Identity!Resources
  BY <1>3, IdentityResources DEF IdentityShape, Identity!Configured
<1>5. saved["id"] # NoId
  BY <1>2, <1>4 DEF IdentityShape, IdentityApplies, IdentityFine
<1> QED
  BY <1>1, <1>5, IdentityStateType DEF IdentityKinds

LEMMA IdentityCarriedOut ==
  ASSUME Identity!IdentityAssumption, Identity!TypeOK, IdentityShape,
         NEW after \in Identity!CarriedOut
  PROVE  after \in IdentityRemotes /\ after.kind = remote.kind
<1>1. remote \in IdentityRemotes /\ want \in IdentityWants
  BY IdentityTypes
<1>2. CASE \E r : after = Identity!Archived(saved[r])
  BY <1>2, IdentityArchived
<1>3. CASE after = Identity!Registered /\ Identity!CanRegister
  BY <1>3, IdentityRegistered
<1>4. CASE after = [remote EXCEPT !.principals = @ \ {saved.arn}]
  BY <1>1, <1>4 DEF IdentityRemotes
<1>5. CASE /\ run.pc = "principal"
           /\ after = [remote EXCEPT !.principals = @ \cup {saved.id}]
  <2>1. saved.id \in ClusterIds
    BY <1>5, IdentityPrincipalsId
  <2> QED
    BY <1>1, <1>5, <2>1 DEF IdentityRemotes
<1>6. CASE after = [remote EXCEPT !.account = want.account]
  BY <1>1, <1>6 DEF IdentityRemotes, IdentityWants
<1> QED
  BY <1>1, <1>2, <1>3, <1>4, <1>5, <1>6 DEF Identity!CarriedOut

-----------------------------------------------------------------------------
(* The steps *)

LEMMA IdentityKept ==
  ASSUME remote'.kind = remote.kind
  PROVE  /\ Identity!Resources' = Identity!Resources
         /\ Identity!Configured' = Identity!Configured
         /\ IdentityWants' = IdentityWants /\ IdentityRuns' = IdentityRuns
BY DEF Identity!Resources, Identity!Configured, IdentityWants, IdentityRuns

LEMMA IdentityEnds ==
  ASSUME Identity!TypeOK, remote' \in IdentityRemotes, remote'.kind = remote.kind,
         want' = want, want.resources \in Identity!Configured,
         saved' \in Identity!State, saved'.id = NoId => ~saved'.tainted,
         run' = Identity!Run("failed", {}, Identity!NotSaved),
         quiet' \in BOOLEAN, trouble' \in 0..MoreTrouble
  PROVE  IdentitySound'
<1>1. /\ Identity!Resources' = Identity!Resources /\ Identity!Configured' = Identity!Configured
      /\ IdentityWants' = IdentityWants /\ IdentityRuns' = IdentityRuns
  BY IdentityKept
<1>2. run' \in IdentityRuns /\ run'.pc = "failed"
  <2>1. /\ "failed" \in IdentityPCs /\ {} \in SUBSET Identity!Resources
        /\ Identity!NotSaved \in Identity!State
    BY IdentityStateType DEF IdentityPCs, Identity!Ended
  <2>2. /\ Identity!Run("failed", {}, Identity!NotSaved) \in IdentityRuns
        /\ Identity!Run("failed", {}, Identity!NotSaved).pc = "failed"
    BY <2>1 DEF Identity!Run, IdentityRuns
  <2> QED
    BY <2>2
<1>3. Identity!TypeOK'
  <2>1. want' \in IdentityWants'
    BY <1>1, IdentityTypes
  <2> QED
    BY <1>1, <1>2, <2>1, IdentityTypesNext
<1>4. IdentityShape'
  BY <1>1, <1>2 DEF IdentityShape, IdentityApplies
<1> QED
  BY <1>2, <1>3, <1>4
  DEF IdentitySound, IdentityInsight, IdentityApplies, Identity!SuccessIsReal

LEMMA IdentityFailsSound ==
  ASSUME Identity!IdentityAssumption, IdentitySound,
         Identity!ReadFails \/ Identity!Refused \/ Identity!Stops \/ Identity!Killed
  PROVE  IdentitySound'
<1>0. Identity!TypeOK /\ IdentityShape
  BY DEF IdentitySound
<1>1. /\ remote \in IdentityRemotes /\ saved \in Identity!State /\ quiet \in BOOLEAN
      /\ want.resources \in Identity!Configured /\ trouble \in 0..MoreTrouble
  BY <1>0, IdentityTypes DEF IdentityShape
<1>2. /\ run' = Identity!Run("failed", {}, Identity!NotSaved) /\ want' = want /\ quiet' = quiet
  BY DEF Identity!ReadFails, Identity!Refused, Identity!Stops, Identity!Killed,
         Identity!Fails
<1>3. trouble' \in 0..MoreTrouble
  BY <1>0, <1>1, IdentityTrouble
  DEF Identity!ReadFails, Identity!Refused, Identity!Stops, Identity!Killed
<1>4. remote' \in IdentityRemotes /\ remote'.kind = remote.kind
  BY <1>0, <1>1, IdentityCarriedOut
  DEF Identity!ReadFails, Identity!Refused, Identity!Stops, Identity!Killed
<1>5. saved' \in Identity!State /\ (saved'.id = NoId => ~saved'.tainted)
  <2>1. \/ saved' = saved \/ saved' = Identity!AfterError
        \/ run.pc = "account" /\ saved' = [saved EXCEPT !.id = NoId, !.account = NoAccount]
    BY DEF Identity!ReadFails, Identity!Refused, Identity!Stops, Identity!Killed,
           Identity!Fails
  <2>2. CASE saved' = saved
    BY <1>0, <1>1, <2>2 DEF IdentityShape
  <2>3. CASE saved' = Identity!AfterError
    <3>1. saved.tainted \in BOOLEAN
      BY <1>1 DEF Identity!State
    <3>2. /\ Identity!AfterError \in Identity!State /\ Identity!AfterError.id = saved.id
          /\ Identity!AfterError.tainted = (saved.tainted \/ run.pc = "account")
      BY <1>1 DEF Identity!AfterError, Identity!State
    <3> QED
      BY <1>0, <2>3, <3>2 DEF IdentityShape
  <2>4. CASE run.pc = "account" /\ saved' = [saved EXCEPT !.id = NoId, !.account = NoAccount]
    <3>1. saved' \in Identity!State /\ saved'.tainted = saved.tainted
      BY <1>1, <2>4 DEF Identity!State
    <3> QED
      BY <1>0, <2>4, <3>1 DEF IdentityShape
  <2> QED
    BY <2>1, <2>2, <2>3, <2>4
<1> QED
  BY <1>0, <1>1, <1>2, <1>3, <1>4, <1>5, IdentityEnds

LEMMA IdentityStartSound ==
  ASSUME Identity!IdentityAssumption, IdentitySound, Identity!StartApply
  PROVE  IdentitySound'
<1>0. Identity!TypeOK /\ IdentityShape
  BY DEF IdentitySound
<1>1. /\ run' = Identity!Run("refresh", {r \in Identity!Resources : saved[r] # NoId}, saved)
      /\ quiet' = TRUE /\ UNCHANGED <<remote, want, saved, trouble>>
  BY DEF Identity!StartApply
<1>2. /\ remote \in IdentityRemotes /\ saved \in Identity!State /\ want \in IdentityWants
      /\ trouble \in 0..MoreTrouble
  BY <1>0, IdentityTypes
<1>3. /\ Identity!Resources' = Identity!Resources /\ Identity!Configured' = Identity!Configured
      /\ IdentityWants' = IdentityWants /\ IdentityRuns' = IdentityRuns
  BY <1>1, IdentityKept
<1>4. /\ run' \in IdentityRuns /\ run'.pc = "refresh" /\ run'.seen = saved
      /\ run'.asks = {r \in Identity!Resources : saved[r] # NoId}
      /\ run'.removes = {} /\ run'.makes = {}
  <2> DEFINE asks == {r \in Identity!Resources : saved[r] # NoId}
  <2>1. "refresh" \in IdentityPCs /\ asks \in SUBSET Identity!Resources
    BY DEF IdentityPCs, Identity!Steps
  <2> HIDE DEF asks
  <2>2. /\ Identity!Run("refresh", asks, saved) \in IdentityRuns
        /\ Identity!Run("refresh", asks, saved).pc = "refresh"
        /\ Identity!Run("refresh", asks, saved).seen = saved
        /\ Identity!Run("refresh", asks, saved).asks = asks
        /\ Identity!Run("refresh", asks, saved).removes = {}
        /\ Identity!Run("refresh", asks, saved).makes = {}
    BY <1>2, <2>1 DEF Identity!Run, IdentityRuns
  <2> QED
    BY <1>1, <2>2 DEF asks
<1>5. Identity!TypeOK'
  BY <1>1, <1>2, <1>3, <1>4, IdentityTypesNext
<1>6. IdentityShape'
  <2>1. /\ want'.resources \in Identity!Configured'
        /\ run'.seen.id = NoId => ~run'.seen.tainted
        /\ saved'.id = NoId => ~saved'.tainted
    <3>1. want.resources \in Identity!Configured /\ (saved.id = NoId => ~saved.tainted)
      BY <1>0 DEF IdentityShape
    <3> QED
      BY <1>1, <1>3, <1>4, <3>1
  <2>2. /\ run'.pc \notin IdentityApplies
        /\ \A r \in Identity!Resources' : saved'[r] = NoId => run'.seen[r] = NoId
        /\ \A r \in run'.asks : run'.seen[r] = saved'[r]
    BY <1>1, <1>4 DEF IdentityApplies
  <2> QED
    BY <1>4, <2>1, <2>2 DEF IdentityShape, IdentityApplies
<1>7. IdentityInsight'
  <2>1. \A r \in Identity!Resources : r \notin run'.asks => saved[r] = NoId
    BY <1>4
  <2>2. "id" \notin run'.asks => saved.id = NoId
    BY <1>2, <2>1, IdentityResources, IdentityStateType
  <2> QED
    BY <1>1, <1>3, <1>4, <2>1, <2>2 DEF IdentityInsight, IdentityApplies
<1> QED
  BY <1>4, <1>5, <1>6, <1>7 DEF IdentitySound, Identity!SuccessIsReal

\* A Read of one resource.
LEMMA IdentitySees ==
  ASSUME IdentitySound, NEW r \in Identity!Resources, NEW seen \in Identity!State,
         Identity!Read(r), Identity!Sees(r, seen),
         \A q \in Identity!Resources : q # r => seen[q] = run.seen[q],
         seen[r] \in {saved[r], NoId},
         seen.id = NoId => ~seen.tainted,
         r # "id" => seen.account = run.seen.account,
         quiet => /\ seen[r] # NoId => IdentitySure(r, seen[r])
                  /\ seen[r] = NoId => saved[r] = NoId \/ ~IdentitySure(r, saved[r])
                  /\ r = "id" /\ seen.id # NoId => seen.account = remote.account
  PROVE  IdentitySound'
<1>0. Identity!TypeOK /\ IdentityShape /\ IdentityInsight
  BY DEF IdentitySound
<1>1. /\ run.pc = "refresh" /\ r \in run.asks
      /\ run' = [run EXCEPT !.asks = @ \ {r}, !.seen = seen]
      /\ UNCHANGED <<remote, want, saved, quiet, trouble>>
  BY DEF Identity!Read, Identity!Sees
<1>2. /\ Identity!Resources' = Identity!Resources /\ Identity!Configured' = Identity!Configured
      /\ IdentityWants' = IdentityWants /\ IdentityRuns' = IdentityRuns
  BY <1>1, IdentityKept
<1>3. /\ run \in IdentityRuns /\ run.seen \in Identity!State /\ saved \in Identity!State
  BY <1>0, IdentityTypes DEF IdentityRuns
<1>4. /\ run' \in IdentityRuns /\ run'.pc = "refresh" /\ run'.seen = seen
      /\ run'.asks = run.asks \ {r}
      /\ run'.removes = run.removes /\ run'.makes = run.makes
  BY <1>1, <1>3 DEF IdentityRuns
<1>5. Identity!TypeOK'
  BY <1>0, <1>1, <1>2, <1>4, IdentityTypes, IdentityTypesNext
<1>6. IdentityShape'
  <2>1. \A q \in Identity!Resources : saved[q] = NoId => seen[q] = NoId
    BY <1>0, <1>1 DEF IdentityShape
  <2>2. \A q \in run.asks \ {r} : seen[q] = saved[q]
    BY <1>0, <1>1, <1>3 DEF IdentityShape, IdentityRuns
  <2> QED
    BY <1>0, <1>1, <1>2, <1>4, <2>1, <2>2 DEF IdentityShape, IdentityApplies
<1>7. IdentityInsight'
  <2>1. /\ seen.id = seen["id"] /\ run.seen.id = run.seen["id"] /\ "id" \in Identity!Resources
    BY <1>3, IdentityStateType, IdentityResources
  <2>2. \A q, i : IdentitySure(q, i)' = IdentitySure(q, i)
    BY <1>1 DEF IdentitySure, Identity!Live
  <2> SUFFICES ASSUME quiet
      PROVE  /\ \A q \in Identity!Resources : q \notin run'.asks =>
                  /\ seen[q] # NoId => IdentitySure(q, seen[q])
                  /\ seen[q] = NoId => saved[q] = NoId \/ ~IdentitySure(q, saved[q])
             /\ "id" \notin run'.asks /\ seen.id # NoId => seen.account = remote.account
    BY <1>1, <1>2, <1>4, <2>2
    DEF IdentityInsight, IdentityApplies, IdentitySure, Identity!Live
  <2>3. /\ \A q \in Identity!Resources : q \notin run.asks =>
             /\ run.seen[q] # NoId => IdentitySure(q, run.seen[q])
             /\ run.seen[q] = NoId => saved[q] = NoId \/ ~IdentitySure(q, saved[q])
        /\ "id" \notin run.asks /\ run.seen.id # NoId => run.seen.account = remote.account
    BY <1>0, <1>1 DEF IdentityInsight
  <2> QED
    BY <1>4, <2>1, <2>3
<1> QED
  BY <1>4, <1>5, <1>6, <1>7 DEF IdentitySound, Identity!SuccessIsReal

LEMMA IdentityReadSound ==
  ASSUME Identity!IdentityAssumption, IdentitySound,
         Identity!ReadId \/ Identity!ReadCluster \/ Identity!ReadArn
  PROVE  IdentitySound'
<1>0. Identity!TypeOK /\ IdentityShape
  BY DEF IdentitySound
<1>1. /\ run.seen \in Identity!State /\ saved \in Identity!State /\ remote \in IdentityRemotes
      /\ run.asks \subseteq Identity!Resources /\ NoId \notin ClusterIds
  BY <1>0, IdentityTypes DEF IdentityRuns, Identity!IdentityAssumption
<1>2. \A r \in run.asks : run.pc = "refresh" => run.seen[r] = saved[r]
  BY <1>0 DEF IdentityShape
<1>3. run.pc = "refresh" /\ run.seen.id = NoId => ~run.seen.tainted
  BY <1>0 DEF IdentityShape
<1>4. CASE Identity!ReadId
  <2> DEFINE gone == [Identity!Gone("id") EXCEPT !.tainted = FALSE]
             here == [run.seen EXCEPT !.account = remote.account]
             seen == IF ~Identity!Live(saved.id) THEN gone ELSE here
  <2>1. Identity!Read("id") /\ Identity!Sees("id", seen)
    BY <1>4 DEF Identity!ReadId
  <2>2. run.pc = "refresh" /\ "id" \in run.asks /\ "id" \in Identity!Resources
    BY <1>1, <2>1 DEF Identity!Read
  <2>3. /\ gone \in Identity!State /\ gone.id = NoId /\ gone["id"] = NoId
        /\ gone.tainted = FALSE
        /\ \A q \in IdentityKinds : q # "id" => gone[q] = run.seen[q]
    BY <1>1 DEF Identity!Gone, Identity!State, IdentityKinds
  <2>4. /\ here \in Identity!State /\ here.id = run.seen.id /\ here["id"] = run.seen["id"]
        /\ here.tainted = run.seen.tainted /\ here.account = remote.account
        /\ \A q \in IdentityKinds : here[q] = run.seen[q]
    BY <1>1 DEF Identity!State, IdentityKinds, IdentityRemotes
  <2> HIDE DEF gone, here
  <2>5. run.seen["id"] = saved["id"] /\ saved["id"] = saved.id /\ run.seen["id"] = run.seen.id
    BY <1>1, <1>2, <2>2, IdentityStateType
  <2>6. /\ seen \in Identity!State
        /\ \A q \in Identity!Resources : q # "id" => seen[q] = run.seen[q]
        /\ seen["id"] \in {saved["id"], NoId}
        /\ seen.id = NoId => ~seen.tainted
        /\ seen["id"] # NoId => IdentitySure("id", seen["id"])
        /\ seen["id"] = NoId => saved["id"] = NoId \/ ~IdentitySure("id", saved["id"])
        /\ seen.id # NoId => seen.account = remote.account
    <3>1. CASE Identity!Live(saved.id)
      BY <1>3, <2>2, <2>4, <2>5, <3>1, IdentityResources DEF IdentitySure, Identity!Live
    <3>2. CASE ~Identity!Live(saved.id)
      BY <2>3, <2>5, <3>2, IdentityResources DEF IdentitySure
    <3> QED
      BY <3>1, <3>2
  <2> HIDE DEF seen
  <2> QED
    BY <2>1, <2>2, <2>6, IdentitySees
<1>5. CASE Identity!ReadCluster \/ Identity!ReadArn
  <2> DEFINE Seen(r) == IF IdentitySure(r, saved[r]) THEN run.seen ELSE Identity!Gone(r)
  <2>1. PICK r \in {"cluster", "arn"} : Identity!Read(r) /\ Identity!Sees(r, Seen(r))
    BY <1>1, <1>5, IdentityStateType
    DEF Identity!ReadCluster, Identity!ReadArn, IdentitySure
  <2>2. run.pc = "refresh" /\ r \in run.asks /\ r \in Identity!Resources
    BY <1>1, <2>1 DEF Identity!Read
  <2>3. /\ Identity!Gone(r) \in Identity!State /\ Identity!Gone(r)[r] = NoId
        /\ Identity!Gone(r).id = run.seen.id /\ Identity!Gone(r).tainted = run.seen.tainted
        /\ Identity!Gone(r).account = run.seen.account
        /\ \A q \in IdentityKinds : q # r => Identity!Gone(r)[q] = run.seen[q]
    BY <1>1 DEF Identity!Gone, Identity!State, IdentityKinds
  <2>4. run.seen[r] = saved[r]
    BY <1>2, <2>2
  <2>5. /\ Seen(r) \in Identity!State
        /\ \A q \in Identity!Resources : q # r => Seen(r)[q] = run.seen[q]
        /\ Seen(r)[r] \in {saved[r], NoId}
        /\ Seen(r).id = NoId => ~Seen(r).tainted
        /\ Seen(r).account = run.seen.account
        /\ Seen(r)[r] # NoId => IdentitySure(r, Seen(r)[r])
        /\ Seen(r)[r] = NoId => saved[r] = NoId \/ ~IdentitySure(r, saved[r])
    <3>1. CASE IdentitySure(r, saved[r])
      BY <1>1, <1>3, <2>2, <2>4, <3>1
    <3>2. CASE ~IdentitySure(r, saved[r])
      BY <1>3, <2>2, <2>3, <3>2, IdentityResources
    <3> QED
      BY <3>1, <3>2
  <2> HIDE DEF Seen
  <2> QED
    BY <2>1, <2>2, <2>5, IdentitySees
<1> QED
  BY <1>4, <1>5

\* A step of an apply that is about one resource.
LEMMA IdentityApplySound ==
  ASSUME IdentitySound, NEW r \in Identity!Resources,
         run.pc \in IdentityApplies, run.pc = "account" => r = "id",
         remote' \in IdentityRemotes, remote'.kind = remote.kind,
         saved' \in Identity!State, run' \in IdentityRuns, run'.pc \in IdentityApplies,
         want' = want, quiet' = quiet, trouble' = trouble,
         \A q \in Identity!Resources : q # r =>
           /\ saved'[q] = saved[q]
           /\ q \in run'.removes <=> q \in run.removes
           /\ q \in run'.makes <=> q \in run.makes,
         IdentityFine(r)',
         saved'.id = NoId => ~saved'.tainted,
         run'.pc # "apply" => run'.removes = {},
         run'.pc \in {"token", "account"} => remote.kind = "gke" /\ "id" \in run'.makes,
         run'.pc = "account" =>
           /\ saved'.id # NoId /\ saved'.account = want.account /\ ~saved'.tainted
           /\ quiet => Identity!Live(saved.id)',
         run'.pc = "principal" =>
           remote.kind = "eks" /\ "arn" \in run'.makes /\ "id" \notin run'.makes,
         quiet /\ ~run'.moved =>
           /\ ~run.moved
           /\ \A q \in want.resources : IdentityRight(q) /\ q # r => IdentityRight(q)'
           /\ r \in want.resources /\ r \notin run'.removes /\ r \notin run'.makes =>
                IdentityRight(r)'
  PROVE  IdentitySound'
<1>0. Identity!TypeOK /\ IdentityShape /\ IdentityInsight
  BY DEF IdentitySound
<1>1. /\ Identity!Resources' = Identity!Resources /\ Identity!Configured' = Identity!Configured
      /\ IdentityWants' = IdentityWants /\ IdentityRuns' = IdentityRuns
  BY IdentityKept
<1>2. want \in IdentityWants /\ quiet \in BOOLEAN /\ trouble \in 0..MoreTrouble
  BY <1>0, IdentityTypes
<1>3. Identity!TypeOK'
  <2>1. want' \in IdentityWants' /\ run' \in IdentityRuns'
    BY <1>1, <1>2
  <2> QED
    BY <1>2, <2>1, IdentityTypesNext
<1>4. run'.pc # "refresh" /\ run'.pc # "done"
  BY DEF IdentityApplies
<1>5. IdentityShape'
  <2>1. \A q \in Identity!Resources : IdentityFine(q)'
    <3> SUFFICES ASSUME NEW q \in Identity!Resources, q # r
                 PROVE  IdentityFine(q)'
      OBVIOUS
    <3>1. IdentityFine(q)
      BY <1>0 DEF IdentityShape
    <3>2. /\ saved'[q] = saved[q]
          /\ q \in run'.removes <=> q \in run.removes
          /\ q \in run'.makes <=> q \in run.makes
      OBVIOUS
    <3> QED
      BY <3>1, <3>2 DEF IdentityFine
  <2>2. want'.resources \in Identity!Configured'
    BY <1>0, <1>1 DEF IdentityShape
  <2>3. (\A q \in Identity!Resources : IdentityFine(q))'
    BY <1>1, <2>1
  <2> QED
    BY <1>4, <2>2, <2>3 DEF IdentityShape
<1>6. IdentityInsight'
  <2> SUFFICES ASSUME quiet, ~run'.moved
      PROVE  \A q \in want.resources : q \notin run'.removes /\ q \notin run'.makes =>
               IdentityRight(q)'
    BY <1>4 DEF IdentityInsight
  <2>1. /\ ~run.moved /\ want.resources \subseteq Identity!Resources
    BY <1>2 DEF IdentityWants
  <2>2. \A q \in want.resources : q \notin run.removes /\ q \notin run.makes => IdentityRight(q)
    BY <1>0, <2>1 DEF IdentityInsight
  <2> QED
    BY <2>1, <2>2
<1> QED
  BY <1>3, <1>4, <1>5, <1>6 DEF IdentitySound, Identity!SuccessIsReal

\* What an apply knows.
LEMMA IdentityApplyFacts ==
  ASSUME IdentitySound, run.pc \in IdentityApplies
  PROVE  /\ remote \in IdentityRemotes /\ saved \in Identity!State /\ run \in IdentityRuns
         /\ want.resources \subseteq Identity!Resources
         /\ want.account \in Accounts \cup {NoAccount}
         /\ \A r \in Identity!Resources : IdentityFine(r)
         /\ saved.id = NoId => ~saved.tainted
         /\ "arn" \in want.resources => "id" \in want.resources
         /\ run.pc # "apply" => run.removes = {}
         /\ quiet /\ ~run.moved =>
              \A r \in want.resources : r \notin run.removes /\ r \notin run.makes =>
                IdentityRight(r)
BY IdentityTypes
DEF IdentitySound, IdentityShape, IdentityInsight, IdentityWants, Identity!Configured

LEMMA IdentityDeleteSound ==
  ASSUME Identity!IdentityAssumption, IdentitySound,
         Identity!DeleteCluster \/ Identity!DeleteArn
  PROVE  IdentitySound'
<1>0. Identity!TypeOK
  BY DEF IdentitySound
<1>1. PICK r \in IdentityKinds :
        /\ Identity!Destroys(r) /\ Identity!Destroyed(r) /\ UNCHANGED <<want, quiet, trouble>>
        /\ \/ /\ r = "arn" /\ saved' = [saved EXCEPT !.arn = NoId]
              /\ remote' = [remote EXCEPT !.principals = @ \ {saved.arn}]
           \/ /\ r = "cluster" /\ saved' = [saved EXCEPT !.cluster = NoId]
              /\ remote' = Identity!Archived(saved[r])
           \/ /\ r = "id" /\ remote' = Identity!Archived(saved[r])
              /\ saved' = [saved EXCEPT !.id = NoId, !.account = NoAccount, !.tainted = FALSE]
  BY DEF Identity!DeleteCluster, Identity!DeleteArn, IdentityKinds
<1>2. run.pc = "apply" /\ r \in run.removes /\ run.pc \in IdentityApplies
  BY <1>1 DEF Identity!Destroys, IdentityApplies
<1>3. /\ remote \in IdentityRemotes /\ saved \in Identity!State /\ run \in IdentityRuns
      /\ want.resources \subseteq Identity!Resources /\ \A q \in Identity!Resources :
           IdentityFine(q)
      /\ saved.id = NoId => ~saved.tainted
  BY <1>2, IdentityApplyFacts
<1>4. r \in Identity!Resources
  BY <1>2, <1>3 DEF IdentityRuns
<1>5. /\ run' \in IdentityRuns /\ run'.pc = "apply" /\ run'.removes = run.removes \ {r}
      /\ run'.makes = run.makes
      /\ ~run'.moved => ~run.moved /\ r = "arn"
  <2>1. run.moved \in BOOLEAN
    BY <1>3 DEF IdentityRuns
  <2>2. /\ run'.moved = (run.moved \/ r # "arn") /\ run'.pc = "apply"
        /\ run'.removes = run.removes \ {r} /\ run'.makes = run.makes
    BY <1>1, <1>2, <1>3 DEF Identity!Destroyed, IdentityRuns
  <2>3. run' \in IdentityRuns
    BY <1>1, <1>3, <2>1 DEF Identity!Destroyed, IdentityRuns
  <2> QED
    BY <2>2, <2>3
<1>6. remote' \in IdentityRemotes /\ remote'.kind = remote.kind
  <2>1. CASE remote' = Identity!Archived(saved[r])
    BY <1>0, <2>1, IdentityArchived
  <2>2. CASE remote' = [remote EXCEPT !.principals = @ \ {saved.arn}]
    BY <1>3, <2>2 DEF IdentityRemotes
  <2> QED
    BY <1>1, <2>1, <2>2
<1>7. /\ saved' \in Identity!State /\ saved'[r] = NoId
      /\ \A q \in IdentityKinds : q # r => saved'[q] = saved[q]
      /\ saved'.id = NoId => ~saved'.tainted
      /\ r = "arn" => /\ saved'.tainted = saved.tainted /\ saved'.account = saved.account
                      /\ saved'.id = saved.id
  <2>1. CASE r = "arn" \/ r = "cluster"
    BY <1>1, <1>3, <2>1 DEF Identity!State, IdentityKinds
  <2>2. CASE r = "id"
    BY <1>1, <1>3, <2>2 DEF Identity!State, IdentityKinds
  <2> QED
    BY <2>1, <2>2 DEF IdentityKinds
<1>8. IdentityFine(r)'
  <2>1. IdentityFine(r)
    BY <1>3, <1>4
  <2> QED
    BY <1>1, <1>2, <1>5, <1>7, <2>1 DEF IdentityFine
<1>9. ASSUME ~run'.moved
      PROVE  \A q \in want.resources : IdentityRight(q) /\ q # r => IdentityRight(q)'
  <2>1. r = "arn" /\ remote' = [remote EXCEPT !.principals = @ \ {saved.arn}]
    BY <1>1, <1>5, <1>9
  <2>2. /\ remote'.live = remote.live /\ remote'.account = remote.account
    BY <1>3, <2>1 DEF IdentityRemotes
  <2>3. \A q \in want.resources : q \in IdentityKinds
    BY <1>3, IdentityResources
  <2> QED
    BY <1>1, <1>6, <1>7, <2>1, <2>2, <2>3 DEF IdentityRight, Identity!Live
<1>10. r \in want.resources => r \in run'.makes
  <2>1. IdentityFine(r)
    BY <1>3, <1>4
  <2> QED
    BY <1>2, <1>5, <2>1 DEF IdentityFine
<1>11. /\ run.pc # "account" /\ run'.pc \in IdentityApplies
       /\ run'.pc \notin {"token", "account", "principal"}
  BY <1>2, <1>5 DEF IdentityApplies
<1>12. \A q \in Identity!Resources : q # r =>
         /\ saved'[q] = saved[q]
         /\ q \in run'.removes <=> q \in run.removes
         /\ q \in run'.makes <=> q \in run.makes
  BY <1>5, <1>7, IdentityResources
<1> QED
  BY <1>1, <1>2, <1>4, <1>5, <1>6, <1>7, <1>8, <1>9, <1>10, <1>11, <1>12, IdentityApplySound

\* What is there stays there when the cluster is registered.
LEMMA IdentityRegisters ==
  ASSUME Identity!IdentityAssumption, Identity!TypeOK, Identity!CanRegister,
         remote' = Identity!Registered
  PROVE  /\ remote' \in IdentityRemotes /\ remote'.kind = remote.kind
         /\ remote'.live \in ClusterIds
         /\ remote'.live # NoId
         /\ remote.live # NoId => remote' = remote
<1>1. /\ Identity!Registered \in IdentityRemotes /\ Identity!Registered.kind = remote.kind
      /\ Identity!Registered.live \in ClusterIds
      /\ remote.live # NoId => Identity!Registered = remote
  BY IdentityRegistered
<1> QED
  BY <1>1 DEF Identity!IdentityAssumption

\* What is made has not been there.
LEMMA IdentityMakes ==
  ASSUME IdentitySound, NEW r \in Identity!Resources, Identity!Makes(r)
  PROVE  /\ run.pc = "apply" /\ run.pc \in IdentityApplies /\ run.removes = {}
         /\ r \in run.makes /\ r \in want.resources /\ saved[r] = NoId
<1>1. run.pc = "apply" /\ run.removes = {} /\ r \in run.makes
  BY DEF Identity!Makes
<1>2. run.pc \in IdentityApplies
  BY <1>1 DEF IdentityApplies
<1>3. IdentityFine(r)
  BY <1>2, IdentityApplyFacts
<1> QED
  BY <1>1, <1>2, <1>3 DEF IdentityFine

\* A resource has been made.
LEMMA IdentityMade ==
  ASSUME NEW r \in Identity!Resources, run \in IdentityRuns, run.removes = {}, Identity!Made(r),
         saved'[r] # NoId, r \in want.resources, want' = want
  PROVE  /\ run' \in IdentityRuns /\ run'.pc = "apply" /\ run'.pc \in IdentityApplies
         /\ run'.removes = {} /\ run'.makes = run.makes \ {r} /\ run'.moved = run.moved
         /\ IdentityFine(r)'
<1>1. /\ run' \in IdentityRuns /\ run'.pc = "apply" /\ run'.removes = {}
      /\ run'.makes = run.makes \ {r} /\ run'.moved = run.moved
  BY DEF Identity!Made, IdentityRuns, IdentityPCs, Identity!Steps
<1> QED
  BY <1>1 DEF IdentityFine, IdentityApplies

LEMMA IdentityCreateSound ==
  ASSUME Identity!IdentityAssumption, IdentitySound, Identity!CreateId \/ Identity!CreateCluster
  PROVE  IdentitySound'
<1>0. Identity!TypeOK
  BY DEF IdentitySound
<1>1. PICK r \in {"id", "cluster"} :
        /\ Identity!Makes(r) /\ Identity!CanRegister /\ remote' = Identity!Registered
        /\ UNCHANGED <<want, quiet, trouble>>
        /\ \/ /\ r = "id" /\ remote.kind = "gke"
              /\ run' = [run EXCEPT !.pc = "token"] /\ saved' = saved
           \/ /\ r = "id" /\ remote.kind # "gke"
              /\ saved' = [saved EXCEPT !.id = remote'.live] /\ Identity!Made(r)
           \/ /\ r = "cluster"
              /\ saved' = [saved EXCEPT !.cluster = remote'.live] /\ Identity!Made(r)
  BY DEF Identity!CreateId, Identity!CreateCluster
<1>2. r \in Identity!Resources /\ r \in IdentityKinds
  BY IdentityResources
<1>3. /\ run.pc = "apply" /\ run.pc \in IdentityApplies /\ run.removes = {}
      /\ r \in run.makes /\ r \in want.resources /\ saved[r] = NoId
  BY <1>1, <1>2, IdentityMakes
<1>4. /\ remote \in IdentityRemotes /\ saved \in Identity!State /\ run \in IdentityRuns
      /\ want.resources \subseteq Identity!Resources /\ \A q \in Identity!Resources :
           IdentityFine(q)
      /\ saved.id = NoId => ~saved.tainted
  BY <1>3, IdentityApplyFacts
<1>5. /\ remote' \in IdentityRemotes /\ remote'.kind = remote.kind
      /\ remote'.live \in ClusterIds /\ remote'.live # NoId
      /\ \A q \in Identity!Resources : Identity!Live(saved[q]) => remote' = remote
  BY <1>0, <1>1, IdentityRegisters DEF Identity!Live
<1>6. \A q \in want.resources : q \in IdentityKinds
  BY <1>4, IdentityResources
<1>7. CASE /\ run' = [run EXCEPT !.pc = "token"] /\ saved' = saved /\ r = "id"
           /\ remote.kind = "gke"
  <2>1. /\ run' \in IdentityRuns /\ run'.pc = "token" /\ run'.removes = {}
        /\ run'.makes = run.makes /\ run'.moved = run.moved
    BY <1>3, <1>4, <1>7 DEF IdentityRuns, IdentityPCs, Identity!Steps
  <2>2. IdentityFine(r)'
    BY <1>1, <1>3, <1>7, <2>1 DEF IdentityFine
  <2>3. \A q \in want.resources : IdentityRight(q) /\ q # r => IdentityRight(q)'
    BY <1>1, <1>4, <1>5, <1>7 DEF IdentityRight, Identity!Live
  <2>4. run'.pc \in IdentityApplies /\ run'.pc \notin {"account", "principal"}
    BY <2>1 DEF IdentityApplies
  <2> QED
    BY <1>1, <1>2, <1>3, <1>4, <1>5, <1>7, <2>1, <2>2, <2>3, <2>4, IdentityApplySound
<1>8. CASE Identity!Made(r) /\ (r = "id" => remote.kind # "gke")
  <2>1. /\ saved' \in Identity!State /\ saved'[r] = remote'.live
        /\ \A q \in IdentityKinds : q # r => saved'[q] = saved[q]
        /\ saved'.tainted = saved.tainted /\ saved'.account = saved.account
        /\ saved'.id = saved'["id"]
    <3>1. CASE r = "id"
      BY <1>1, <1>4, <1>5, <1>8, <3>1 DEF Identity!State, IdentityKinds
    <3>2. CASE r = "cluster"
      BY <1>1, <1>4, <1>5, <3>2 DEF Identity!State, IdentityKinds
    <3> QED
      BY <3>1, <3>2
  <2>2. saved'.id = NoId => ~saved'.tainted
    BY <1>2, <1>4, <1>5, <2>1, IdentityStateType DEF IdentityKinds
  <2>3. /\ run' \in IdentityRuns /\ run'.pc = "apply" /\ run'.pc \in IdentityApplies
        /\ run'.removes = {} /\ run'.makes = run.makes \ {r} /\ run'.moved = run.moved
        /\ IdentityFine(r)'
    BY <1>1, <1>2, <1>3, <1>4, <1>5, <1>8, <2>1, IdentityMade
  <2>4. \A q \in want.resources : IdentityRight(q) /\ q # r => IdentityRight(q)'
    BY <1>1, <1>4, <1>5, <1>6, <2>1 DEF IdentityRight, Identity!Live
  <2>5. IdentityRight(r)'
    <3>1. r = "id" => ~saved.tainted
      BY <1>3, <1>4, IdentityStateType
    <3> QED
      BY <1>1, <1>5, <1>8, <2>1, <3>1 DEF IdentityRight, Identity!Live
  <2>6. \A q \in Identity!Resources : q # r =>
          /\ saved'[q] = saved[q]
          /\ q \in run'.removes <=> q \in run.removes
          /\ q \in run'.makes <=> q \in run.makes
    BY <1>3, <2>1, <2>3, IdentityResources
  <2>7. run'.pc \notin {"token", "account", "principal"}
    BY <2>3
  <2> QED
    BY <1>1, <1>2, <1>3, <1>5, <2>1, <2>2, <2>3, <2>4, <2>5, <2>6, <2>7, IdentityApplySound
<1> QED
  BY <1>1, <1>7, <1>8

\* The steps of a create after the first one, and the update.
LEMMA IdentityAccountSound ==
  ASSUME Identity!IdentityAssumption, IdentitySound, Identity!Token \/ Identity!CreateAccount
  PROVE  IdentitySound'
<1>0. Identity!TypeOK /\ IdentityShape /\ IdentityInsight
  BY DEF IdentitySound
<1>1. /\ run.pc \in {"token", "account"} /\ run.pc \in IdentityApplies /\ run.pc # "apply"
      /\ UNCHANGED <<want, quiet, trouble>>
  BY DEF Identity!Token, Identity!CreateAccount, IdentityApplies
<1>2. /\ remote \in IdentityRemotes /\ saved \in Identity!State /\ run \in IdentityRuns
      /\ want.resources \subseteq Identity!Resources
      /\ want.account \in Accounts \cup {NoAccount}
      /\ \A q \in Identity!Resources : IdentityFine(q)
      /\ saved.id = NoId => ~saved.tainted
      /\ run.removes = {}
  BY <1>1, IdentityApplyFacts
<1>3. /\ remote.kind = "gke" /\ "id" \in run.makes
      /\ run.pc = "account" =>
           saved.id # NoId /\ saved.account = want.account /\ ~saved.tainted
  BY <1>0, <1>1 DEF IdentityShape
<1>4. /\ "id" \in Identity!Resources /\ "id" \in want.resources /\ saved["id"] = saved.id
      /\ \A q \in want.resources : q \in IdentityKinds
  BY <1>2, <1>3, IdentityResources, IdentityStateType DEF IdentityFine
<1>5. CASE Identity!Token
  <2>1. /\ run.pc = "token" /\ remote.live # NoId /\ remote' = remote
        /\ saved' = [saved EXCEPT !.id = remote.live, !.account = want.account]
        /\ \/ want.account # NoAccount /\ run' = [run EXCEPT !.pc = "account"]
           \/ want.account = NoAccount /\ Identity!Made("id")
    BY <1>5 DEF Identity!Token
  <2>2. ~saved.tainted
    BY <1>2, <1>3, <1>4, <2>1 DEF IdentityFine
  <2>3. /\ saved' \in Identity!State /\ saved'.id = remote.live /\ saved'["id"] = remote.live
        /\ saved'.account = want.account /\ saved'.tainted = saved.tainted
        /\ \A q \in IdentityKinds : q # "id" => saved'[q] = saved[q]
    BY <1>2, <2>1 DEF Identity!State, IdentityRemotes, IdentityKinds
  <2>4. \A q \in want.resources : IdentityRight(q) /\ q # "id" => IdentityRight(q)'
    BY <1>1, <1>4, <2>1, <2>3 DEF IdentityRight, Identity!Live
  <2>5. CASE want.account # NoAccount /\ run' = [run EXCEPT !.pc = "account"]
    <3>1. /\ run' \in IdentityRuns /\ run'.pc = "account" /\ run'.removes = {}
          /\ run'.makes = run.makes /\ run'.moved = run.moved
      BY <1>2, <2>5 DEF IdentityRuns, IdentityPCs, Identity!Steps
    <3>2. IdentityFine("id")'
      BY <1>1, <1>3, <1>4, <3>1 DEF IdentityFine
    <3>3. run'.pc \in IdentityApplies
      BY <3>1 DEF IdentityApplies
    <3>4. Identity!Live(saved.id)'
      BY <2>1, <2>3 DEF Identity!Live
    <3>5. \A q \in Identity!Resources : q # "id" =>
            /\ saved'[q] = saved[q]
            /\ q \in run'.removes <=> q \in run.removes
            /\ q \in run'.makes <=> q \in run.makes
      BY <1>2, <2>3, <3>1, IdentityResources
    <3>6. /\ saved'.id # NoId /\ ~saved'.tainted /\ run'.pc \notin {"token", "principal"}
          /\ "id" \in run'.makes
      BY <1>3, <2>1, <2>2, <2>3, <3>1
    <3> QED
      BY <1>1, <1>2, <1>3, <1>4, <2>1, <2>3, <2>4, <3>1, <3>2, <3>3, <3>4, <3>5, <3>6,
        IdentityApplySound
  <2>6. CASE want.account = NoAccount /\ Identity!Made("id")
    <3>1. /\ run' \in IdentityRuns /\ run'.pc = "apply" /\ run'.pc \in IdentityApplies
          /\ run'.removes = {} /\ run'.makes = run.makes \ {"id"} /\ run'.moved = run.moved
          /\ IdentityFine("id")'
      BY <1>1, <1>2, <1>4, <2>1, <2>3, <2>6, IdentityMade
    <3>2. IdentityRight("id")'
      BY <1>1, <2>1, <2>2, <2>3, <2>6 DEF IdentityRight, Identity!Live
    <3>3. \A q \in Identity!Resources : q # "id" =>
            /\ saved'[q] = saved[q]
            /\ q \in run'.removes <=> q \in run.removes
            /\ q \in run'.makes <=> q \in run.makes
      BY <1>2, <2>3, <3>1, IdentityResources
    <3>4. ~saved'.tainted /\ run'.pc \notin {"token", "account", "principal"}
      BY <2>2, <2>3, <3>1
    <3> QED
      BY <1>1, <1>2, <1>4, <2>1, <2>3, <2>4, <3>1, <3>2, <3>3, <3>4, IdentityApplySound
  <2> QED
    BY <2>1, <2>5, <2>6
<1>6. CASE Identity!CreateAccount
  <2>1. /\ run.pc = "account" /\ Identity!Live(saved.id) /\ saved' = saved
        /\ Identity!Made("id")
        /\ remote' = [remote EXCEPT !.account = want.account]
    BY <1>6 DEF Identity!CreateAccount
  <2>2. /\ remote' \in IdentityRemotes /\ remote'.kind = remote.kind
        /\ remote'.live = remote.live /\ remote'.principals = remote.principals
        /\ remote'.account = want.account
    BY <1>2, <2>1 DEF IdentityRemotes
  <2>3. /\ run' \in IdentityRuns /\ run'.pc = "apply" /\ run'.pc \in IdentityApplies
        /\ run'.removes = {} /\ run'.makes = run.makes \ {"id"} /\ run'.moved = run.moved
        /\ IdentityFine("id")'
    BY <1>1, <1>2, <1>3, <1>4, <2>1, IdentityMade
  <2>4. IdentityRight("id")'
    BY <1>1, <1>3, <1>4, <2>1, <2>2 DEF IdentityRight, Identity!Live
  <2>5. \A q \in want.resources : IdentityRight(q) /\ q # "id" => IdentityRight(q)'
    BY <1>1, <1>4, <2>1, <2>2 DEF IdentityRight, Identity!Live
  <2>6. \A q \in Identity!Resources : q # "id" =>
          /\ saved'[q] = saved[q]
          /\ q \in run'.removes <=> q \in run.removes
          /\ q \in run'.makes <=> q \in run.makes
    BY <1>2, <2>1, <2>3
  <2>7. run'.pc \notin {"token", "account", "principal"}
    BY <2>3
  <2> QED
    BY <1>1, <1>2, <1>4, <2>1, <2>2, <2>3, <2>4, <2>5, <2>6, <2>7, IdentityApplySound
<1> QED
  BY <1>5, <1>6

LEMMA IdentityUpdateSound ==
  ASSUME Identity!IdentityAssumption, IdentitySound, Identity!UpdateId
  PROVE  IdentitySound'
<1>0. Identity!TypeOK /\ IdentityShape
  BY DEF IdentitySound
<1>1. /\ run.pc = "apply" /\ run.removes = {} /\ run.pc \in IdentityApplies
      /\ UNCHANGED <<remote, want, quiet, trouble>>
  BY DEF Identity!UpdateId, Identity!Makes, IdentityApplies
<1>2. /\ remote \in IdentityRemotes /\ saved \in Identity!State /\ run \in IdentityRuns
      /\ want.resources \subseteq Identity!Resources /\ \A q \in Identity!Resources :
           IdentityFine(q)
      /\ saved.id = NoId => ~saved.tainted
  BY <1>1, IdentityApplyFacts
<1>3. CASE Identity!Live(saved.id)
  <2>1. saved' = [saved EXCEPT !.account = remote.account] /\ Identity!Made("account")
    BY <1>3 DEF Identity!UpdateId
  <2>2. /\ saved' \in Identity!State /\ saved'.id = saved.id /\ saved'.account = remote.account
        /\ saved'.tainted = saved.tainted
        /\ \A q \in IdentityKinds : saved'[q] = saved[q]
    BY <1>2, <2>1 DEF Identity!State, IdentityRemotes, IdentityKinds
  <2>3. /\ run' \in IdentityRuns /\ run'.pc = "apply" /\ run'.removes = {}
        /\ run'.makes = run.makes \ {"account"} /\ run'.moved = run.moved
    BY <1>1, <1>2, <2>1 DEF Identity!Made, IdentityRuns, IdentityPCs, Identity!Steps
  <2>4. \A q \in Identity!Resources :
          /\ saved'[q] = saved[q] /\ q # "account"
          /\ q \in run'.removes <=> q \in run.removes
          /\ q \in run'.makes <=> q \in run.makes
    BY <1>1, <2>2, <2>3, IdentityResources DEF IdentityKinds
  <2>5. IdentityFine("id")'
    <3>1. "id" \in Identity!Resources
      BY IdentityResources
    <3> QED
      BY <1>1, <1>2, <2>3, <2>4, <3>1 DEF IdentityFine
  <2>6. \A q \in want.resources : IdentityRight(q) => IdentityRight(q)'
    <3>1. \A q \in want.resources : saved'[q] = saved[q]
      BY <1>2, <2>4
    <3> QED
      BY <1>1, <2>2, <3>1 DEF IdentityRight, Identity!Live
  <2>7. /\ run'.pc \notin {"token", "account", "principal"} /\ run'.pc \in IdentityApplies
        /\ run.pc # "account" /\ "id" \in Identity!Resources
    BY <1>1, <2>3, IdentityResources DEF IdentityApplies
  <2>8. quiet /\ ~run'.moved /\ "id" \in want.resources /\ "id" \notin run'.removes
          /\ "id" \notin run'.makes => IdentityRight("id")'
    BY <1>1, <2>3, <2>4, <2>6, <2>7, IdentityApplyFacts
  <2> QED
    BY <1>1, <1>2, <2>2, <2>3, <2>4, <2>5, <2>6, <2>7, <2>8, IdentityApplySound
<1>4. CASE ~Identity!Live(saved.id)
  <2>1. saved' = saved /\ run' = [run EXCEPT !.pc = "failed"]
    BY <1>4 DEF Identity!UpdateId
  <2>2. run' \in IdentityRuns /\ run'.pc = "failed"
    BY <1>2, <2>1 DEF IdentityRuns, IdentityPCs, Identity!Ended
  <2>3. /\ Identity!Resources' = Identity!Resources
        /\ Identity!Configured' = Identity!Configured
        /\ IdentityWants' = IdentityWants /\ IdentityRuns' = IdentityRuns
    BY <1>1, IdentityKept
  <2>4. Identity!TypeOK'
    <3>1. want' \in IdentityWants'
      BY <1>0, <1>1, <2>3, IdentityTypes
    <3> QED
      BY <1>0, <1>1, <2>1, <2>2, <2>3, <3>1, IdentityTypes, IdentityTypesNext
  <2>5. IdentityShape'
    <3>1. want'.resources \in Identity!Configured'
      BY <1>0, <1>1, <2>3 DEF IdentityShape
    <3> QED
      BY <1>2, <2>1, <2>2, <3>1 DEF IdentityShape, IdentityApplies
  <2> QED
    BY <2>2, <2>4, <2>5
    DEF IdentitySound, IdentityInsight, IdentityApplies, Identity!SuccessIsReal
<1> QED
  BY <1>3, <1>4

\* The principal is made for the ID, and the ID stays.
LEMMA IdentityArnSound ==
  ASSUME Identity!IdentityAssumption, IdentitySound, Identity!CreateArn \/ Identity!Principal
  PROVE  IdentitySound'
<1>0. Identity!TypeOK /\ IdentityShape
  BY DEF IdentitySound
<1>1. /\ run.pc \in {"apply", "principal"} /\ run.pc \in IdentityApplies
      /\ UNCHANGED <<want, quiet, trouble>> /\ Identity!Answers(saved.id)
  BY DEF Identity!CreateArn, Identity!Principal, Identity!Makes, IdentityApplies
<1>2. /\ remote \in IdentityRemotes /\ saved \in Identity!State /\ run \in IdentityRuns
      /\ want.resources \subseteq Identity!Resources /\ \A q \in Identity!Resources :
           IdentityFine(q)
      /\ saved.id = NoId => ~saved.tainted
      /\ "arn" \in want.resources => "id" \in want.resources
      /\ quiet /\ ~run.moved =>
           \A r \in want.resources : r \notin run.removes /\ r \notin run.makes =>
             IdentityRight(r)
  BY <1>1, IdentityApplyFacts
<1>3. run.removes = {} /\ "arn" \in run.makes /\ "id" \notin run.makes
  BY <1>0, <1>1 DEF Identity!CreateArn, Identity!Principal, Identity!Makes, IdentityShape
<1>4. /\ remote.kind = "eks" /\ "arn" \in Identity!Resources /\ "id" \in Identity!Resources
      /\ saved["id"] = saved.id /\ \A q \in want.resources : q \in IdentityKinds
  BY <1>2, <1>3, IdentityResources, IdentityStateType DEF IdentityRuns
<1>5. "arn" \in want.resources /\ "id" \in want.resources /\ saved.id # NoId
  BY <1>2, <1>3, <1>4 DEF IdentityFine
<1>6. saved.id \in ClusterIds
  BY <1>2, <1>4, <1>5, IdentityStateType DEF IdentityKinds
<1>7. quiet /\ ~run.moved => Identity!Live(saved.id)
  BY <1>2, <1>3, <1>4, <1>5 DEF IdentityRight
<1>8. CASE Identity!Principal \/ (Identity!CreateArn /\ saved.id \in remote.principals)
  <2>1. /\ saved' = [saved EXCEPT !.arn = saved.id] /\ Identity!Made("arn")
        /\ remote' \in {remote, [remote EXCEPT !.principals = @ \cup {saved.id}]}
        /\ saved.id \in remote'.principals
    BY <1>2, <1>8 DEF Identity!Principal, Identity!CreateArn, IdentityRemotes
  <2>2. /\ remote' \in IdentityRemotes /\ remote'.kind = remote.kind
        /\ remote'.live = remote.live /\ remote'.account = remote.account
    BY <1>2, <1>6, <2>1 DEF IdentityRemotes
  <2>3. /\ saved' \in Identity!State /\ saved'["arn"] = saved.id /\ saved'.arn = saved.id
        /\ saved'.id = saved.id /\ saved'.tainted = saved.tainted
        /\ saved'.account = saved.account
        /\ \A q \in IdentityKinds : q # "arn" => saved'[q] = saved[q]
    BY <1>2, <1>6, <2>1 DEF Identity!State, IdentityKinds
  <2>4. /\ run' \in IdentityRuns /\ run'.pc = "apply" /\ run'.pc \in IdentityApplies
        /\ run'.removes = {} /\ run'.makes = run.makes \ {"arn"} /\ run'.moved = run.moved
        /\ IdentityFine("arn")'
    BY <1>1, <1>2, <1>3, <1>4, <1>5, <2>1, <2>3, IdentityMade
  <2>5. quiet /\ ~run.moved => IdentityRight("arn")'
    BY <1>1, <1>7, <2>1, <2>2, <2>3 DEF IdentityRight, Identity!Live
  <2>6. \A q \in want.resources : IdentityRight(q) /\ q # "arn" => IdentityRight(q)'
    BY <1>1, <1>4, <2>2, <2>3 DEF IdentityRight, Identity!Live
  <2>7. \A q \in Identity!Resources : q # "arn" =>
          /\ saved'[q] = saved[q]
          /\ q \in run'.removes <=> q \in run.removes
          /\ q \in run'.makes <=> q \in run.makes
    BY <1>3, <2>3, <2>4, IdentityResources
  <2>8. run'.pc \notin {"token", "account", "principal"} /\ run.pc # "account"
    BY <1>1, <2>4
  <2>9. saved'.id = NoId => ~saved'.tainted
    BY <1>5, <2>3
  <2> QED
    BY <1>1, <1>4, <2>2, <2>3, <2>4, <2>5, <2>6, <2>7, <2>8, <2>9, IdentityApplySound
<1>9. CASE Identity!CreateArn /\ saved.id \notin remote.principals
  <2>1. /\ run.pc = "apply" /\ run' = [run EXCEPT !.pc = "principal"]
        /\ saved' = saved /\ remote' = remote
    BY <1>9 DEF Identity!CreateArn, Identity!Makes
  <2>2. /\ run' \in IdentityRuns /\ run'.pc = "principal" /\ run'.removes = run.removes
        /\ run'.makes = run.makes /\ run'.moved = run.moved
    BY <1>2, <2>1 DEF IdentityRuns, IdentityPCs, Identity!Steps
  <2>3. IdentityFine("arn")'
    BY <1>1, <1>2, <1>4, <2>1, <2>2 DEF IdentityFine
  <2>4. \A q \in want.resources : IdentityRight(q) => IdentityRight(q)'
    BY <1>1, <2>1 DEF IdentityRight, Identity!Live
  <2>5. run'.pc \in IdentityApplies /\ run.pc # "account"
    BY <2>1, <2>2 DEF IdentityApplies
  <2>6. run'.pc \notin {"token", "account"}
    BY <2>2
  <2> QED
    BY <1>1, <1>2, <1>3, <1>4, <2>1, <2>2, <2>3, <2>4, <2>5, <2>6, IdentityApplySound
<1> QED
  BY <1>8, <1>9

\* What is planned after the reads is what has to be done.
LEMMA IdentityPlanSound ==
  ASSUME Identity!IdentityAssumption, IdentitySound, Identity!Plan
  PROVE  IdentitySound'
<1>0. Identity!TypeOK /\ IdentityShape /\ IdentityInsight
  BY DEF IdentitySound
<1> DEFINE seen == run.seen
           has == {r \in Identity!Resources : seen[r] # NoId}
           replaced == {r \in has \cap want.resources :
                          \/ r = "id" /\ seen.tainted
                          \/ r = "arn" /\ Identity!Outdated(seen)}
           drift == IF "id" \in (has \cap want.resources) \ replaced
                         /\ remote.kind = "gke" /\ seen.account # want.account
                    THEN {"account"} ELSE {}
           begun == Identity!Run("apply", {}, Identity!NotSaved)
           removes == (has \ want.resources) \cup replaced
           makes == (want.resources \ has) \cup replaced \cup drift
<1>1. /\ run.pc = "refresh" /\ run.asks = {} /\ saved' = seen
      /\ run' = [begun EXCEPT !.removes = removes, !.makes = makes]
      /\ UNCHANGED <<remote, want, quiet, trouble>>
  BY DEF Identity!Plan
<1>2. /\ run \in IdentityRuns /\ seen \in Identity!State /\ want \in IdentityWants
      /\ want.resources \subseteq Identity!Resources /\ remote \in IdentityRemotes
      /\ quiet \in BOOLEAN /\ trouble \in 0..MoreTrouble
  BY <1>0, IdentityTypes DEF IdentityRuns, IdentityWants
<1>3. /\ Identity!Resources' = Identity!Resources /\ Identity!Configured' = Identity!Configured
      /\ IdentityWants' = IdentityWants /\ IdentityRuns' = IdentityRuns
  BY <1>1, IdentityKept
<1>4. \A r \in Identity!Resources :
        /\ r # "account"
        /\ r \in removes <=> r \in has /\ (r \notin want.resources \/ r \in replaced)
        /\ r \in makes <=> r \in want.resources /\ (r \notin has \/ r \in replaced)
  BY IdentityResources DEF IdentityKinds
<1>5. /\ removes \subseteq Identity!Resources
      /\ makes \subseteq Identity!Resources \cup {"account"}
  BY <1>2
<1>6. \A r \in Identity!Resources : r \in has <=> seen[r] # NoId
  OBVIOUS
<1>7. \A r : r \in replaced <=>
        /\ r \in has /\ r \in want.resources
        /\ \/ r = "id" /\ seen.tainted
           \/ r = "arn" /\ Identity!Outdated(seen)
  OBVIOUS
<1>8. begun \in IdentityRuns /\ begun.pc = "apply" /\ begun.moved = FALSE
  BY IdentityStateType DEF Identity!Run, IdentityRuns, IdentityPCs, Identity!Steps
<1>9. "id" \in (has \cap want.resources) \ replaced /\ remote.kind = "gke"
        /\ seen.account # want.account => "account" \in makes
  OBVIOUS
<1> HIDE DEF has, replaced, drift, begun, removes, makes
<1>10. /\ run' \in IdentityRuns /\ run'.pc = "apply" /\ run'.removes = removes
       /\ run'.makes = makes
  BY <1>1, <1>5, <1>8 DEF IdentityRuns
<1>11. Identity!TypeOK'
  <2>1. want' \in IdentityWants' /\ run' \in IdentityRuns' /\ saved' \in Identity!State
    BY <1>1, <1>2, <1>3, <1>10
  <2> QED
    BY <1>1, <1>2, <2>1, IdentityTypesNext
<1>12. IdentityShape'
  <2>1. \A r \in Identity!Resources : IdentityFine(r)'
    BY <1>1, <1>4, <1>6, <1>7, <1>10 DEF IdentityFine
  <2>2. (\A r \in Identity!Resources : IdentityFine(r))'
    BY <1>3, <2>1
  <2>3. want'.resources \in Identity!Configured' /\ (saved'.id = NoId => ~saved'.tainted)
    <3>1. want.resources \in Identity!Configured /\ (seen.id = NoId => ~seen.tainted)
      BY <1>0, <1>1 DEF IdentityShape
    <3> QED
      BY <1>1, <1>3, <3>1
  <2> QED
    BY <1>10, <2>2, <2>3 DEF IdentityShape, IdentityApplies
<1>13. IdentityInsight'
  <2>1. /\ "id" \in Identity!Resources /\ seen["id"] = seen.id /\ seen["arn"] = seen.arn
        /\ \A q \in want.resources : q \in IdentityKinds
        /\ "arn" \in want.resources => "id" \in want.resources
    BY <1>0, <1>2, IdentityResources, IdentityStateType
    DEF IdentityShape, Identity!Configured
  <2> SUFFICES ASSUME quiet, NEW r \in want.resources, r \notin removes, r \notin makes
               PROVE  IdentityRight(r)'
    BY <1>1, <1>10 DEF IdentityInsight, IdentityApplies
  <2>2. /\ \A q \in Identity!Resources : seen[q] # NoId => IdentitySure(q, seen[q])
        /\ seen.id # NoId => seen.account = remote.account
    BY <1>0, <1>1 DEF IdentityInsight
  <2>3. seen[r] # NoId /\ r \notin replaced /\ r \in Identity!Resources
    BY <1>2, <1>4, <1>6
  <2>4. CASE r = "cluster"
    BY <1>1, <2>2, <2>3, <2>4 DEF IdentityRight, IdentitySure, Identity!Live
  <2>5. CASE r = "id"
    <3>1. ~seen.tainted /\ Identity!Live(seen.id)
      BY <1>6, <1>7, <2>1, <2>2, <2>3, <2>5 DEF IdentitySure
    <3> QED
      BY <1>1, <2>1, <2>2, <2>3, <2>5, <3>1 DEF IdentityRight, Identity!Live
  <2>6. CASE r = "arn"
    <3>1. seen.arn = seen.id
      BY <1>6, <1>7, <2>3, <2>6 DEF Identity!Outdated
    <3>2. Identity!Live(seen.arn) /\ seen.arn \in remote.principals
      BY <2>1, <2>2, <2>3, <2>6, <3>1 DEF IdentitySure
    <3> QED
      BY <1>1, <2>1, <2>6, <3>2 DEF IdentityRight, Identity!Live
  <2> QED
    BY <2>1, <2>4, <2>5, <2>6 DEF IdentityKinds
<1> QED
  BY <1>10, <1>11, <1>12, <1>13 DEF IdentitySound, Identity!SuccessIsReal

\* What is planned is done, and so what is configured is there.
LEMMA IdentityDoneSound ==
  ASSUME Identity!IdentityAssumption, IdentitySound, Identity!Done
  PROVE  IdentitySound'
<1>0. Identity!TypeOK /\ IdentityShape
  BY DEF IdentitySound
<1>1. /\ run.pc = "apply" /\ run.pc \in IdentityApplies /\ run.removes = {} /\ run.makes = {}
      /\ run' = [run EXCEPT !.pc = "done"]
      /\ UNCHANGED <<remote, want, saved, quiet, trouble>>
  BY DEF Identity!Done, IdentityApplies
<1>2. /\ remote \in IdentityRemotes /\ saved \in Identity!State /\ run \in IdentityRuns
      /\ want.resources \subseteq Identity!Resources /\ \A q \in Identity!Resources :
           IdentityFine(q)
      /\ saved.id = NoId => ~saved.tainted
      /\ quiet /\ ~run.moved =>
           \A r \in want.resources : r \notin run.removes /\ r \notin run.makes =>
             IdentityRight(r)
  BY <1>1, IdentityApplyFacts
<1>3. /\ run' \in IdentityRuns /\ run'.pc = "done" /\ run'.moved = run.moved
  BY <1>1, <1>2 DEF IdentityRuns, IdentityPCs, Identity!Ended
<1>4. /\ Identity!Resources' = Identity!Resources /\ Identity!Configured' = Identity!Configured
      /\ IdentityWants' = IdentityWants /\ IdentityRuns' = IdentityRuns
  BY <1>1, IdentityKept
<1>5. Identity!TypeOK'
  <2>1. want' \in IdentityWants' /\ run' \in IdentityRuns'
    BY <1>0, <1>1, <1>3, <1>4, IdentityTypes
  <2> QED
    BY <1>0, <1>1, <2>1, IdentityTypes, IdentityTypesNext
<1>6. IdentityShape'
  <2>1. want'.resources \in Identity!Configured'
    BY <1>0, <1>1, <1>4 DEF IdentityShape
  <2>2. saved'.id = NoId => ~saved'.tainted
    BY <1>1, <1>2
  <2> QED
    BY <1>3, <2>1, <2>2 DEF IdentityShape, IdentityApplies
<1>7. IdentityInsight'
  BY <1>3 DEF IdentityInsight, IdentityApplies
<1>8. Identity!SuccessIsReal'
  <2> SUFFICES ASSUME quiet, ~run.moved
      PROVE  (/\ Identity!Together
              /\ ~saved.tainted
              /\ remote.kind = "gke" /\ "id" \in want.resources /\ want.account # NoAccount =>
                   Identity!AccountStays \/ remote.account = want.account)'
    BY <1>1, <1>3 DEF Identity!SuccessIsReal
  <2>1. /\ \A r \in want.resources : IdentityRight(r)
        /\ \A r \in Identity!Resources : r \notin want.resources => saved[r] = NoId
    BY <1>1, <1>2 DEF IdentityFine
  <2>2. saved["id"] = saved.id /\ "id" \in Identity!Resources
    BY <1>2, IdentityStateType, IdentityResources
  <2>3. ~saved.tainted
    BY <1>2, <2>1, <2>2 DEF IdentityRight
  <2>4. Identity!Together
    BY <2>1 DEF Identity!Together, IdentityRight
  <2>5. remote.kind = "gke" /\ "id" \in want.resources /\ want.account # NoAccount =>
          Identity!AccountStays \/ remote.account = want.account
    BY <2>1 DEF IdentityRight, Identity!AccountStays
  <2>6. Identity!Together'
    BY <1>1, <1>4, <2>4 DEF Identity!Together, Identity!Live
  <2> QED
    BY <1>1, <2>3, <2>5, <2>6 DEF Identity!AccountStays
<1> QED
  BY <1>5, <1>6, <1>7, <1>8 DEF IdentitySound

\* Somebody else changes the configuration, or what is at CAST AI.
LEMMA IdentityOutsideSound ==
  ASSUME Identity!IdentityAssumption, IdentitySound, Identity!EditConfig \/ Identity!Console
  PROVE  IdentitySound'
<1>0. Identity!TypeOK /\ IdentityShape
  BY DEF IdentitySound
<1>1. saved' = saved /\ run' = run /\ quiet' = FALSE /\ trouble' \in 0..MoreTrouble
  BY <1>0, IdentityTrouble DEF Identity!EditConfig, Identity!Console
<1>2. /\ remote \in IdentityRemotes /\ saved \in Identity!State /\ run \in IdentityRuns
      /\ want \in IdentityWants /\ want.resources \in Identity!Configured
  BY <1>0, IdentityTypes DEF IdentityShape
<1>3. remote' \in IdentityRemotes /\ remote'.kind = remote.kind
  <2>1. CASE Identity!EditConfig
    BY <1>2, <2>1 DEF Identity!EditConfig
  <2>2. CASE Identity!Console
    <3>1. \A id : LET after == [remote EXCEPT !.principals = @ \ {id}]
                  IN  after \in IdentityRemotes /\ after.kind = remote.kind
      BY <1>2 DEF IdentityRemotes
    <3>2. CASE \/ remote' = Identity!Archived(remote.live)
               \/ Identity!CanRegister /\ remote' = Identity!Registered
      BY <1>0, <3>2, IdentityArchived, IdentityRegistered
    <3> QED
      BY <2>2, <3>1, <3>2 DEF Identity!Console
  <2> QED
    BY <2>1, <2>2
<1>4. /\ Identity!Resources' = Identity!Resources /\ Identity!Configured' = Identity!Configured
      /\ IdentityWants' = IdentityWants /\ IdentityRuns' = IdentityRuns
  BY <1>3, IdentityKept
<1>5. /\ want' \in IdentityWants /\ want'.resources \in Identity!Configured
      /\ want' = want \/ run.pc \in Identity!Ended
  <2>1. CASE Identity!EditConfig
    BY <2>1 DEF Identity!EditConfig, IdentityWants, Identity!Configured
  <2>2. CASE Identity!Console
    BY <1>2, <2>2 DEF Identity!Console
  <2> QED
    BY <2>1, <2>2
<1>6. Identity!TypeOK'
  <2>1. want' \in IdentityWants' /\ run' \in IdentityRuns' /\ saved' \in Identity!State
        /\ quiet' \in BOOLEAN
    BY <1>1, <1>2, <1>4, <1>5
  <2> QED
    BY <1>1, <1>3, <2>1, IdentityTypesNext
<1>7. IdentityShape'
  <2>1. want'.resources \in Identity!Configured' /\ (saved'.id = NoId => ~saved'.tainted)
    <3>1. saved.id = NoId => ~saved.tainted
      BY <1>0 DEF IdentityShape
    <3> QED
      BY <1>1, <1>4, <1>5, <3>1
  <2>2. CASE run.pc \in Identity!Ended
    BY <1>1, <2>1, <2>2 DEF IdentityShape, IdentityApplies, Identity!Ended
  <2>3. CASE want' = want
    <3>1. (\A r \in Identity!Resources : IdentityFine(r))' <=>
            (\A r \in Identity!Resources : IdentityFine(r))
      BY <1>1, <1>4, <2>3 DEF IdentityFine
    <3> QED
      BY <1>0, <1>1, <1>3, <1>4, <2>1, <2>3, <3>1 DEF IdentityShape
  <2> QED
    BY <1>5, <2>2, <2>3
<1> QED
  BY <1>1, <1>6, <1>7 DEF IdentitySound, IdentityInsight, Identity!SuccessIsReal

LEMMA IdentityInit ==
  ASSUME Identity!IdentityAssumption, Identity!Init
  PROVE  IdentitySound
<1>1. remote \in IdentityRemotes /\ remote.kind \in {"eks", "gke"}
  BY DEF Identity!Init, IdentityRemotes
<1>2. want \in IdentityWants /\ want.resources \in Identity!Configured
  BY DEF Identity!Init, IdentityWants, Identity!Configured
<1>3. /\ saved = Identity!NotSaved /\ run = Identity!Run("idle", {}, Identity!NotSaved)
      /\ quiet = TRUE
      /\ trouble = MoreTrouble
  BY DEF Identity!Init
<1>4. /\ saved \in Identity!State /\ ~saved.tainted
  BY <1>3, IdentityStateType DEF Identity!NotSaved
<1>5. run \in IdentityRuns /\ run.pc = "idle"
  BY <1>3, <1>4 DEF Identity!Run, IdentityRuns, IdentityPCs, Identity!Ended
<1>6. Identity!TypeOK
  BY <1>1, <1>2, <1>3, <1>4, <1>5, IdentityTypes DEF Identity!IdentityAssumption
<1> QED
  BY <1>2, <1>4, <1>5, <1>6
  DEF IdentitySound, IdentityShape, IdentityInsight, IdentityApplies,
      Identity!SuccessIsReal

LEMMA IdentityStep ==
  ASSUME Identity!IdentityAssumption, IdentitySound, [Identity!Next]_(Identity!vars)
  PROVE  IdentitySound'
<1>1. CASE UNCHANGED Identity!vars
  <2>1. /\ remote' = remote /\ want' = want /\ saved' = saved /\ run' = run
        /\ quiet' = quiet /\ trouble' = trouble
    BY <1>1 DEF Identity!vars
  <2>2. (IdentitySound <=> IdentitySound')
    BY <2>1
    DEF IdentitySound, Identity!TypeOK, Identity!Resources, IdentityShape, IdentityFine,
        IdentityInsight, IdentitySure, IdentityRight, Identity!Live, Identity!Configured,
        Identity!SuccessIsReal, Identity!Together, Identity!AccountStays
  <2> QED
    BY <2>2
<1>2. CASE Identity!StartApply
  BY <1>2, IdentityStartSound
<1>3. CASE Identity!ReadId \/ Identity!ReadCluster \/ Identity!ReadArn
  BY <1>3, IdentityReadSound
<1>4. CASE Identity!ReadFails \/ Identity!Refused \/ Identity!Stops \/ Identity!Killed
  BY <1>4, IdentityFailsSound
<1>5. CASE Identity!Plan
  BY <1>5, IdentityPlanSound
<1>6. CASE Identity!DeleteCluster \/ Identity!DeleteArn
  BY <1>6, IdentityDeleteSound
<1>7. CASE Identity!CreateId \/ Identity!CreateCluster
  BY <1>7, IdentityCreateSound
<1>8. CASE Identity!Token \/ Identity!CreateAccount
  BY <1>8, IdentityAccountSound
<1>9. CASE Identity!UpdateId
  BY <1>9, IdentityUpdateSound
<1>10. CASE Identity!CreateArn \/ Identity!Principal
  BY <1>10, IdentityArnSound
<1>11. CASE Identity!Done
  BY <1>11, IdentityDoneSound
<1>12. CASE Identity!EditConfig \/ Identity!Console
  BY <1>12, IdentityOutsideSound
<1> QED
  BY <1>1, <1>2, <1>3, <1>4, <1>5, <1>6, <1>7, <1>8, <1>9, <1>10, <1>11, <1>12
  DEF Identity!Next, Identity!Terraform

\* What a refresh drops, it did not find.
LEMMA IdentityLoses ==
  ASSUME Identity!IdentityAssumption, IdentitySound, [Identity!Next]_(Identity!vars)
  PROVE  Identity!KnownLoss
<1> SUFFICES ASSUME run.pc = "refresh", remote' = remote,
                    NEW r \in Identity!Resources, saved[r] # NoId, saved'[r] = NoId, quiet
             PROVE  \/ ~Identity!Live(saved[r])
                    \/ (r = "arn" /\ saved.arn \notin remote.principals)
  BY DEF Identity!KnownLoss
<1>0. /\ Identity!TypeOK /\ IdentityShape /\ IdentityInsight
      /\ saved \in Identity!State /\ r \in IdentityKinds
  BY IdentityTypes, IdentityResources DEF IdentitySound
<1>1. CASE Identity!Plan
  <2>1. run.asks = {} /\ run.seen[r] = NoId
    BY <1>1 DEF Identity!Plan
  <2>2. ~IdentitySure(r, saved[r])
    BY <1>0, <2>1 DEF IdentityInsight
  <2> QED
    BY <1>0, <2>2, IdentityStateType DEF IdentitySure
<1>2. CASE ~Identity!Plan
  <2>1. saved' = saved \/ saved' = Identity!AfterError
    BY <1>2
    DEF Identity!Next, Identity!vars, Identity!StartApply, Identity!Terraform,
        Identity!ReadId, Identity!ReadCluster, Identity!ReadArn, Identity!Sees,
        Identity!ReadFails, Identity!DeleteCluster, Identity!DeleteArn, Identity!Destroys,
        Identity!CreateId, Identity!CreateCluster, Identity!Makes, Identity!Token,
        Identity!CreateAccount, Identity!UpdateId, Identity!CreateArn, Identity!Principal,
        Identity!Done, Identity!Refused, Identity!Fails, Identity!Stops, Identity!Killed,
        Identity!EditConfig, Identity!Console
  <2>2. Identity!AfterError[r] = saved[r]
    BY <1>0 DEF Identity!AfterError, Identity!State, IdentityKinds
  <2> QED
    BY <2>1, <2>2
<1> QED
  BY <1>1, <1>2

\* The inductive invariant.
THEOREM IdentityInvariant ==
  ASSUME Identity!IdentityAssumption
  PROVE  Identity!Spec => []IdentitySound
<1>1. Identity!Init => IdentitySound
  BY IdentityInit
<1>2. IdentitySound /\ [Identity!Next]_(Identity!vars) => IdentitySound'
  BY IdentityStep
<1> QED
  BY <1>1, <1>2, PTL DEF Identity!Spec

\* Type correctness of the resources that stand on one cluster.
THEOREM IdentityTyping ==
  ASSUME Identity!IdentityAssumption
  PROVE  Identity!Spec => []Identity!TypeOK
<1>1. IdentitySound => Identity!TypeOK
  BY DEF IdentitySound
<1> QED
  BY <1>1, IdentityInvariant, PTL

\* An undisturbed apply that ends without an error, no resource having been
\* destroyed with its cluster, leaves them all on the cluster that is registered.
THEOREM IdentitySuccess ==
  ASSUME Identity!IdentityAssumption
  PROVE  Identity!Spec => []Identity!SuccessIsReal
<1>1. IdentitySound => Identity!SuccessIsReal
  BY DEF IdentitySound
<1> QED
  BY <1>1, IdentityInvariant, PTL

\* A refresh that runs undisturbed drops a cluster, its ID or its principal from
\* the state only if it has gone.
THEOREM IdentityLosses ==
  ASSUME Identity!IdentityAssumption
  PROVE  Identity!Spec => Identity!OnlyKnownLosses
<1>1. IdentitySound /\ [Identity!Next]_(Identity!vars) => [Identity!KnownLoss]_(Identity!vars)
  BY IdentityLoses
<1> QED
  BY <1>1, IdentityInvariant, PTL DEF Identity!Spec, Identity!OnlyKnownLosses

-----------------------------------------------------------------------------
(* What is reached stays reached *)

\* What has been read is what the state has.
IdentitySeen(seen) ==
  /\ \A r \in Identity!Resources : seen[r] = saved[r]
  /\ ~seen.tainted
  /\ remote.kind = "gke" /\ "id" \in want.resources => seen.account = want.account

LEMMA IdentityReachedStays ==
  ASSUME Identity!Reached, UNCHANGED <<remote, want>>,
         \A r \in Identity!Resources : saved'[r] = saved[r], saved'.arn = saved'["arn"],
         saved.arn = saved["arn"], ~saved'.tainted,
         remote.kind = "gke" /\ "id" \in want.resources => saved'.account = want.account
  PROVE  Identity!Reached'
<1>1. Identity!Resources' = Identity!Resources
  BY DEF Identity!Resources
<1>2. Identity!Together'
  BY <1>1 DEF Identity!Reached, Identity!Together, Identity!Live
<1> QED
  BY <1>2 DEF Identity!Reached

\* What a refresh of what is reached has read is what the state has.
LEMMA IdentityRereads ==
  ASSUME Identity!IdentityAssumption, IdentitySound, Identity!Reached, run.pc = "refresh",
         IdentitySeen(run.seen), NEW r \in Identity!Resources, r \in run.asks,
         NEW seen \in Identity!State, Identity!Sees(r, seen), IdentitySeen(seen)
  PROVE  Identity!AtRest'
<1>1. /\ run' = [run EXCEPT !.asks = @ \ {r}, !.seen = seen]
      /\ UNCHANGED <<remote, want, saved>>
  BY DEF Identity!Sees
<1>2. run \in IdentityRuns /\ saved \in Identity!State
  BY IdentityTypes DEF IdentitySound
<1>3. run'.pc = "refresh" /\ run'.seen = seen
  BY <1>1, <1>2 DEF IdentityRuns
<1>4. Identity!Resources' = Identity!Resources
  BY <1>1 DEF Identity!Resources
<1>5. Identity!Reached'
  BY <1>1, <1>2, IdentityStateType, IdentityReachedStays DEF Identity!Reached
<1> QED
  BY <1>1, <1>3, <1>4, <1>5 DEF Identity!AtRest, IdentitySeen

\* A run of what is reached finds every resource where it was and plans nothing.
LEMMA IdentityRests ==
  ASSUME Identity!IdentityAssumption, IdentitySound, Identity!AtRest,
         [Identity!Next]_(Identity!vars), trouble' = trouble
  PROVE  Identity!AtRest'
<1>0. /\ Identity!TypeOK /\ IdentityShape
      /\ remote \in IdentityRemotes /\ saved \in Identity!State /\ run \in IdentityRuns
      /\ run.seen \in Identity!State /\ want \in IdentityWants
      /\ want.resources \subseteq Identity!Resources
      /\ run.asks \subseteq Identity!Resources /\ NoId \notin ClusterIds
  BY IdentityTypes
  DEF IdentitySound, IdentityRuns, IdentityWants, Identity!IdentityAssumption
<1>1. ~Identity!Trouble
  BY <1>0 DEF Identity!Trouble, Identity!TypeOK, Identity!IdentityAssumption
<1>2. Identity!Reached /\ run.pc \in Identity!Ended \cup {"refresh", "apply"}
  BY DEF Identity!AtRest
<1>3. /\ run.pc = "refresh" => IdentitySeen(run.seen)
      /\ run.pc = "apply" => run.removes = {} /\ run.makes = {}
  BY DEF Identity!AtRest, Identity!Ended, IdentitySeen
<1>4. /\ \A r \in want.resources : Identity!Live(saved[r])
      /\ \A r \in Identity!Resources : r \notin want.resources => saved[r] = NoId
      /\ "arn" \in want.resources => saved.arn \in remote.principals
      /\ ~saved.tainted
      /\ remote.kind = "gke" /\ "id" \in want.resources =>
           want.account = saved.account /\ want.account = remote.account
  BY <1>0, <1>2 DEF Identity!Reached, Identity!Together
<1>5. /\ saved["id"] = saved.id /\ saved["arn"] = saved.arn /\ saved["cluster"] = saved.cluster
      /\ run.seen["id"] = run.seen.id /\ run.seen["arn"] = run.seen.arn
      /\ "id" \in Identity!Resources
  BY <1>0, IdentityStateType, IdentityResources
<1>6. "arn" \in want.resources => "id" \in want.resources
  BY <1>0 DEF IdentityShape, Identity!Configured
<1>7. ASSUME run'.pc \in Identity!Ended, UNCHANGED <<remote, want, saved>>
      PROVE  Identity!AtRest'
  <2>1. Identity!Reached'
    BY <1>2, <1>4, <1>5, <1>7, IdentityReachedStays
  <2> QED
    BY <1>7, <2>1 DEF Identity!AtRest
<1>8. CASE Identity!StartApply
  <2> DEFINE asks == {r \in Identity!Resources : saved[r] # NoId}
  <2>1. run' = Identity!Run("refresh", asks, saved) /\ UNCHANGED <<remote, want, saved>>
    BY <1>8 DEF Identity!StartApply
  <2> HIDE DEF asks
  <2>2. run'.pc = "refresh" /\ run'.seen = saved
    BY <2>1 DEF Identity!Run
  <2>3. Identity!Reached'
    BY <1>2, <1>4, <1>5, <2>1, IdentityReachedStays
  <2> QED
    BY <1>4, <2>1, <2>2, <2>3 DEF Identity!AtRest
<1>9. CASE Identity!ReadId
  <2>1. /\ run.pc = "refresh" /\ "id" \in run.asks /\ run.seen["id"] = saved["id"]
        /\ saved["id"] # NoId \/ run.seen["id"] = NoId
    BY <1>0, <1>9 DEF Identity!ReadId, Identity!Read, IdentityShape
  <2> DEFINE gone == [Identity!Gone("id") EXCEPT !.tainted = FALSE]
             here == [run.seen EXCEPT !.account = remote.account]
  <2>2. /\ gone \in Identity!State /\ gone["id"] = NoId /\ gone.tainted = FALSE
        /\ gone.account = run.seen.account
        /\ \A q \in IdentityKinds : q # "id" => gone[q] = run.seen[q]
    BY <1>0 DEF Identity!Gone, Identity!State, IdentityKinds
  <2>3. /\ here \in Identity!State /\ here.tainted = run.seen.tainted
        /\ here.account = remote.account
        /\ \A q \in IdentityKinds : here[q] = run.seen[q]
    BY <1>0 DEF Identity!State, IdentityKinds, IdentityRemotes
  <2> HIDE DEF gone, here
  <2>4. CASE Identity!Live(saved.id)
    <3>1. Identity!Sees("id", here)
      BY <1>9, <2>4 DEF Identity!ReadId, here
    <3>2. IdentitySeen(here)
      BY <1>3, <1>4, <2>1, <2>3, IdentityResources DEF IdentitySeen
    <3> QED
      BY <1>2, <1>3, <1>5, <2>1, <2>3, <3>1, <3>2, IdentityRereads
  <2>5. CASE ~Identity!Live(saved.id)
    <3>1. Identity!Sees("id", gone)
      BY <1>9, <2>5 DEF Identity!ReadId, gone
    <3>2. "id" \notin want.resources /\ saved["id"] = NoId
      BY <1>4, <1>5, <2>5
    <3>3. IdentitySeen(gone)
      BY <1>3, <2>1, <2>2, <3>2, IdentityResources DEF IdentitySeen
    <3> QED
      BY <1>2, <1>3, <1>5, <2>1, <2>2, <3>1, <3>3, IdentityRereads
  <2> QED
    BY <2>4, <2>5
<1>10. CASE Identity!ReadCluster \/ Identity!ReadArn
  <2> DEFINE Seen(r) == IF IdentitySure(r, saved[r]) THEN run.seen ELSE Identity!Gone(r)
  <2>1. PICK r \in {"cluster", "arn"} : Identity!Read(r) /\ Identity!Sees(r, Seen(r))
    BY <1>5, <1>10 DEF Identity!ReadCluster, Identity!ReadArn, IdentitySure
  <2>2. /\ run.pc = "refresh" /\ r \in run.asks /\ r \in Identity!Resources
    BY <1>0, <2>1 DEF Identity!Read
  <2>3. CASE r \in want.resources
    <3>1. IdentitySure(r, saved[r])
      BY <1>4, <1>5, <2>3 DEF IdentitySure
    <3>2. Seen(r) = run.seen
      BY <3>1
    <3> HIDE DEF Seen
    <3> QED
      BY <1>0, <1>2, <1>3, <2>1, <2>2, <3>2, IdentityRereads
  <2>4. CASE r \notin want.resources
    <3>1. saved[r] = NoId
      BY <1>4, <2>2, <2>4
    <3>2. run.seen[r] = NoId
      BY <1>3, <2>2, <3>1 DEF IdentitySeen
    <3>3. /\ Identity!Gone(r) \in Identity!State /\ Identity!Gone(r)[r] = NoId
          /\ Identity!Gone(r).tainted = run.seen.tainted
          /\ Identity!Gone(r).account = run.seen.account
          /\ \A q \in IdentityKinds : q # r => Identity!Gone(r)[q] = run.seen[q]
      BY <1>0 DEF Identity!Gone, Identity!State, IdentityKinds
    <3>4. Seen(r) \in Identity!State /\ IdentitySeen(Seen(r))
      BY <1>0, <1>3, <2>2, <3>1, <3>3, IdentityResources DEF IdentitySeen
    <3> HIDE DEF Seen
    <3> QED
      BY <1>2, <1>3, <2>1, <2>2, <3>4, IdentityRereads
  <2> QED
    BY <2>3, <2>4
<1>11. CASE Identity!ReadFails
  <2>1. run'.pc = "failed" /\ UNCHANGED <<remote, want, saved>>
    BY <1>11 DEF Identity!ReadFails, Identity!Run
  <2> QED
    BY <1>7, <2>1 DEF Identity!Ended
<1>12. CASE Identity!Plan
  <2> DEFINE seen == run.seen
             has == {r \in Identity!Resources : seen[r] # NoId}
             replaced == {r \in has \cap want.resources :
                            \/ r = "id" /\ seen.tainted
                            \/ r = "arn" /\ Identity!Outdated(seen)}
             drift == IF "id" \in (has \cap want.resources) \ replaced
                           /\ remote.kind = "gke" /\ seen.account # want.account
                      THEN {"account"} ELSE {}
             begun == Identity!Run("apply", {}, Identity!NotSaved)
  <2>1. /\ run.pc = "refresh" /\ saved' = seen /\ UNCHANGED <<remote, want>>
        /\ run' = [begun EXCEPT !.removes = (has \ want.resources) \cup replaced,
                                !.makes = (want.resources \ has) \cup replaced \cup drift]
    BY <1>12 DEF Identity!Plan
  <2>2. IdentitySeen(seen)
    BY <1>3, <2>1
  <2>3. has = want.resources
    BY <1>0, <1>4, <2>2 DEF IdentitySeen, Identity!Live
  <2>4. "arn" \in want.resources => seen.arn = seen.id
    BY <1>0, <1>4, <1>5, <1>6, <2>2 DEF IdentitySeen, Identity!Live
  <2>5. replaced = {}
    BY <2>2, <2>4 DEF IdentitySeen, Identity!Outdated
  <2>6. drift = {}
    BY <2>2 DEF IdentitySeen
  <2> HIDE DEF has, replaced, drift
  <2>7. (has \ want.resources) \cup replaced = {}
        /\ (want.resources \ has) \cup replaced \cup drift = {}
    BY <2>3, <2>5, <2>6
  <2>8. run'.pc = "apply" /\ run'.removes = {} /\ run'.makes = {}
    BY <2>1, <2>7 DEF Identity!Run
  <2>9. Identity!Reached'
    BY <1>2, <1>5, <2>1, <2>2, IdentityReachedStays DEF IdentitySeen
  <2> QED
    BY <2>8, <2>9 DEF Identity!AtRest
<1>13. CASE Identity!Done
  <2>1. run'.pc = "done" /\ UNCHANGED <<remote, want, saved>>
    BY <1>0, <1>13 DEF Identity!Done, IdentityRuns
  <2> QED
    BY <1>7, <2>1 DEF Identity!Ended
<1>14. CASE UNCHANGED Identity!vars
  <2>1. UNCHANGED <<remote, want, saved, run>>
    BY <1>14 DEF Identity!vars
  <2>2. Identity!Reached'
    BY <1>2, <1>4, <1>5, <2>1, IdentityReachedStays
  <2>3. Identity!Resources' = Identity!Resources
    BY <2>1 DEF Identity!Resources
  <2> QED
    BY <2>1, <2>2, <2>3 DEF Identity!AtRest
<1>15. ASSUME Identity!Next
       PROVE  \/ Identity!StartApply \/ Identity!ReadId \/ Identity!ReadCluster
              \/ Identity!ReadArn \/ Identity!ReadFails \/ Identity!Plan \/ Identity!Done
  <2>1. run.pc \notin {"token", "account", "principal"}
    BY <1>2 DEF Identity!Ended
  <2>2. \A r : ~Identity!Destroys(r) /\ ~Identity!Makes(r)
    BY <1>3 DEF Identity!Destroys, Identity!Makes
  <2> QED
    BY <1>1, <1>15, <2>1, <2>2
    DEF Identity!Next, Identity!Terraform, Identity!DeleteCluster, Identity!DeleteArn,
        Identity!CreateId, Identity!Token, Identity!CreateAccount, Identity!UpdateId,
        Identity!CreateArn, Identity!Principal, Identity!CreateCluster, Identity!Refused,
        Identity!Stops, Identity!Killed, Identity!EditConfig, Identity!Console
<1> QED
  BY <1>8, <1>9, <1>10, <1>11, <1>12, <1>13, <1>14, <1>15

-----------------------------------------------------------------------------
(* All of them: a step is one of the component's own specification *)

Sound ==
  /\ Is("policy") => PolicySound
  /\ Is("job") => JobSound
  /\ Is("template") => TemplateSound
  /\ Is("matching") => MatchSound
  /\ Is("commitments") => UpsertSound
  /\ Is("setting") => SettingSound
  /\ Is("secret") => SecretSound
  /\ Is("group") => GroupSound
  /\ Is("identity") => IdentitySound

LEMMA OwnInit ==
  ASSUME Init
  PROVE  /\ Is("policy") => Policy!Init
         /\ Is("job") => Job!Init
         /\ Is("template") => Template!Init
         /\ Is("matching") => Matching!Init
         /\ Is("commitments") => Commitments!Init
         /\ Is("setting") => Setting!Init
         /\ Is("secret") => Secret!Init
         /\ Is("group") => Enterprise!Init
         /\ Is("identity") => Identity!Init
BY DEF Init, Is

LEMMA OwnNext ==
  ASSUME Next
  PROVE  /\ component' = component
         /\ Is("policy") => Policy!Next
         /\ Is("job") => Job!Next
         /\ Is("template") => Template!Next
         /\ Is("matching") => Matching!Next
         /\ Is("commitments") => Commitments!Next
         /\ Is("setting") => Setting!Next
         /\ Is("secret") => Secret!Next
         /\ Is("group") => Enterprise!Next
         /\ Is("identity") => Identity!Next
BY DEF Next, Is

LEMMA OwnStep ==
  ASSUME [Next]_vars
  PROVE  /\ component' = component
         /\ Is("policy") => [Policy!Next]_(Policy!vars)
         /\ Is("job") => [Job!Next]_(Job!vars)
         /\ Is("template") => [Template!Next]_(Template!vars)
         /\ Is("matching") => [Matching!Next]_(Matching!vars)
         /\ Is("commitments") => [Commitments!Next]_(Commitments!vars)
         /\ Is("setting") => [Setting!Next]_(Setting!vars)
         /\ Is("secret") => [Secret!Next]_(Secret!vars)
         /\ Is("group") => [Enterprise!Next]_(Enterprise!vars)
         /\ Is("identity") => [Identity!Next]_(Identity!vars)
<1>1. CASE Next
  BY <1>1, OwnNext
<1>2. CASE UNCHANGED vars
  BY <1>2
  DEF vars, Policy!vars, Job!vars, Template!vars, Matching!vars, Commitments!vars,
      Setting!vars, Secret!vars, Enterprise!vars, Identity!vars
<1> QED
  BY <1>1, <1>2

LEMMA InitSound == ASSUME SideBySideAssumption, Init PROVE Sound
BY OwnInit, PolicyInitSound, JobInit, TemplateInit, MatchInitSound, UpsertInit,
  SettingInitSound, SecretInit, GroupInit, IdentityInit
DEF Sound, SideBySideAssumption

LEMMA NextSound ==
  ASSUME SideBySideAssumption, Sound, [Next]_vars
  PROVE  Sound'
<1>1. component' = component
  BY OwnStep
<1>2. Is("policy") => PolicySound'
  BY OwnStep, PolicyNextSound DEF Sound, SideBySideAssumption
<1>3. Is("job") => JobSound'
  BY OwnStep, JobStep DEF Sound, SideBySideAssumption
<1>4. Is("template") => TemplateSound'
  BY OwnStep, TemplateStep DEF Sound, SideBySideAssumption
<1>5. Is("matching") => MatchSound'
  BY OwnStep, MatchNextSound DEF Sound, SideBySideAssumption
<1>6. Is("commitments") => UpsertSound'
  BY OwnStep, UpsertStep DEF Sound, SideBySideAssumption
<1>7. Is("setting") => SettingSound'
  BY OwnStep, SettingNextSound DEF Sound, SideBySideAssumption
<1>8. Is("secret") => SecretSound'
  BY OwnStep, SecretStep DEF Sound, SideBySideAssumption
<1>9. Is("group") => GroupSound'
  BY OwnStep, GroupStep DEF Sound, SideBySideAssumption
<1>10. Is("identity") => IdentitySound'
  BY OwnStep, IdentityStep DEF Sound, SideBySideAssumption
<1> QED
  BY <1>1, <1>2, <1>3, <1>4, <1>5, <1>6, <1>7, <1>8, <1>9, <1>10 DEF Sound, Is

LEMMA AlwaysSound == ASSUME SideBySideAssumption PROVE Spec => []Sound
<1>1. Init => Sound
  BY InitSound
<1>2. Sound /\ [Next]_vars => Sound'
  BY NextSound
<1> QED
  BY <1>1, <1>2, PTL DEF Spec

\* Type correctness of every component.
THEOREM Typing == ASSUME SideBySideAssumption PROVE Spec => []TypeOK
<1>1. Sound => TypeOK
  BY DEF Sound, TypeOK, PolicySound, JobSound, TemplateSound, MatchSound, UpsertSound,
         SettingSound, SecretSound, GroupSound, IdentitySound
<1> QED
  BY <1>1, AlwaysSound, PTL

\* Whichever the component, an undisturbed apply that succeeds leaves what is
\* configured, at CAST AI and in the state, whatever attempts, runs and
\* interventions came before it.
THEOREM Success == ASSUME SideBySideAssumption PROVE Spec => []SuccessIsReal
<1>1. Sound => SuccessIsReal
  <2>1. SettingSound => Setting!SuccessIsReal
    BY DEF SettingSound, SettingGood, SettingReal, Setting!SuccessIsReal
  <2> QED
    BY <2>1
    DEF Sound, SuccessIsReal, PolicySound, JobSound, TemplateSound, UpsertSound,
        GroupSound, IdentitySound
<1> QED
  BY <1>1, AlwaysSound, PTL

\* The rebalancing job resource makes no second job for a cluster and schedule.
THEOREM OneJobForEach == ASSUME SideBySideAssumption PROVE Spec => []OneJobEach
<1>1. Sound => OneJobEach
  BY DEF Sound, OneJobEach, JobSound
<1> QED
  BY <1>1, AlwaysSound, PTL

\* The mapping of configurations resolves exactly what can be resolved.
THEOREM MatchesRightly == ASSUME SideBySideAssumption PROVE Spec => []MatchIsRight
<1>1. Sound => MatchIsRight
  BY SoundIsRight DEF Sound, MatchIsRight, SideBySideAssumption
<1> QED
  BY <1>1, AlwaysSound, PTL

\* Policies and commitments of others are touched only where they are adopted.
THEOREM OthersUntouched == ASSUME SideBySideAssumption PROVE Spec => OthersLeftAlone
<1>1. Sound /\ [Next]_vars =>
        [/\ Is("policy") => Policy!LeavesOthers
         /\ Is("commitments") => Commitments!LeavesOthers]_vars
  <2> SUFFICES ASSUME Sound, Next
               PROVE  /\ Is("policy") => Policy!LeavesOthers
                      /\ Is("commitments") => Commitments!LeavesOthers
    OBVIOUS
  <2>1. Is("policy") => Policy!LeavesOthers
    BY OwnNext, PolicyTerraformCareful
    DEF Sound, SideBySideAssumption, Policy!LeavesOthers, PolicyCareful
  <2>2. Is("commitments") => Commitments!LeavesOthers
    BY OwnNext, UpsertLeaves DEF Sound, SideBySideAssumption
  <2> QED
    BY <2>1, <2>2
<1> QED
  BY <1>1, AlwaysSound, PTL DEF Spec, OthersLeftAlone

\* What the state knows of something that is there, an ID or a token, it loses
\* in the named cases only.
THEOREM NothingElseLost == ASSUME SideBySideAssumption PROVE Spec => OnlyKnownLosses
<1>1. Sound /\ [Next]_vars =>
        [/\ Is("policy") => Policy!KnownLoss
         /\ Is("job") => Job!KnownLoss
         /\ Is("template") => Template!KnownLoss
         /\ Is("secret") => Secret!KnownLoss
         /\ Is("identity") => Identity!KnownLoss]_vars
  <2> SUFFICES ASSUME Sound, Next
               PROVE  /\ Is("policy") => Policy!KnownLoss
                      /\ Is("job") => Job!KnownLoss
                      /\ Is("template") => Template!KnownLoss
                      /\ Is("secret") => Secret!KnownLoss
                      /\ Is("identity") => Identity!KnownLoss
    OBVIOUS
  <2>1. Is("policy") => Policy!KnownLoss
    BY OwnNext, PolicyCreateKeepsId DEF Sound, SideBySideAssumption
  <2>2. Is("job") => Job!KnownLoss
    BY OwnNext, JobLoss DEF Sound, SideBySideAssumption
  <2>3. Is("template") => Template!KnownLoss
    BY OwnNext, TemplateLoss DEF Sound, SideBySideAssumption
  <2>4. Is("secret") => Secret!KnownLoss
    BY OwnNext, SecretLoss DEF Sound, SideBySideAssumption
  <2>5. Is("identity") => Identity!KnownLoss
    BY OwnNext, IdentityLoses DEF Sound, SideBySideAssumption
  <2> QED
    BY <2>1, <2>2, <2>3, <2>4, <2>5
<1> QED
  BY <1>1, AlwaysSound, PTL DEF Spec, OnlyKnownLosses

\* What is configured and reached stays reached, and no run has begun to change
\* anything, as long as there are no faults, no edits and no console.
THEOREM RestLasts == ASSUME SideBySideAssumption PROVE Spec => StaysReached
<1>1. Sound /\ [Next]_vars => [AtRest /\ trouble' = trouble => AtRest']_vars
  <2> SUFFICES ASSUME Sound, Next, AtRest, trouble' = trouble
               PROVE  AtRest'
    OBVIOUS
  <2>1. component' = component
    BY OwnNext
  <2>2. Is("policy") => Policy!AtRest'
    BY OwnNext, PolicyRests DEF Sound, PolicySound, AtRest, SideBySideAssumption
  <2>3. Is("job") => Job!AtRest'
    BY OwnNext, JobRests DEF Sound, JobSound, AtRest, SideBySideAssumption
  <2>4. Is("template") => Template!AtRest'
    BY OwnNext, TemplateRests DEF Sound, TemplateSound, AtRest, SideBySideAssumption
  <2>5. Is("commitments") => Commitments!AtRest'
    BY OwnNext, UpsertRests DEF Sound, UpsertSound, AtRest, SideBySideAssumption
  <2>6. Is("setting") => Setting!AtRest'
    BY OwnNext, SettingRests DEF Sound, SettingSound, AtRest, SideBySideAssumption
  <2>7. Is("secret") => Secret!AtRest'
    BY OwnNext, SecretRests DEF Sound, SecretSound, AtRest, SideBySideAssumption
  <2>8. Is("group") => Enterprise!AtRest'
    BY OwnNext, GroupRests DEF Sound, GroupSound, AtRest, SideBySideAssumption
  <2>9. Is("identity") => Identity!AtRest'
    BY OwnNext, IdentityRests DEF Sound, AtRest, SideBySideAssumption
  <2> QED
    BY <2>1, <2>2, <2>3, <2>4, <2>5, <2>6, <2>7, <2>8, <2>9 DEF AtRest, Is
<1> QED
  BY <1>1, AlwaysSound, PTL DEF Spec, StaysReached
=============================================================================
