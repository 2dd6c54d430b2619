--------------------------- MODULE ScalingPolicy ---------------------------
(***************************************************************************)
(* castai_workload_scaling_policy                                          *)
(* (castai/resource_workload_scaling_policy.go) in one cluster.  A create  *)
(* is a POST that is not idempotent, in a loop that retries with backoff   *)
(* until the deadline of the operation; a name that is taken is adopted if *)
(* it is the default policy's, else refused.                               *)
(*                                                                         *)
(* CAST AI gives a name to one policy only (the 409 the create looks at).  *)
(***************************************************************************)
EXTENDS Naturals

CONSTANTS
  Ids, Names, Settings,
  NoId,        \* no policy: the ID is empty
  NoPolicy,    \* nothing has this ID
  Absent,      \* the resource is not in the configuration
  MaxTrouble   \* bound on the faults, interventions and edits

Values == [name: Names, settings: Settings]
Policies ==
  [name: Names, settings: Settings,
   kind: {"plain", "readonly", "default"}, owner: {"us", "them"}]

\* What the parameters have to be.
PolicyAssumption ==
  /\ NoId \notin Ids
  /\ NoPolicy \notin Policies
  /\ Absent \notin Values
  /\ MaxTrouble \in Nat

VARIABLES
  remote,    \* the policies of the cluster at CAST AI
  want,      \* the configuration: name and settings
  saved,     \* the Terraform state
  run,       \* what Terraform is doing
  quiet,     \* since the run began nobody else has changed anything
  trouble    \* how much trouble is still to come

vars == <<remote, want, saved, run, quiet, trouble>>

-----------------------------------------------------------------------------
(* State *)

NotSaved == [id |-> NoId, tainted |-> FALSE, values |-> Absent]
Saved(id, tainted, values) == [id |-> id, tainted |-> tainted, values |-> values]

\* "assumed" is a create that the deadline ended in its first attempt.
Ended == {"idle", "done", "assumed", "failed", "killed"}
Creating == {"post", "find", "adopt", "fetch"}
Working == {"read", "plan", "put", "reread", "look", "delete"}

\* The call that is next, the operation, the ID it works on, and whether an
\* attempt has failed already (lastErr).
Run(pc, op, id, retried) == [pc |-> pc, op |-> op, id |-> id, retried |-> retried]

Goes(pc) == run' = [run EXCEPT !.pc = pc]
Starts(pc, op, id) == run' = Run(pc, op, id, FALSE)
Retries == run' = [run EXCEPT !.pc = "post", !.retried = TRUE]

TypeOK ==
  /\ remote \in [Ids -> Policies \cup {NoPolicy}]
  /\ want \in Values \cup {Absent}
  /\ saved \in {NotSaved} \cup [id: Ids, tainted: BOOLEAN, values: Values]
  /\ run \in [pc: Ended \cup Creating \cup Working,
              op: {"none", "create", "update", "delete"},
              id: Ids \cup {NoId}, retried: BOOLEAN]
  /\ quiet \in BOOLEAN
  /\ trouble \in 0..MaxTrouble

Exists(id) == id \in Ids /\ remote[id] # NoPolicy
Shown(id) == [name |-> remote[id].name, settings |-> remote[id].settings]
Named(name) == {id \in Ids : Exists(id) /\ remote[id].name = name}

\* The ID CAST AI gives next: one that was never used is as good as another.
Fresh == {id \in Ids : ~Exists(id) /\ id # saved.id /\ id # run.id}
NewId == CHOOSE id \in Fresh : TRUE

\* A cluster comes with policies of CAST AI's own: its default, or one that
\* cannot be changed by users.
Init ==
  /\ \E id \in Ids, kind \in {"default", "readonly"}, v \in Values :
       remote = [i \in Ids |-> IF i = id
                   THEN [name |-> v.name, settings |-> v.settings,
                         kind |-> kind, owner |-> "them"]
                   ELSE NoPolicy]
  /\ want \in Values
  /\ saved = NotSaved
  /\ run = Run("idle", "none", NoId, FALSE)
  /\ quiet = TRUE
  /\ trouble = MaxTrouble

Trouble ==
  /\ trouble > 0
  /\ trouble' = trouble - 1

-----------------------------------------------------------------------------
(* What the calls do at CAST AI *)

With(id, values, kind, owner) ==
  [remote EXCEPT ![id] = [name |-> values.name, settings |-> values.settings,
                          kind |-> kind, owner |-> owner]]

PostAccepted == Named(want.name) = {}
PutAccepted == Exists(run.id) /\ Named(want.name) \subseteq {run.id}

\* Mutant: the update request of an adopted policy is not sent.
Put_Skipped ==
  /\ run.pc \in {"adopt", "put"}
  /\ PutAccepted
  /\ remote' = IF run.op = "create" THEN remote
               ELSE With(run.id, want, remote[run.id].kind, "us")

Put ==
  /\ run.pc \in {"adopt", "put"}
  /\ PutAccepted
  /\ remote' = With(run.id, want, remote[run.id].kind, "us")

Post ==
  /\ run.pc = "post"
  /\ PostAccepted
  /\ Fresh # {}
  /\ remote' = With(NewId, want, "plain", "us")

Delete ==
  /\ run.pc = "delete"
  /\ Exists(run.id)
  /\ remote' = [remote EXCEPT ![run.id] = NoPolicy]

\* A call whose answer does not arrive: carried out or not.
MaybeCarriedOut ==
  \/ UNCHANGED remote
  \/ Put
  \/ Post
  \/ Delete

-----------------------------------------------------------------------------
(* Create: the loop *)

PostCreated ==
  /\ Post
  /\ run' = [run EXCEPT !.pc = "fetch", !.id = NewId]
  /\ UNCHANGED <<want, saved, quiet, trouble>>

PostConflict ==
  /\ run.pc = "post"
  /\ ~PostAccepted
  /\ Goes("find")
  /\ UNCHANGED <<remote, want, saved, quiet, trouble>>

\* Mutant: whatever policy has the name is adopted.
Adoptable_Any(id) == TRUE

\* Mutant: no policy is recognised as the default one.
Adoptable_Never(id) == FALSE

Adoptable(id) == remote[id].kind = "default"

\* Mutant: the ID is set last, so that an error leaves nothing in the state.
AfterCreateError_Nothing == NotSaved

\* SDKv2 saves a resource whose create failed after SetId as tainted.
AfterCreateError ==
  IF run.id = NoId THEN NotSaved ELSE Saved(run.id, TRUE, want)

CreateFails ==
  /\ saved' = AfterCreateError
  /\ Goes("failed")

\* "scaling policy with name %q already exists"
NameIsTaken ==
  /\ run.pc = "find"
  /\ \E id \in Named(want.name) : ~Adoptable(id)
  /\ CreateFails
  /\ UNCHANGED <<remote, want, quiet, trouble>>

FindDefault ==
  /\ run.pc = "find"
  /\ \E id \in Named(want.name) :
       /\ Adoptable(id)
       /\ run' = [run EXCEPT !.pc = "adopt", !.id = id]
  /\ UNCHANGED <<remote, want, saved, quiet, trouble>>

\* The policy that had the name has gone.
FindNothing ==
  /\ run.pc = "find"
  /\ Named(want.name) = {}
  /\ Retries
  /\ UNCHANGED <<remote, want, saved, quiet, trouble>>

Adopt ==
  /\ run.pc = "adopt"
  /\ Put
  /\ Goes("fetch")
  /\ UNCHANGED <<want, saved, quiet, trouble>>

AdoptRejected ==
  /\ run.pc = "adopt"
  /\ ~PutAccepted
  /\ Retries
  /\ UNCHANGED <<remote, want, saved, quiet, trouble>>

Fetch ==
  /\ run.pc = "fetch"
  /\ Exists(run.id)
  /\ saved' = Saved(run.id, FALSE, Shown(run.id))
  /\ Goes("done")
  /\ UNCHANGED <<remote, want, quiet, trouble>>

\* A 404 is an answer to retry on, the resource being new.
FetchMissing ==
  /\ run.pc = "fetch"
  /\ ~Exists(run.id)
  /\ Retries
  /\ UNCHANGED <<remote, want, saved, quiet, trouble>>

\* An attempt fails in a way that is retried: no answer, status 429 or 5xx.
AttemptFails ==
  /\ run.pc \in Creating
  /\ Trouble
  /\ MaybeCarriedOut
  /\ Retries
  /\ UNCHANGED <<want, saved, quiet>>

\* Status 400, 401 or 403.
AttemptRefused ==
  /\ run.pc \in Creating
  /\ Trouble
  /\ CreateFails
  /\ UNCHANGED <<remote, want, quiet>>

\* The deadline of the create.  What is returned is the error of the attempt
\* before; in the first attempt that is nil, which is no error, and what SDKv2
\* saves is the planned values if there is an ID, else nothing.
CutOff ==
  /\ run.pc \in Creating
  /\ Trouble
  /\ MaybeCarriedOut
  /\ IF run.retried THEN CreateFails
     ELSE /\ saved' = IF run.id = NoId THEN NotSaved ELSE Saved(run.id, FALSE, want)
          /\ Goes(IF run.id = NoId THEN "failed" ELSE "assumed")
  /\ UNCHANGED <<want, quiet>>

-----------------------------------------------------------------------------
(* Refresh, plan, update, delete *)

StartApply ==
  /\ run.pc \in Ended
  /\ IF saved.id # NoId THEN Starts("read", "none", saved.id)
     ELSE IF want # Absent THEN Starts("post", "create", NoId)
     ELSE Starts("done", "none", NoId)
  /\ quiet' = TRUE
  /\ UNCHANGED <<remote, want, saved, trouble>>

\* Read removes a policy from the state that is not there any more.
Read ==
  /\ run.pc = "read"
  /\ IF Exists(run.id)
     THEN saved' = [saved EXCEPT !.values = Shown(run.id)] /\ Goes("plan")
     ELSE /\ saved' = NotSaved
          /\ IF want = Absent THEN Goes("done") ELSE Starts("post", "create", NoId)
  /\ UNCHANGED <<remote, want, quiet, trouble>>

Plan ==
  /\ run.pc = "plan"
  /\ IF want = Absent \/ saved.tainted THEN Starts("look", "delete", saved.id)
     ELSE IF saved.values = want THEN Goes("done")
     ELSE Starts("put", "update", saved.id)
  /\ UNCHANGED <<remote, want, saved, quiet, trouble>>

Update ==
  /\ run.pc = "put"
  /\ Put
  /\ Goes("reread")
  /\ UNCHANGED <<want, saved, quiet, trouble>>

UpdateRejected ==
  /\ run.pc = "put"
  /\ ~PutAccepted
  /\ saved' = [saved EXCEPT !.values = want]
  /\ Goes("failed")
  /\ UNCHANGED <<remote, want, quiet, trouble>>

\* Terraform takes an update that forgets the resource for a failure, and keeps
\* what it had.
Reread ==
  /\ run.pc = "reread"
  /\ IF Exists(run.id)
     THEN saved' = Saved(run.id, FALSE, Shown(run.id)) /\ Goes("done")
     ELSE UNCHANGED saved /\ Goes("failed")
  /\ UNCHANGED <<remote, want, quiet, trouble>>

\* A resource that is destroyed to be replaced is created next.
Deleted ==
  /\ saved' = NotSaved
  /\ IF want = Absent THEN Goes("done") ELSE Starts("post", "create", NoId)

\* "Default/readonly scaling policy can't be deleted, removing from state"
LeaveAlone ==
  /\ run.pc = "look"
  /\ Exists(run.id) => remote[run.id].kind # "plain"
  /\ Deleted
  /\ UNCHANGED <<remote, want, quiet, trouble>>

Look ==
  /\ run.pc = "look"
  /\ Exists(run.id)
  /\ remote[run.id].kind = "plain"
  /\ Goes("delete")
  /\ UNCHANGED <<remote, want, saved, quiet, trouble>>

DeleteDone ==
  /\ Delete
  /\ Deleted
  /\ UNCHANGED <<want, quiet, trouble>>

DeleteRefused ==
  /\ run.pc = "delete"
  /\ ~Exists(run.id)
  /\ Goes("failed")
  /\ UNCHANGED <<remote, want, saved, quiet, trouble>>

\* Mutant: the planned values are saved whatever failed.
AfterError_Always == [saved EXCEPT !.values = want]

\* SDKv2 saves the planned values of an update that fails.
AfterError == IF run.op = "update" THEN [saved EXCEPT !.values = want] ELSE saved

OperationFails ==
  /\ run.pc \in Working
  /\ Trouble
  /\ MaybeCarriedOut
  /\ saved' = AfterError
  /\ Goes("failed")
  /\ UNCHANGED <<want, quiet>>

Killed ==
  /\ run.pc \in Creating \cup Working
  /\ Trouble
  /\ MaybeCarriedOut
  /\ Goes("killed")
  /\ UNCHANGED <<want, saved, quiet>>

-----------------------------------------------------------------------------
(* Everybody else *)

\* terraform import by ID, or by name, and the Read that follows it.
Import == \E id \in Ids :
  /\ Trouble
  /\ run.pc \in Ended
  /\ saved.id = NoId
  /\ Exists(id)
  /\ saved' = Saved(id, FALSE, Shown(id))
  /\ remote' = [remote EXCEPT ![id].owner = "us"]
  /\ UNCHANGED <<want, run, quiet>>

EditConfig ==
  /\ Trouble
  /\ run.pc \in Ended
  /\ want' \in (Values \cup {Absent}) \ {want}
  /\ quiet' = FALSE
  /\ UNCHANGED <<remote, saved, run>>

\* In the console: policies are created, changed and deleted.
Console ==
  /\ Trouble
  /\ \/ \E v \in Values :
          /\ Fresh # {}
          /\ Named(v.name) = {}
          /\ remote' = With(NewId, v, "plain", "them")
     \/ \E id \in Ids, v \in Values :
          /\ Exists(id)
          /\ Named(v.name) \subseteq {id}
          /\ remote' = With(id, v, remote[id].kind, remote[id].owner)
     \/ \E id \in Ids :
          /\ Exists(id)
          /\ remote[id].kind = "plain"
          /\ remote' = [remote EXCEPT ![id] = NoPolicy]
  /\ quiet' = FALSE
  /\ UNCHANGED <<want, saved, run>>

-----------------------------------------------------------------------------
Terraform ==
  \/ PostCreated \/ PostConflict \/ NameIsTaken \/ FindDefault \/ FindNothing
  \/ Adopt \/ AdoptRejected \/ Fetch \/ FetchMissing
  \/ Read \/ Plan \/ Update \/ UpdateRejected \/ Reread
  \/ LeaveAlone \/ Look \/ DeleteDone \/ DeleteRefused

Next ==
  \/ StartApply \/ Terraform
  \/ AttemptFails \/ AttemptRefused \/ CutOff \/ OperationFails \/ Killed
  \/ Import \/ EditConfig \/ Console

Spec == Init /\ [][Next]_vars

\* The loop runs on and the user applies again and again.  Faults, edits,
\* imports and the console are not fair.
FairSpec == Spec /\ WF_vars(StartApply) /\ WF_vars(Terraform)

-----------------------------------------------------------------------------
(* Properties *)

\* What a step of Terraform may do to a policy.
LeavesOthers ==
  run' # run => \A id \in Ids :
    remote[id] # NoPolicy /\ remote'[id] # remote[id] =>
      \/ remote[id].owner = "us" /\ remote[id].kind = "plain"
      \/ remote[id].owner = "us" /\ remote'[id] # NoPolicy
      \/ remote[id].kind = "default" /\ remote'[id] # NoPolicy

\* Terraform changes no policy made by others, except the default one, which it
\* adopts, and deletes no policy CAST AI brought: also after attempts that were
\* carried out and not answered, and conflicts with its own earlier attempt.
OthersLeftAlone == [][LeavesOthers]_vars

\* How a create may end that knows an ID.
KnownLoss ==
  run.pc \in Creating /\ run.id # NoId /\ run'.pc \in Ended \ {"killed"} =>
    saved'.id = run.id

\* Whatever happens to a create after CAST AI has told it the ID of a policy,
\* other than the death of the process, this ID is in the state when it ends.
OnlyKnownLosses == [][KnownLoss]_vars

\* An apply that ends without an error, nobody having interfered, leaves the
\* policy at CAST AI as configured and known to the state, however many of its
\* attempts failed; except a create the deadline ended in its first attempt.
SuccessIsReal ==
  run.pc = "done" /\ run.op \in {"create", "update"} /\ quiet =>
    /\ Exists(saved.id)
    /\ Shown(saved.id) = want
    /\ saved = Saved(saved.id, FALSE, want)

Reached ==
  IF want = Absent THEN saved.id = NoId
  ELSE Exists(saved.id) /\ Shown(saved.id) = want /\ saved = Saved(saved.id, FALSE, want)

\* It is reached, and no run has begun to change anything.
AtRest ==
  /\ Reached
  /\ \/ run.pc \in Ended
     \/ want # Absent /\ \E pc \in {"read", "plan"} : run = Run(pc, "none", saved.id, FALSE)

\* Another policy has the configured name: somebody else's, or the one made by
\* an attempt whose answer was lost.
NameTaken == want # Absent /\ \E id \in Named(want.name) :
  id # saved.id /\ (saved.id = NoId => remote[id].kind # "default")

\* Where repeated applies come to rest.
Settled == Reached \/ NameTaken

\* After the trouble, repeated applies reach the configured policy, unless its
\* name is another policy's.
Convergence == <>[]Settled
=============================================================================
