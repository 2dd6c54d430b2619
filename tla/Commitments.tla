---------------------------- MODULE Commitments ----------------------------
(***************************************************************************)
(* castai_commitments (castai/resource_commitments.go): the committed use  *)
(* discounts (GCP) or reservations (Azure) of an organization.  An upsert  *)
(* imports a file, lists what there is now, maps the configurations to it  *)
(* (CommitmentMatching), and updates and assigns one commitment after the  *)
(* other; the ID is set last.                                              *)
(*                                                                         *)
(* A commitment is one of the cloud, with its key; CAST AI keeps what it   *)
(* knows of a commitment that is imported again.  Read does not always     *)
(* show what was sent (ReadAs): it rounds the allowed usage to two         *)
(* decimals, and what a configuration leaves out is sent empty.  The       *)
(* assignments are all there or none; their order is left out.             *)
(***************************************************************************)
EXTENDS CommitmentKeys, FiniteSets

CONSTANTS
  Cloud,          \* the commitments at the cloud provider
  Key,            \* their names, regions and types
  Usages,         \* what a configuration sets: allowed usage, status, ...
  ReadAs,         \* what Read makes of each,
  Imported,       \* and the one of a commitment that was just imported
  Strategies, Default, \* the scaling strategies
  Missing,        \* CAST AI does not have this commitment
  Absent,         \* the resource is not in the configuration
  Configurations, \* the configurations the user goes through
  MaxTrouble      \* bound on the faults, interventions and edits

Commitment == [usage: Usages, strategy: Strategies, assigned: BOOLEAN]
Config == [matcher: Matchers, value: Commitment]

\* What the parameters have to be.
CommitmentsAssumption ==
  /\ Key \in [Cloud -> Keys]
  /\ IsFiniteSet(Cloud)
  /\ Imported \in Usages
  /\ ReadAs \in [Usages -> Usages]
  /\ Default \in Strategies
  /\ Missing \notin Commitment
  /\ \A w \in Configurations :
       /\ w.input \in SUBSET Cloud
       /\ w.mode \in {"OVERWRITE", "APPEND"}
       /\ w.configs \in Seq(Config)
  /\ Absent \notin Configurations
  /\ MaxTrouble \in Nat

VARIABLES
  remote,    \* the cloud provider, and the commitments at CAST AI
  want,      \* the configuration: file, mode, configurations
  saved,     \* the Terraform state
  run,       \* what Terraform is doing
  quiet,     \* since the run began there was no fault and nobody interfered
  trouble    \* how much trouble is still to come

vars == <<remote, want, saved, run, quiet, trouble>>

-----------------------------------------------------------------------------
(* State *)

Lists == [Cloud -> Commitment \cup {Missing}]
Nothing == [c \in Cloud |-> Missing]
Present(list) == {c \in Cloud : list[c] # Missing}

\* What a commitment is that CAST AI did not know.
New == [usage |-> Imported, strategy |-> Default, assigned |-> FALSE]

\* The file and mode are saved with what was read; import leaves them out.
NotSaved == [exists |-> FALSE, tainted |-> FALSE, given |-> Absent, list |-> Nothing]

Ended == {"idle", "done", "failed"}
Steps == {"refresh", "plan", "import", "list", "update", "assign", "read", "delete"}

\* work: the commitments still to be updated, with the values found; at: the
\* one between its two calls.
Run(pc, op, work, at) == [pc |-> pc, op |-> op, work |-> work, at |-> at]
Goes(pc, op) == run' = Run(pc, op, Nothing, {})

TypeOK ==
  /\ remote \in [csp: {"azure", "gcp"}, list: Lists]
  /\ want \in Configurations \cup {Absent}
  /\ saved \in [exists: BOOLEAN, tainted: BOOLEAN,
                given: Configurations \cup {Absent}, list: Lists]
  /\ run \in [pc: Ended \cup Steps, op: {"none", "create", "update", "delete"},
              work: Lists, at: SUBSET Cloud]
  /\ saved.exists \/ saved = NotSaved
  /\ run.at \subseteq Present(run.work) /\ Cardinality(run.at) <= 1
  /\ quiet \in BOOLEAN
  /\ trouble \in 0..MaxTrouble

Init ==
  /\ remote \in [csp: {"azure", "gcp"},
                 list: [Cloud -> {Missing, New}]]
  /\ want \in Configurations
  /\ saved = NotSaved
  /\ run = Run("idle", "none", Nothing, {})
  /\ quiet = TRUE
  /\ trouble = MaxTrouble

Trouble ==
  /\ trouble > 0
  /\ trouble' = trouble - 1

-----------------------------------------------------------------------------
(* The configuration *)

MatchersOf(w) == [i \in DOMAIN w.configs |-> w.configs[i].matcher]
KeysOf(set) == [c \in set |-> Key[c]]

\* The plan maps the configurations to the file and fails if it cannot.
Plannable(w) ==
  /\ Len(w.configs) <= Cardinality(w.input)
  /\ Resolvable(MatchersOf(w), KeysOf(w.input))

\* The configuration of a commitment, if any.
ConfigsOf(w, c) == {w.configs[i].value : i \in
  {j \in DOMAIN w.configs : Matches(w.configs[j].matcher, Key[c])}}

\* The import replaces everything, unless it is one of Azure's in append mode.
Appends(w) == remote.csp = "azure" /\ w.mode = "APPEND"

\* Mutant: the import mode is not looked at.
Import_Overwrites(w) ==
  [c \in Cloud |->
     IF c \notin w.input THEN Missing
     ELSE IF remote.list[c] # Missing THEN remote.list[c] ELSE New]

\* What CAST AI has after an import (external: as the modes are documented).
Import(w) ==
  [c \in Cloud |->
     IF c \notin w.input THEN (IF Appends(w) THEN remote.list[c] ELSE Missing)
     ELSE IF remote.list[c] # Missing THEN remote.list[c] ELSE New]

\* The commitments a configuration is about: those of the file, in append
\* mode, else all.  An imported resource has no file.
Ours(w) == IF w # Absent /\ Appends(w) THEN w.input ELSE Cloud

Listed(w) == [c \in Cloud |-> IF c \in Ours(w) THEN remote.list[c] ELSE Missing]

\* What is read of a list.
Shown(list) ==
  [c \in Cloud |-> IF list[c] = Missing THEN Missing
                   ELSE [list[c] EXCEPT !.usage = ReadAs[@]]]

\* Whether what was read is what is planned.  A commitment without a
\* configuration is planned with the usage it has, the default strategy and no
\* assignments.
AsPlanned(list, w) ==
  /\ Present(list) = w.input
  /\ \A c \in w.input : \A value \in ConfigsOf(w, c) : list[c] = value
  /\ \A c \in w.input : ConfigsOf(w, c) = {} =>
       list[c].strategy = Default /\ ~list[c].assigned

-----------------------------------------------------------------------------
(* What is saved when a call fails *)

\* SDKv2: the planned values of an update; nothing of a create, as the ID is
\* set last, except when the final Read fails.  The planned list is what was
\* read with the configuration on it.
Planned ==
  [c \in Cloud |-> IF c \notin want.input THEN Missing
     ELSE IF ConfigsOf(want, c) # {} THEN CHOOSE v \in ConfigsOf(want, c) : TRUE
     ELSE IF saved.list[c] # Missing THEN [New EXCEPT !.usage = saved.list[c].usage]
     ELSE New]

AfterError ==
  IF run.op = "update"
  THEN [saved EXCEPT !.given = want, !.list = Planned]
  ELSE IF run.op = "create" /\ run.pc = "read"
  THEN [exists |-> TRUE, tainted |-> TRUE, given |-> want, list |-> Planned]
  ELSE saved

Fails ==
  /\ saved' = AfterError
  /\ Goes("failed", "none")

-----------------------------------------------------------------------------
(* Refresh and plan *)

StartApply ==
  /\ run.pc \in Ended
  /\ IF saved.exists THEN Goes("refresh", "none")
     ELSE IF want # Absent THEN Goes("plan", "create")
     ELSE Goes("done", "none")
  /\ quiet' = TRUE
  /\ UNCHANGED <<remote, want, saved, trouble>>

Refresh ==
  /\ run.pc = "refresh"
  /\ saved' = [saved EXCEPT !.list = Shown(Listed(saved.given))]
  /\ Goes("plan", "none")
  /\ UNCHANGED <<remote, want, quiet, trouble>>

Plan ==
  /\ run.pc = "plan"
  /\ IF want = Absent \/ saved.tainted
     THEN run' = Run("delete", "delete", saved.list, {})
     ELSE IF ~Plannable(want) THEN Goes("failed", "none")
     ELSE IF ~saved.exists THEN Goes("import", "create")
     ELSE IF saved.given = want /\ AsPlanned(saved.list, want) THEN Goes("done", "none")
     ELSE Goes("import", "update")
  /\ UNCHANGED <<remote, want, saved, quiet, trouble>>

-----------------------------------------------------------------------------
(* Upsert *)

\* What the calls do at CAST AI.
CallImport ==
  /\ run.pc = "import"
  /\ remote' = [remote EXCEPT !.list = Import(want)]

CallUpdate(c) ==
  /\ run.pc = "update"
  /\ c \in Present(run.work)
  /\ remote.list[c] # Missing
  /\ remote' = [remote EXCEPT !.list[c].usage = run.work[c].usage,
                              !.list[c].strategy = run.work[c].strategy]

CallAssign(c) ==
  /\ run.pc = "assign"
  /\ c \in run.at
  /\ remote.list[c] # Missing
  /\ remote' = [remote EXCEPT !.list[c].assigned = run.work[c].assigned]

CallDelete(c) ==
  /\ run.pc = "delete"
  /\ c \in Present(run.work)
  /\ remote.list[c] # Missing
  /\ remote' = [remote EXCEPT !.list[c] = Missing]

Imports ==
  /\ CallImport
  /\ Goes("list", run.op)
  /\ UNCHANGED <<want, saved, quiet, trouble>>

\* Mutant: the number is asked in append mode too.
CountIsRight_Always ==
  Cardinality(Present(remote.list)) = Cardinality(want.input)

\* "expected %d Azure commitments, got %d": not asked in append mode.
CountIsRight ==
  \/ Appends(want)
  \/ Cardinality(Present(remote.list)) = Cardinality(want.input)

Mappable ==
  CountIsRight /\ Resolvable(MatchersOf(want), KeysOf(Present(Listed(want))))

\* The values listed are written back where the configuration says nothing;
\* the assignments of a commitment without a configuration are removed.
Work ==
  [c \in Cloud |->
     IF Listed(want)[c] = Missing THEN Missing
     ELSE IF ConfigsOf(want, c) # {} THEN CHOOSE v \in ConfigsOf(want, c) : TRUE
     ELSE [remote.list[c] EXCEPT !.assigned = FALSE]]

ListAndMap ==
  /\ run.pc = "list"
  /\ Mappable
  /\ run' = Run("update", run.op, Work, {})
  /\ UNCHANGED <<remote, want, saved, quiet, trouble>>

Update == \E c \in Cloud :
  /\ CallUpdate(c)
  /\ run' = [run EXCEPT !.pc = "assign", !.at = {c}]
  /\ UNCHANGED <<want, saved, quiet, trouble>>

\* Mutant: no call is made for a commitment that is assigned to nothing.
Assign_OnlyNew == \E c \in run.at :
  /\ run.pc = "assign"
  /\ IF run.work[c].assigned THEN CallAssign(c) ELSE UNCHANGED remote
  /\ run' = Run("update", run.op, [run.work EXCEPT ![c] = Missing], {})
  /\ UNCHANGED <<want, saved, quiet, trouble>>

Assign == \E c \in run.at :
  /\ CallAssign(c)
  /\ run' = Run("update", run.op, [run.work EXCEPT ![c] = Missing], {})
  /\ UNCHANGED <<want, saved, quiet, trouble>>

Upserted ==
  /\ run.pc = "update"
  /\ run.work = Nothing
  /\ Goes("read", run.op)
  /\ UNCHANGED <<remote, want, saved, quiet, trouble>>

ReadBack ==
  /\ run.pc = "read"
  /\ saved' = [exists |-> TRUE, tainted |-> FALSE, given |-> want,
               list |-> Shown(Listed(want))]
  /\ Goes("done", run.op)
  /\ UNCHANGED <<remote, want, quiet, trouble>>

\* The commitments of the state are deleted one by one, each by its ID.
Delete == \E c \in Cloud :
  /\ CallDelete(c)
  /\ run' = [run EXCEPT !.work[c] = Missing]
  /\ UNCHANGED <<want, saved, quiet, trouble>>

Deleted ==
  /\ run.pc = "delete"
  /\ run.work = Nothing
  /\ saved' = NotSaved
  /\ IF want = Absent THEN Goes("done", "delete") ELSE Goes("plan", "create")
  /\ UNCHANGED <<remote, want, quiet, trouble>>

\* Somebody has deleted or imported commitments in the meantime.
Refused ==
  /\ \/ run.pc = "list" /\ ~Mappable
     \/ run.pc \in {"update", "delete"}
          /\ \E c \in Present(run.work) : remote.list[c] = Missing
     \/ run.pc = "assign" /\ \E c \in run.at : remote.list[c] = Missing
  /\ Fails
  /\ UNCHANGED <<remote, want, quiet, trouble>>

\* A call fails or its answer is lost, or the process dies.
Stops ==
  /\ run.pc \in Steps
  /\ Trouble
  /\ \/ UNCHANGED remote
     \/ CallImport
     \/ \E c \in Cloud : CallUpdate(c) \/ CallAssign(c) \/ CallDelete(c)
  /\ saved' \in {AfterError, saved}
  /\ Goes("failed", "none")
  /\ quiet' = FALSE
  /\ UNCHANGED want

-----------------------------------------------------------------------------
(* Everybody else *)

\* terraform import: the ID names the cloud only, so all it has is read.
ImportState ==
  /\ Trouble
  /\ run.pc \in Ended
  /\ ~saved.exists
  /\ saved' = [exists |-> TRUE, tainted |-> FALSE, given |-> Absent,
               list |-> Shown(Listed(Absent))]
  /\ UNCHANGED <<remote, want, run, quiet>>

EditConfig ==
  /\ Trouble
  /\ run.pc \in Ended
  /\ want' \in (Configurations \cup {Absent}) \ {want}
  /\ quiet' = FALSE
  /\ UNCHANGED <<remote, saved, run>>

\* The console and other teams: commitments are imported, changed and deleted.
Others == \E c \in Cloud :
  /\ Trouble
  /\ remote' \in {[remote EXCEPT !.list[c] = x] : x \in Commitment \cup {Missing}} \ {remote}
  /\ quiet' = FALSE
  /\ UNCHANGED <<want, saved, run>>

-----------------------------------------------------------------------------
Terraform ==
  \/ Refresh \/ Plan
  \/ Imports \/ ListAndMap \/ Update \/ Assign \/ Upserted \/ ReadBack
  \/ Delete \/ Deleted \/ Refused

Next ==
  \/ StartApply \/ Terraform
  \/ Stops
  \/ ImportState \/ EditConfig \/ Others

Spec == Init /\ [][Next]_vars

\* Terraform runs to its end and the user applies again and again.
FairSpec == Spec /\ WF_vars(StartApply) /\ WF_vars(Terraform)

-----------------------------------------------------------------------------
(* Properties *)

\* What a step of Terraform may change.
LeavesOthers ==
  run' # run => \A c \in Cloud :
    \/ remote'.list[c] = remote.list[c]
    \/ run.op = "delete" /\ c \in Ours(saved.given)
    \/ run.op # "delete" /\ c \in Ours(want)

\* In append mode an upsert leaves the reservations alone that are not in the
\* file, and a destroy deletes none that is not in the file it saved.
OthersLeftAlone == [][LeavesOthers]_vars

\* What a step of Terraform may delete.
DeletesNothing ==
  run' # run /\ run.op \in {"create", "update"} /\ want.mode = "APPEND" =>
    Present(remote.list) \subseteq Present(remote'.list)

\* "APPEND upserts without deleting existing ones", whichever the cloud.
AppendDeletesNothing == [][DeletesNothing]_vars

\* An upsert that ran undisturbed to its end has left the commitments of the
\* file with the values and assignments configured, those without configuration
\* unassigned, no others in overwrite mode, and what is read of it in the state.
SuccessIsReal ==
  run.pc = "done" /\ run.op \in {"create", "update"} /\ quiet =>
    /\ saved.list = Shown(Listed(want))
    /\ Present(Listed(want)) = want.input
    /\ \A c \in want.input : \A value \in ConfigsOf(want, c) : remote.list[c] = value
    /\ \A c \in want.input : ConfigsOf(want, c) = {} => ~remote.list[c].assigned

Reached ==
  IF want = Absent THEN ~saved.exists
  ELSE /\ saved = [exists |-> TRUE, tainted |-> FALSE, given |-> want,
                   list |-> Shown(Listed(want))]
       /\ AsPlanned(saved.list, want)

\* It is reached, and no run has begun to change anything.
AtRest ==
  /\ Reached
  /\ \/ run.pc \in Ended
     \/ want # Absent /\ \E pc \in {"refresh", "plan"} : run = Run(pc, "none", Nothing, {})

\* Read never shows what is configured, so that every run updates again.
NeverShown ==
  want # Absent /\ \E c \in want.input : \E value \in ConfigsOf(want, c) :
    ReadAs[value.usage] # value.usage

\* The strategy of a commitment without a configuration was changed: every plan
\* is to undo it, and every update writes it back.
StrategyStays ==
  want # Absent /\ \E c \in want.input :
    ConfigsOf(want, c) = {} /\ remote.list[c] # Missing /\ remote.list[c].strategy # Default

\* Where repeated applies come to rest.
Settled ==
  \/ Reached \/ NeverShown \/ StrategyStays
  \/ want # Absent /\ ~Plannable(want)

\* After the trouble, repeated applies reach the configured commitments, if the
\* configurations can be mapped to the file, or one of these dead ends: a failure
\* between two commitments saves nothing that stops the next run from importing
\* and mapping all again.
Convergence == <>[]Settled
=============================================================================
