---------------------- MODULE SideBySideSharedProofs ----------------------
(***************************************************************************)
(* Five of the components of SideBySide, for every value of their          *)
(* constants: those that work on what others work on too (ScalingPolicy,   *)
(* SharedSetting, CommitmentMatching, Commitments and EnterpriseGroup).    *)
(*                                                                         *)
(* ScalingPolicy: OthersLeftAlone needs PolicyOwn, what the state or the   *)
(* operation refers to is Terraform's or the default policy.               *)
(* SuccessIsReal needs PolicyDelivered, what a write has done before the   *)
(* read that ends the apply, and PolicyPurpose, what each step of an       *)
(* operation may rely on.                                                  *)
(*                                                                         *)
(* SharedSetting: SuccessIsReal speaks of the end of an apply.             *)
(* SettingInsight says what the run of a workspace that has not been       *)
(* disturbed knows on its way there.                                       *)
(*                                                                         *)
(* CommitmentMatching: MatchIsRight speaks of the end of the loop.         *)
(* Through says the same of the configurations the loop is through with,   *)
(* and makes it inductive.                                                 *)
(*                                                                         *)
(* Commitments: SuccessIsReal speaks of the end of an upsert.              *)
(* UpsertDelivered says of the list that is worked off that what is not in *)
(* it any more is as configured; UpsertBounds, that nothing is in it that  *)
(* is not the resource's own.                                              *)
(*                                                                         *)
(* EnterpriseGroup: SuccessIsReal speaks of the end of an apply.           *)
(* GroupInsight says of an undisturbed refresh that what it has read is    *)
(* there, entry by entry; what a call leaves (GroupDelivers) follows from  *)
(* counting the places of a list (GroupNth).                               *)
(***************************************************************************)
EXTENDS SideBySide, FiniteSetTheorems, SequenceTheorems, TLAPS

-----------------------------------------------------------------------------
(* The scaling policy *)

PolicyPurpose ==
  /\ run.pc \in Policy!Creating =>
       run.op = "create" /\ saved = Policy!NotSaved /\ want \in Policy!Values
  /\ run.pc \in {"adopt", "fetch"} => run.id \in Ids
  /\ run.pc \in Policy!Working => run.id \in Ids /\ saved.id = run.id
  /\ run.pc \in {"read", "plan"} => run.op = "none"
  /\ run.pc \in {"put", "reread"} => run.op = "update" /\ want \in Policy!Values
  /\ run.pc \in {"look", "delete"} => run.op = "delete"
  /\ run.pc = "delete" /\ Policy!Exists(run.id) => remote[run.id].kind = "plain"

PolicyOwn == \A id \in Ids : id \in {saved.id, run.id} /\ Policy!Exists(id) =>
  remote[id].owner = "us" \/ remote[id].kind = "default"

PolicyDelivered == run.pc \in {"fetch", "reread"} /\ quiet =>
  Policy!Exists(run.id) /\ Policy!Shown(run.id) = want

PolicySound ==
  Policy!TypeOK /\ PolicyPurpose /\ PolicyOwn /\ PolicyDelivered /\ Policy!SuccessIsReal

-----------------------------------------------------------------------------
(* The records the actions build *)

PolicyPCs == Policy!Ended \cup Policy!Creating \cup Policy!Working
PolicyOps == {"none", "create", "update", "delete"}
PolicyRuns == [pc: PolicyPCs, op: PolicyOps, id: Ids \cup {NoId}, retried: BOOLEAN]
PolicyKnown == [id: Ids, tainted: BOOLEAN, values: Policy!Values]

LEMMA PolicyStartsType ==
  ASSUME NEW pc \in PolicyPCs, NEW op \in PolicyOps, NEW id \in Ids \cup {NoId},
         Policy!Starts(pc, op, id)
  PROVE  run' \in PolicyRuns /\ run'.pc = pc /\ run'.op = op /\ run'.id = id
BY DEF Policy!Starts, Policy!Run, PolicyRuns

LEMMA PolicyGoesType ==
  ASSUME Policy!TypeOK, NEW pc \in PolicyPCs, Policy!Goes(pc)
  PROVE  run' \in PolicyRuns /\ run'.pc = pc /\ run'.op = run.op /\ run'.id = run.id
BY DEF Policy!Goes, Policy!TypeOK, PolicyRuns, PolicyPCs, PolicyOps

LEMMA PolicyRetriesType ==
  ASSUME Policy!TypeOK, Policy!Retries
  PROVE  run' \in PolicyRuns /\ run'.pc = "post" /\ run'.op = run.op /\ run'.id = run.id
BY DEF Policy!Retries, Policy!TypeOK, PolicyRuns, PolicyPCs, PolicyOps, Policy!Creating

LEMMA PolicySavedType ==
  ASSUME Policy!PolicyAssumption, Policy!TypeOK
  PROVE  /\ saved.id \in Ids \cup {NoId}
         /\ saved.id = NoId <=> saved = Policy!NotSaved
         /\ saved.id # NoId => saved \in PolicyKnown
BY DEF Policy!PolicyAssumption, Policy!TypeOK, Policy!NotSaved, PolicyKnown

LEMMA PolicyRecordType ==
  ASSUME NEW id \in Ids, NEW tainted \in BOOLEAN, NEW values \in Policy!Values
  PROVE  /\ Policy!Saved(id, tainted, values) \in PolicyKnown
         /\ Policy!Saved(id, tainted, values).id = id
BY DEF Policy!Saved, PolicyKnown

LEMMA PolicyValuesType ==
  ASSUME Policy!PolicyAssumption, Policy!TypeOK, saved.id # NoId, NEW values \in Policy!Values
  PROVE  /\ [saved EXCEPT !.values = values] \in PolicyKnown
         /\ [saved EXCEPT !.values = values].id = saved.id
BY PolicySavedType DEF PolicyKnown

LEMMA PolicyTroubleType ==
  ASSUME Policy!PolicyAssumption, Policy!TypeOK, Policy!Trouble
  PROVE  trouble' \in 0..MoreTrouble
BY DEF Policy!PolicyAssumption, Policy!TypeOK, Policy!Trouble

LEMMA PolicyType ==
  ASSUME Policy!TypeOK, NEW id, Policy!Exists(id)
  PROVE  /\ id \in Ids
         /\ remote[id] \in Policy!Policies
         /\ Policy!Shown(id) \in Policy!Values
BY DEF Policy!TypeOK, Policy!Exists, Policy!Policies, Policy!Shown, Policy!Values

-----------------------------------------------------------------------------
(* The calls *)

\* What a call may do to the policies: it keeps what LeavesOthers asks for, and
\* what PolicyOwn and PolicyPurpose say of the policies that are known.
PolicyCareful ==
  /\ remote' \in [Ids -> Policy!Policies \cup {NoPolicy}]
  /\ \A id \in Ids : remote[id] # NoPolicy /\ remote'[id] # remote[id] =>
       \/ remote[id].owner = "us" /\ remote[id].kind = "plain"
       \/ remote[id].owner = "us" /\ remote'[id] # NoPolicy
       \/ remote[id].kind = "default" /\ remote'[id] # NoPolicy
  /\ \A id \in Ids : id \in {saved.id, run.id} /\ Policy!Exists(id)' =>
       /\ Policy!Exists(id)
       /\ remote'[id].kind = remote[id].kind
       /\ remote'[id].owner \in {remote[id].owner, "us"}

LEMMA PolicyWithType ==
  ASSUME Policy!TypeOK, NEW id \in Ids, NEW values \in Policy!Values,
         NEW kind \in {"plain", "readonly", "default"}, NEW owner \in {"us", "them"},
         remote' = Policy!With(id, values, kind, owner)
  PROVE  /\ remote' \in [Ids -> Policy!Policies \cup {NoPolicy}]
         /\ remote'[id] \in Policy!Policies
         /\ remote'[id].kind = kind /\ remote'[id].owner = owner
         /\ [name |-> remote'[id].name, settings |-> remote'[id].settings] = values
         /\ \A i \in Ids \ {id} : remote'[i] = remote[i]
<1> DEFINE policy == [name |-> values.name, settings |-> values.settings,
                      kind |-> kind, owner |-> owner]
<1>1. policy \in Policy!Policies
  BY DEF Policy!Policies, Policy!Values
<1>2. remote' = [remote EXCEPT ![id] = policy]
  BY DEF Policy!With
<1>3. [name |-> values.name, settings |-> values.settings] = values
  BY DEF Policy!Values
<1>4. /\ policy.name = values.name /\ policy.settings = values.settings
      /\ policy.kind = kind /\ policy.owner = owner
  OBVIOUS
<1> HIDE DEF policy
<1> QED
  BY <1>1, <1>2, <1>3, <1>4 DEF Policy!TypeOK

LEMMA PolicyPutCareful ==
  ASSUME Policy!PolicyAssumption, PolicySound, Policy!Put
  PROVE  /\ PolicyCareful
         /\ run.id \in Ids /\ remote'[run.id] \in Policy!Policies
         /\ remote'[run.id].owner = "us"
         /\ [name |-> remote'[run.id].name, settings |-> remote'[run.id].settings] = want
<1> USE DEF PolicySound
<1>1. Policy!Exists(run.id) /\ run.id \in Ids /\ remote[run.id] \in Policy!Policies
  BY PolicyType DEF Policy!Put, Policy!PutAccepted
<1>2. want \in Policy!Values
  BY DEF Policy!Put, PolicyPurpose, Policy!Creating
<1>3. remote[run.id].kind \in {"plain", "readonly", "default"}
  BY <1>1 DEF Policy!Policies
<1>4. remote' = Policy!With(run.id, want, remote[run.id].kind, "us")
  BY DEF Policy!Put
<1>5. /\ remote' \in [Ids -> Policy!Policies \cup {NoPolicy}]
      /\ remote'[run.id] \in Policy!Policies
      /\ remote'[run.id].kind = remote[run.id].kind /\ remote'[run.id].owner = "us"
      /\ [name |-> remote'[run.id].name, settings |-> remote'[run.id].settings] = want
      /\ \A i \in Ids \ {run.id} : remote'[i] = remote[i]
  BY <1>1, <1>2, <1>3, <1>4, PolicyWithType
<1>6. remote[run.id].owner = "us" \/ remote[run.id].kind = "default"
  BY <1>1 DEF PolicyOwn
<1>7. NoPolicy \notin Policy!Policies
  BY DEF Policy!PolicyAssumption
<1>8. PolicyCareful
  BY <1>1, <1>5, <1>6, <1>7 DEF PolicyCareful, Policy!Exists
<1> QED
  BY <1>1, <1>5, <1>8

LEMMA PolicyPostCareful ==
  ASSUME Policy!PolicyAssumption, PolicySound, Policy!Post
  PROVE  /\ PolicyCareful
         /\ Policy!NewId \in Ids /\ Policy!NewId \notin {saved.id, run.id}
         /\ remote'[Policy!NewId] \in Policy!Policies /\ remote'[Policy!NewId].owner = "us"
         /\ [name |-> remote'[Policy!NewId].name, settings |-> remote'[Policy!NewId].settings]
              = want
<1> USE DEF PolicySound
<1>1. Policy!NewId \in Policy!Fresh
  BY DEF Policy!Post, Policy!NewId
<1>2. /\ Policy!NewId \in Ids /\ remote[Policy!NewId] = NoPolicy
      /\ Policy!NewId \notin {saved.id, run.id}
  BY <1>1 DEF Policy!Fresh, Policy!Exists
<1>3. want \in Policy!Values
  BY DEF Policy!Post, PolicyPurpose, Policy!Creating
<1>4. remote' = Policy!With(Policy!NewId, want, "plain", "us")
  BY DEF Policy!Post
<1> HIDE DEF PolicySound
<1>5. /\ remote' \in [Ids -> Policy!Policies \cup {NoPolicy}]
      /\ remote'[Policy!NewId] \in Policy!Policies /\ remote'[Policy!NewId].owner = "us"
      /\ [name |-> remote'[Policy!NewId].name, settings |-> remote'[Policy!NewId].settings]
           = want
      /\ \A i \in Ids \ {Policy!NewId} : remote'[i] = remote[i]
  BY <1>2, <1>3, <1>4, PolicyWithType DEF PolicySound
<1>6. PolicyCareful
  BY <1>2, <1>5 DEF PolicyCareful, Policy!Exists
<1> QED
  BY <1>2, <1>5, <1>6

LEMMA PolicyDeleteCareful ==
  ASSUME Policy!PolicyAssumption, PolicySound, Policy!Delete
  PROVE  PolicyCareful
<1> USE DEF PolicySound
<1>1. Policy!Exists(run.id) /\ run.id \in Ids
  BY DEF Policy!Delete, Policy!Exists
<1>2. remote[run.id].kind = "plain" /\ remote[run.id].owner = "us"
  BY <1>1 DEF Policy!Delete, PolicyOwn, PolicyPurpose
<1>3. remote' = [remote EXCEPT ![run.id] = NoPolicy]
  BY DEF Policy!Delete
<1> QED
  BY <1>1, <1>2, <1>3 DEF PolicyCareful, Policy!Exists, Policy!TypeOK

LEMMA PolicyLostCallCareful ==
  ASSUME Policy!PolicyAssumption, PolicySound, Policy!MaybeCarriedOut
  PROVE  PolicyCareful
<1>1. CASE UNCHANGED remote
  BY <1>1 DEF PolicyCareful, Policy!Exists, PolicySound, Policy!TypeOK
<1> QED
  BY <1>1, PolicyPutCareful, PolicyPostCareful, PolicyDeleteCareful
  DEF Policy!MaybeCarriedOut

-----------------------------------------------------------------------------
(* Preserving PolicyOwn and PolicyPurpose *)

LEMMA PolicyOwnKept ==
  ASSUME Policy!PolicyAssumption, PolicySound, PolicyCareful,
         {saved'.id, run'.id} \subseteq {saved.id, run.id, NoId}
  PROVE  PolicyOwn'
<1> SUFFICES ASSUME NEW id \in Ids, id \in {saved'.id, run'.id}, Policy!Exists(id)'
             PROVE  remote'[id].owner = "us" \/ remote'[id].kind = "default"
  BY DEF PolicyOwn
<1>1. id \in {saved.id, run.id}
  BY DEF Policy!PolicyAssumption
<1>2. Policy!Exists(id) /\ remote'[id].kind = remote[id].kind
      /\ remote'[id].owner \in {remote[id].owner, "us"}
  BY <1>1 DEF PolicyCareful
<1> QED
  BY <1>1, <1>2 DEF PolicySound, PolicyOwn

\* A create ends in failure, keeping the ID it has.
LEMMA PolicyCreateFailsSound ==
  ASSUME Policy!PolicyAssumption, PolicySound, run.pc \in Policy!Creating, PolicyCareful,
         Policy!CreateFails,
         UNCHANGED <<want, quiet>>, trouble' \in 0..MoreTrouble
  PROVE  PolicySound' /\ (run.id # NoId => saved'.id = run.id)
<1> USE DEF PolicySound
<1>1. run' \in PolicyRuns /\ run'.pc = "failed" /\ run'.op = run.op /\ run'.id = run.id
  BY PolicyGoesType DEF Policy!CreateFails, PolicyPCs, Policy!Ended
<1>2. run.id \in Ids \cup {NoId} /\ want \in Policy!Values /\ saved = Policy!NotSaved
  BY DEF Policy!TypeOK, PolicyPurpose
<1>3. saved' \in {Policy!NotSaved} \cup PolicyKnown /\ saved'.id = run.id
  BY <1>2, PolicyRecordType DEF Policy!CreateFails, Policy!AfterCreateError, Policy!NotSaved
<1>4. Policy!TypeOK'
  BY <1>1, <1>3
  DEF Policy!TypeOK, PolicyCareful, PolicyRuns, PolicyPCs, PolicyOps, PolicyKnown
<1>5. PolicyOwn'
  BY <1>1, <1>3, PolicyOwnKept
<1>6. PolicyPurpose' /\ PolicyDelivered' /\ Policy!SuccessIsReal'
  BY <1>1
  DEF PolicyPurpose, PolicyDelivered, Policy!SuccessIsReal, Policy!Creating,
      Policy!Working
<1> QED
  BY <1>3, <1>4, <1>5, <1>6

\* A step that leaves the state alone and goes on to nothing that promises
\* anything: the apply ends without success, or an attempt is repeated.
LEMMA PolicyUnresolvedSound ==
  ASSUME Policy!PolicyAssumption, PolicySound, PolicyCareful,
         NEW pc \in {"failed", "killed", "post", "find"},
         run' \in PolicyRuns, run'.pc = pc, run'.op = run.op, run'.id = run.id,
         pc \in Policy!Creating => run.pc \in Policy!Creating,
         saved' = saved, UNCHANGED <<want, quiet>>, trouble' \in 0..MoreTrouble
  PROVE  PolicySound'
<1> USE DEF PolicySound
<1>1. Policy!TypeOK'
  BY DEF Policy!TypeOK, PolicyCareful, PolicyRuns, PolicyPCs, PolicyOps
<1>2. PolicyOwn'
  BY PolicyOwnKept
<1>3. PolicyPurpose' /\ PolicyDelivered' /\ Policy!SuccessIsReal'
  BY DEF PolicyPurpose, PolicyDelivered, Policy!SuccessIsReal, Policy!Creating,
         Policy!Working
<1> QED
  BY <1>1, <1>2, <1>3

\* A step that leaves CAST AI alone.
LEMMA PolicyLookingCareful ==
  ASSUME PolicySound, UNCHANGED remote
  PROVE  PolicyCareful
BY DEF PolicyCareful, Policy!Exists, PolicySound, Policy!TypeOK

-----------------------------------------------------------------------------
(* The create *)

LEMMA PolicyPostCreatedSound ==
  ASSUME Policy!PolicyAssumption, PolicySound, Policy!PostCreated
  PROVE  PolicySound'
<1> USE DEF PolicySound
<1>1. /\ PolicyCareful
      /\ Policy!NewId \in Ids /\ Policy!NewId \notin {saved.id, run.id}
      /\ remote'[Policy!NewId] \in Policy!Policies /\ remote'[Policy!NewId].owner = "us"
      /\ [name |-> remote'[Policy!NewId].name, settings |-> remote'[Policy!NewId].settings]
           = want
  BY PolicyPostCareful DEF Policy!PostCreated
<1> DEFINE id == Policy!NewId
<1> HIDE DEF id
<1>2. /\ id \in Ids /\ remote'[id] \in Policy!Policies /\ remote'[id].owner = "us"
      /\ [name |-> remote'[id].name, settings |-> remote'[id].settings] = want
  BY <1>1 DEF id
<1>3. run' = [run EXCEPT !.pc = "fetch", !.id = id]
  BY DEF Policy!PostCreated, id
<1>4. UNCHANGED <<want, saved, quiet, trouble>> /\ run.pc = "post"
  BY DEF Policy!PostCreated, Policy!Post
<1>5. run' \in PolicyRuns /\ run'.pc = "fetch" /\ run'.op = run.op /\ run'.id = id
  BY <1>2, <1>3 DEF Policy!TypeOK, PolicyRuns, PolicyPCs, PolicyOps, Policy!Creating
<1>6. Policy!TypeOK'
  BY <1>1, <1>4, <1>5 DEF Policy!TypeOK, PolicyCareful, PolicyRuns, PolicyPCs, PolicyOps
<1>7. saved = Policy!NotSaved /\ run.op = "create" /\ want \in Policy!Values
  BY <1>4 DEF PolicyPurpose, Policy!Creating
<1>8. PolicyOwn'
  <2>1. saved'.id \notin Ids
    BY <1>4, <1>7 DEF Policy!NotSaved, Policy!PolicyAssumption
  <2> QED
    BY <1>2, <1>5, <2>1 DEF PolicyOwn
<1>9. PolicyPurpose'
  BY <1>2, <1>4, <1>5, <1>7 DEF PolicyPurpose, Policy!Creating, Policy!Working
<1>10. Policy!Exists(run.id)' /\ (Policy!Shown(run.id) = want)'
  BY <1>2, <1>4, <1>5 DEF Policy!Exists, Policy!Shown, Policy!PolicyAssumption
<1> QED
  BY <1>5, <1>6, <1>8, <1>9, <1>10 DEF PolicyDelivered, Policy!SuccessIsReal

LEMMA PolicyFindDefaultSound ==
  ASSUME Policy!PolicyAssumption, PolicySound, Policy!FindDefault
  PROVE  PolicySound'
<1> USE DEF PolicySound
<1>1. PICK id \in Policy!Named(want.name) :
          Policy!Adoptable(id) /\ run' = [run EXCEPT !.pc = "adopt", !.id = id]
  BY DEF Policy!FindDefault
<1>2. id \in Ids /\ remote[id].kind = "default"
  BY <1>1 DEF Policy!Named, Policy!Adoptable
<1>3. run.pc = "find" /\ UNCHANGED <<remote, want, saved, quiet, trouble>>
  BY DEF Policy!FindDefault
<1>4. run' \in PolicyRuns /\ run'.pc = "adopt" /\ run'.op = run.op /\ run'.id = id
  BY <1>1, <1>2 DEF Policy!TypeOK, PolicyRuns, PolicyPCs, PolicyOps, Policy!Creating
<1>5. saved = Policy!NotSaved /\ run.op = "create" /\ want \in Policy!Values
  BY <1>3 DEF PolicyPurpose, Policy!Creating
<1>6. Policy!TypeOK'
  BY <1>3, <1>4 DEF Policy!TypeOK, PolicyRuns, PolicyPCs, PolicyOps
<1>7. PolicyOwn'
  <2>1. saved'.id \notin Ids
    BY <1>3, <1>5 DEF Policy!NotSaved, Policy!PolicyAssumption
  <2> QED
    BY <1>2, <1>3, <1>4, <2>1 DEF PolicyOwn
<1>8. PolicyPurpose'
  BY <1>2, <1>3, <1>4, <1>5 DEF PolicyPurpose, Policy!Creating, Policy!Working
<1> QED
  BY <1>4, <1>6, <1>7, <1>8 DEF PolicyDelivered, Policy!SuccessIsReal

LEMMA PolicyAdoptSound ==
  ASSUME Policy!PolicyAssumption, PolicySound, Policy!Adopt
  PROVE  PolicySound'
<1> USE DEF PolicySound
<1>1. /\ PolicyCareful
      /\ run.id \in Ids /\ remote'[run.id] \in Policy!Policies /\ remote'[run.id].owner = "us"
      /\ [name |-> remote'[run.id].name, settings |-> remote'[run.id].settings] = want
  BY PolicyPutCareful DEF Policy!Adopt
<1>2. run.pc = "adopt" /\ UNCHANGED <<want, saved, quiet, trouble>>
  BY DEF Policy!Adopt
<1>3. run' \in PolicyRuns /\ run'.pc = "fetch" /\ run'.op = run.op /\ run'.id = run.id
  BY PolicyGoesType DEF Policy!Adopt, PolicyPCs, Policy!Creating
<1>4. Policy!TypeOK'
  BY <1>1, <1>2, <1>3 DEF Policy!TypeOK, PolicyCareful, PolicyRuns, PolicyPCs, PolicyOps
<1>5. PolicyOwn'
  BY <1>1, <1>2, <1>3, PolicyOwnKept
<1>6. PolicyPurpose'
  BY <1>1, <1>2, <1>3 DEF PolicyPurpose, Policy!Creating, Policy!Working
<1>7. Policy!Exists(run.id)' /\ (Policy!Shown(run.id) = want)'
  BY <1>1, <1>2, <1>3 DEF Policy!Exists, Policy!Shown, Policy!PolicyAssumption
<1> QED
  BY <1>3, <1>4, <1>5, <1>6, <1>7 DEF PolicyDelivered, Policy!SuccessIsReal

LEMMA PolicyFetchSound ==
  ASSUME Policy!PolicyAssumption, PolicySound, Policy!Fetch
  PROVE  PolicySound'
<1> USE DEF PolicySound
<1>1. run.pc = "fetch" /\ Policy!Exists(run.id) /\ UNCHANGED <<remote, want, quiet, trouble>>
  BY DEF Policy!Fetch
<1>2. run.id \in Ids /\ Policy!Shown(run.id) \in Policy!Values
  BY <1>1, PolicyType
<1>3. run' \in PolicyRuns /\ run'.pc = "done" /\ run'.op = run.op /\ run'.id = run.id
  BY PolicyGoesType DEF Policy!Fetch, PolicyPCs, Policy!Ended
<1>4. saved' = Policy!Saved(run.id, FALSE, Policy!Shown(run.id))
  BY DEF Policy!Fetch
<1>5. saved' \in PolicyKnown /\ saved'.id = run.id
  BY <1>2, <1>4, PolicyRecordType
<1>6. Policy!TypeOK'
  BY <1>1, <1>3, <1>5 DEF Policy!TypeOK, PolicyRuns, PolicyPCs, PolicyOps, PolicyKnown
<1>7. PolicyOwn'
  BY <1>1, <1>3, <1>5, PolicyLookingCareful, PolicyOwnKept
<1>8. PolicyPurpose' /\ PolicyDelivered'
  BY <1>3 DEF PolicyPurpose, PolicyDelivered, Policy!Creating, Policy!Working
<1>9. Policy!SuccessIsReal'
  <2>1. ASSUME quiet PROVE Policy!Shown(run.id) = want
    BY <1>1, <2>1 DEF PolicyDelivered
  <2>2. \A id \in Ids : (Policy!Exists(id)' <=> Policy!Exists(id))
          /\ Policy!Shown(id)' = Policy!Shown(id)
    BY <1>1 DEF Policy!Exists, Policy!Shown
  <2> QED
    BY <1>1, <1>2, <1>4, <1>5, <2>1, <2>2
    DEF Policy!SuccessIsReal, Policy!Exists, Policy!Shown, Policy!Saved
<1> QED
  BY <1>6, <1>7, <1>8, <1>9

LEMMA PolicyCutOffSound ==
  ASSUME Policy!PolicyAssumption, PolicySound, Policy!CutOff
  PROVE  PolicySound' /\ (run.id # NoId => saved'.id = run.id)
<1> USE DEF PolicySound
<1>1. run.pc \in Policy!Creating /\ Policy!Trouble /\ UNCHANGED <<want, quiet>> /\ PolicyCareful
      /\ trouble' \in 0..MoreTrouble
  BY PolicyLostCallCareful, PolicyTroubleType DEF Policy!CutOff
<1>2. CASE run.retried
  BY <1>1, <1>2, PolicyCreateFailsSound DEF Policy!CutOff
<1>3. CASE ~run.retried
  <2>1. saved' = IF run.id = NoId THEN Policy!NotSaved ELSE Policy!Saved(run.id, FALSE, want)
    BY <1>3 DEF Policy!CutOff
  <2>2. Policy!Goes(IF run.id = NoId THEN "failed" ELSE "assumed")
    BY <1>3 DEF Policy!CutOff
  <2>3. /\ run' \in PolicyRuns /\ run'.pc \in {"failed", "assumed"}
        /\ run'.op = run.op /\ run'.id = run.id
    BY <2>2, PolicyGoesType DEF PolicyPCs, Policy!Ended
  <2>4. run.id \in Ids \cup {NoId} /\ want \in Policy!Values
    BY <1>1 DEF Policy!TypeOK, PolicyPurpose
  <2>5. saved' \in {Policy!NotSaved} \cup PolicyKnown /\ saved'.id = run.id
    BY <2>1, <2>4, PolicyRecordType DEF Policy!NotSaved
  <2>6. Policy!TypeOK'
    BY <1>1, <2>3, <2>5
    DEF Policy!TypeOK, PolicyCareful, PolicyRuns, PolicyPCs, PolicyOps, PolicyKnown
  <2>7. PolicyOwn'
    BY <1>1, <2>3, <2>5, PolicyOwnKept
  <2>8. PolicyPurpose' /\ PolicyDelivered' /\ Policy!SuccessIsReal'
    BY <2>3
    DEF PolicyPurpose, PolicyDelivered, Policy!SuccessIsReal, Policy!Creating,
        Policy!Working
  <2> QED
    BY <2>5, <2>6, <2>7, <2>8
<1> QED
  BY <1>2, <1>3

-----------------------------------------------------------------------------
(* Refresh, plan, update, delete *)

\* An operation starts, on the resource of the state or on none, after a look at
\* CAST AI at most.
LEMMA PolicyStartsSound ==
  ASSUME Policy!PolicyAssumption, PolicySound, UNCHANGED <<remote, want, trouble>>,
         quiet' \in BOOLEAN,
         NEW pc \in {"read", "post", "done"}, NEW id \in {saved'.id, NoId},
         Policy!Starts(pc, IF pc = "post" THEN "create" ELSE "none", id),
         pc = "read" => id \in Ids /\ id = saved'.id,
         pc = "post" => saved' = Policy!NotSaved /\ want # Absent,
         saved' \in {Policy!NotSaved} \cup PolicyKnown, saved'.id \in {saved.id, NoId}
  PROVE  PolicySound'
<1> USE DEF PolicySound
<1> DEFINE op == IF pc = "post" THEN "create" ELSE "none"
<1>1. op \in PolicyOps /\ pc \in PolicyPCs /\ id \in Ids \cup {NoId}
  BY PolicySavedType DEF PolicyOps, PolicyPCs, Policy!Ended, Policy!Creating, Policy!Working
<1>2. op = "create" <=> pc = "post"
  OBVIOUS
<1>3. op # "create" => op = "none"
  OBVIOUS
<1>4. Policy!Starts(pc, op, id)
  OBVIOUS
<1> HIDE DEF op
<1>5. run' \in PolicyRuns /\ run'.pc = pc /\ run'.op = op /\ run'.id = id
  BY <1>1, <1>4, PolicyStartsType
<1>6. Policy!TypeOK'
  BY <1>5 DEF Policy!TypeOK, PolicyRuns, PolicyPCs, PolicyOps, PolicyKnown
<1>7. PolicyOwn'
  BY <1>5, PolicyLookingCareful, PolicyOwnKept
<1>8. PolicyPurpose' /\ PolicyDelivered' /\ Policy!SuccessIsReal'
  BY <1>2, <1>3, <1>5
  DEF PolicyPurpose, PolicyDelivered, Policy!SuccessIsReal, Policy!Creating,
      Policy!Working, Policy!TypeOK
<1> QED
  BY <1>6, <1>7, <1>8

LEMMA PolicyStartApplySound ==
  ASSUME Policy!PolicyAssumption, PolicySound, Policy!StartApply
  PROVE  PolicySound'
<1>1. UNCHANGED <<remote, want, saved, trouble>> /\ quiet' \in BOOLEAN
  BY DEF Policy!StartApply
<1>2. /\ saved \in {Policy!NotSaved} \cup PolicyKnown
      /\ saved.id # NoId => saved.id \in Ids
      /\ saved.id = NoId => saved = Policy!NotSaved
  BY PolicySavedType DEF PolicySound
<1>3. CASE saved.id # NoId
  <2>1. Policy!Starts("read", "none", saved.id)
    BY <1>3 DEF Policy!StartApply
  <2> QED
    BY <1>1, <1>2, <1>3, <2>1, PolicyStartsSound
<1>4. CASE saved.id = NoId /\ want # Absent
  <2>1. Policy!Starts("post", "create", NoId)
    BY <1>4 DEF Policy!StartApply
  <2> QED
    BY <1>1, <1>2, <1>4, <2>1, PolicyStartsSound
<1>5. CASE saved.id = NoId /\ want = Absent
  <2>1. Policy!Starts("done", "none", NoId)
    BY <1>5 DEF Policy!StartApply
  <2> QED
    BY <1>1, <1>2, <2>1, PolicyStartsSound
<1> QED
  BY <1>3, <1>4, <1>5

\* An operation on the resource of the state goes on, or ends without success.
LEMMA PolicyWorkingSound ==
  ASSUME Policy!PolicyAssumption, PolicySound, run.pc \in Policy!Working, PolicyCareful,
         UNCHANGED <<want, quiet>>,
         trouble' \in 0..MoreTrouble, saved' \in PolicyKnown, saved'.id = saved.id,
         NEW pc \in {"plan", "put", "look", "delete", "failed", "killed", "done"},
         run' \in PolicyRuns, run'.pc = pc, run'.id = run.id,
         pc = "plan" => run'.op = "none",
         pc = "put" => run'.op = "update" /\ want \in Policy!Values,
         pc \in {"look", "delete"} => run'.op = "delete",
         pc = "done" => run'.op \notin {"create", "update"},
         pc = "delete" => (Policy!Exists(run.id) => remote[run.id].kind = "plain")
  PROVE  PolicySound'
<1> USE DEF PolicySound
<1>1. run.id \in Ids /\ saved.id = run.id
  BY DEF PolicyPurpose
<1>2. Policy!TypeOK'
  BY DEF Policy!TypeOK, PolicyCareful, PolicyRuns, PolicyPCs, PolicyOps, PolicyKnown
<1>3. PolicyOwn'
  BY PolicyOwnKept
<1>4. pc = "delete" /\ Policy!Exists(run.id)' => (remote[run.id].kind = "plain")'
  BY <1>1 DEF PolicyCareful, Policy!Exists
<1>5. PolicyPurpose'
  BY <1>1, <1>4 DEF PolicyPurpose, Policy!Creating, Policy!Working
<1>6. PolicyDelivered' /\ Policy!SuccessIsReal'
  BY DEF PolicyDelivered, Policy!SuccessIsReal
<1> QED
  BY <1>2, <1>3, <1>5, <1>6

LEMMA PolicyWorkingFacts ==
  ASSUME Policy!PolicyAssumption, PolicySound, run.pc \in Policy!Working
  PROVE  run.id \in Ids /\ saved.id = run.id /\ saved.id # NoId /\ saved \in PolicyKnown
BY PolicySavedType DEF PolicySound, PolicyPurpose, Policy!PolicyAssumption

LEMMA PolicyReadSound ==
  ASSUME Policy!PolicyAssumption, PolicySound, Policy!Read
  PROVE  PolicySound'
<1> USE DEF PolicySound
<1>1. run.pc = "read" /\ UNCHANGED <<remote, want, quiet, trouble>> /\ run.pc \in Policy!Working
  BY DEF Policy!Read, Policy!Working
<1>2. CASE Policy!Exists(run.id)
  <2>1. Policy!Shown(run.id) \in Policy!Values
    BY <1>2, PolicyType
  <2>2. saved' = [saved EXCEPT !.values = Policy!Shown(run.id)] /\ Policy!Goes("plan")
    BY <1>2 DEF Policy!Read
  <2>3. saved' \in PolicyKnown /\ saved'.id = saved.id
    BY <1>1, <2>1, <2>2, PolicyWorkingFacts, PolicyValuesType
  <2>4. run' \in PolicyRuns /\ run'.pc = "plan" /\ run'.op = run.op /\ run'.id = run.id
    BY <2>2, PolicyGoesType DEF PolicyPCs, Policy!Working
  <2>5. run'.op = "none"
    BY <1>1, <2>4 DEF PolicyPurpose
  <2> QED
    BY <1>1, <2>3, <2>4, <2>5, PolicyLookingCareful, PolicyWorkingSound DEF Policy!TypeOK
<1>3. CASE ~Policy!Exists(run.id) /\ want = Absent
  <2>1. saved' = Policy!NotSaved /\ Policy!Goes("done")
    BY <1>3 DEF Policy!Read
  <2>2. run' \in PolicyRuns /\ run'.pc = "done" /\ run'.op = run.op /\ run'.id = run.id
    BY <2>1, PolicyGoesType DEF PolicyPCs, Policy!Ended
  <2>3. run'.op = "none"
    BY <1>1, <2>2 DEF PolicyPurpose
  <2>4. Policy!TypeOK'
    BY <1>1, <2>1, <2>2 DEF Policy!TypeOK, PolicyRuns, PolicyPCs, PolicyOps
  <2>5. PolicyOwn'
    BY <1>1, <2>1, <2>2, PolicyLookingCareful, PolicyOwnKept DEF Policy!NotSaved
  <2> QED
    BY <2>2, <2>3, <2>4, <2>5
    DEF PolicyPurpose, PolicyDelivered, Policy!SuccessIsReal, Policy!Creating,
        Policy!Working
<1>4. CASE ~Policy!Exists(run.id) /\ want # Absent
  <2>1. saved' = Policy!NotSaved /\ Policy!Starts("post", "create", NoId)
    BY <1>4 DEF Policy!Read
  <2>2. saved'.id = NoId /\ quiet' \in BOOLEAN
    BY <1>1, <2>1 DEF Policy!NotSaved, Policy!TypeOK
  <2> QED
    BY <1>1, <1>4, <2>1, <2>2, PolicyStartsSound
<1> QED
  BY <1>2, <1>3, <1>4

LEMMA PolicyPlanSound ==
  ASSUME Policy!PolicyAssumption, PolicySound, Policy!Plan
  PROVE  PolicySound'
<1> USE DEF PolicySound
<1>1. /\ run.pc = "plan" /\ UNCHANGED <<remote, want, saved, quiet, trouble>>
      /\ run.pc \in Policy!Working
  BY DEF Policy!Plan, Policy!Working
<1>2. run.id \in Ids /\ saved.id = run.id /\ saved \in PolicyKnown /\ run.op = "none"
      /\ trouble' \in 0..MoreTrouble /\ PolicyCareful
  BY <1>1, PolicyWorkingFacts, PolicyLookingCareful DEF PolicyPurpose, Policy!TypeOK
<1>3. CASE want = Absent \/ saved.tainted
  <2>1. Policy!Starts("look", "delete", saved.id)
    BY <1>3 DEF Policy!Plan
  <2>2. run' \in PolicyRuns /\ run'.pc = "look" /\ run'.op = "delete" /\ run'.id = run.id
    BY <1>2, <2>1, PolicyStartsType DEF PolicyPCs, PolicyOps, Policy!Working
  <2> QED
    BY <1>1, <1>2, <2>2, PolicyWorkingSound
<1>4. CASE ~(want = Absent \/ saved.tainted) /\ saved.values = want
  <2>1. Policy!Goes("done")
    BY <1>4 DEF Policy!Plan
  <2>2. run' \in PolicyRuns /\ run'.pc = "done" /\ run'.op = "none" /\ run'.id = run.id
    BY <1>2, <2>1, PolicyGoesType DEF PolicyPCs, Policy!Ended
  <2> QED
    BY <1>1, <1>2, <2>2, PolicyWorkingSound
<1>5. CASE ~(want = Absent \/ saved.tainted) /\ saved.values # want
  <2>1. Policy!Starts("put", "update", saved.id)
    BY <1>5 DEF Policy!Plan
  <2>2. run' \in PolicyRuns /\ run'.pc = "put" /\ run'.op = "update" /\ run'.id = run.id
    BY <1>2, <2>1, PolicyStartsType DEF PolicyPCs, PolicyOps, Policy!Working
  <2>3. want \in Policy!Values
    BY <1>5 DEF Policy!TypeOK
  <2> QED
    BY <1>1, <1>2, <2>2, <2>3, PolicyWorkingSound
<1> QED
  BY <1>3, <1>4, <1>5

LEMMA PolicyUpdateSound ==
  ASSUME Policy!PolicyAssumption, PolicySound, Policy!Update
  PROVE  PolicySound'
<1> USE DEF PolicySound
<1>1. run.pc = "put" /\ UNCHANGED <<want, saved, quiet, trouble>>
  BY DEF Policy!Update
<1>2. /\ PolicyCareful
      /\ run.id \in Ids /\ remote'[run.id] \in Policy!Policies
      /\ [name |-> remote'[run.id].name, settings |-> remote'[run.id].settings] = want
  BY PolicyPutCareful DEF Policy!Update
<1>3. run' \in PolicyRuns /\ run'.pc = "reread" /\ run'.op = run.op /\ run'.id = run.id
  BY PolicyGoesType DEF Policy!Update, PolicyPCs, Policy!Working
<1>4. Policy!TypeOK'
  BY <1>1, <1>2, <1>3 DEF Policy!TypeOK, PolicyCareful, PolicyRuns, PolicyPCs, PolicyOps
<1>5. PolicyOwn'
  BY <1>1, <1>2, <1>3, PolicyOwnKept
<1>6. PolicyPurpose'
  BY <1>1, <1>2, <1>3 DEF PolicyPurpose, Policy!Creating, Policy!Working
<1>7. Policy!Exists(run.id)' /\ (Policy!Shown(run.id) = want)'
  BY <1>1, <1>2, <1>3 DEF Policy!Exists, Policy!Shown, Policy!PolicyAssumption
<1> QED
  BY <1>3, <1>4, <1>5, <1>6, <1>7 DEF PolicyDelivered, Policy!SuccessIsReal

LEMMA PolicyRereadSound ==
  ASSUME Policy!PolicyAssumption, PolicySound, Policy!Reread
  PROVE  PolicySound'
<1> USE DEF PolicySound
<1>1. /\ run.pc = "reread" /\ run.pc \in Policy!Working
      /\ UNCHANGED <<remote, want, quiet, trouble>>
  BY DEF Policy!Reread, Policy!Working
<1>2. run.id \in Ids /\ saved.id = run.id /\ saved \in PolicyKnown
      /\ trouble' \in 0..MoreTrouble /\ PolicyCareful
  BY <1>1, PolicyWorkingFacts, PolicyLookingCareful DEF Policy!TypeOK
<1>3. CASE ~Policy!Exists(run.id)
  <2>1. saved' = saved /\ Policy!Goes("failed")
    BY <1>3 DEF Policy!Reread
  <2>2. run' \in PolicyRuns /\ run'.pc = "failed" /\ run'.id = run.id
    BY <2>1, PolicyGoesType DEF PolicyPCs, Policy!Ended
  <2> QED
    BY <1>1, <1>2, <2>1, <2>2, PolicyWorkingSound
<1>4. CASE Policy!Exists(run.id)
  <2>1. saved' = Policy!Saved(run.id, FALSE, Policy!Shown(run.id)) /\ Policy!Goes("done")
    BY <1>4 DEF Policy!Reread
  <2>2. saved' \in PolicyKnown /\ saved'.id = run.id
    BY <1>2, <1>4, <2>1, PolicyType, PolicyRecordType
  <2>3. run' \in PolicyRuns /\ run'.pc = "done" /\ run'.op = run.op /\ run'.id = run.id
    BY <2>1, PolicyGoesType DEF PolicyPCs, Policy!Ended
  <2>4. Policy!TypeOK'
    BY <1>1, <2>2, <2>3 DEF Policy!TypeOK, PolicyRuns, PolicyPCs, PolicyOps, PolicyKnown
  <2>5. PolicyOwn'
    BY <1>1, <1>2, <2>2, <2>3, PolicyOwnKept
  <2>6. PolicyPurpose' /\ PolicyDelivered'
    BY <2>3 DEF PolicyPurpose, PolicyDelivered, Policy!Creating, Policy!Working
  <2>7. ASSUME quiet PROVE Policy!Shown(run.id) = want
    BY <1>1, <2>7 DEF PolicyDelivered
  <2>8. \A id \in Ids : (Policy!Exists(id)' <=> Policy!Exists(id))
          /\ Policy!Shown(id)' = Policy!Shown(id)
    BY <1>1 DEF Policy!Exists, Policy!Shown
  <2>9. Policy!SuccessIsReal'
    BY <1>1, <1>2, <1>4, <2>1, <2>2, <2>7, <2>8
    DEF Policy!SuccessIsReal, Policy!Exists, Policy!Shown, Policy!Saved
  <2> QED
    BY <2>4, <2>5, <2>6, <2>9
<1> QED
  BY <1>3, <1>4

\* The end of a deletion.
LEMMA PolicyDeletedSound ==
  ASSUME Policy!PolicyAssumption, PolicySound, run.pc \in {"look", "delete"}, PolicyCareful,
         Policy!Deleted,
         UNCHANGED <<want, quiet, trouble>>
  PROVE  PolicySound'
<1> USE DEF PolicySound
<1>1. run.op = "delete" /\ saved' = Policy!NotSaved /\ saved'.id = NoId
  BY DEF PolicyPurpose, Policy!Deleted, Policy!NotSaved
<1>2. \/ /\ want = Absent
         /\ run' \in PolicyRuns /\ run'.pc = "done" /\ run'.op = "delete" /\ run'.id = run.id
      \/ /\ want # Absent
         /\ run' \in PolicyRuns /\ run'.pc = "post" /\ run'.op = "create" /\ run'.id = NoId
  <2>1. CASE want = Absent
    BY <1>1, <2>1, PolicyGoesType DEF Policy!Deleted, PolicyPCs, Policy!Ended
  <2>2. CASE want # Absent
    BY <2>2, PolicyStartsType DEF Policy!Deleted, PolicyPCs, PolicyOps, Policy!Creating
  <2> QED
    BY <2>1, <2>2
<1>3. Policy!TypeOK'
  BY <1>1, <1>2 DEF Policy!TypeOK, PolicyCareful, PolicyRuns, PolicyPCs, PolicyOps
<1>4. PolicyOwn'
  BY <1>1, <1>2, PolicyOwnKept
<1>5. PolicyPurpose' /\ PolicyDelivered' /\ Policy!SuccessIsReal'
  BY <1>1, <1>2
  DEF PolicyPurpose, PolicyDelivered, Policy!SuccessIsReal, Policy!Creating,
      Policy!Working, Policy!TypeOK
<1> QED
  BY <1>3, <1>4, <1>5

LEMMA PolicyDeletingSound ==
  ASSUME Policy!PolicyAssumption, PolicySound,
         Policy!LeaveAlone \/ Policy!Look \/ Policy!DeleteDone \/ Policy!DeleteRefused
  PROVE  PolicySound'
<1> USE DEF PolicySound
<1>1. run.pc \in {"look", "delete"} /\ run.pc \in Policy!Working
  BY DEF Policy!LeaveAlone, Policy!Look, Policy!DeleteDone, Policy!DeleteRefused,
         Policy!Delete, Policy!Working
<1>2. run.id \in Ids /\ saved.id = run.id /\ saved \in PolicyKnown /\ run.op = "delete"
      /\ trouble \in 0..MoreTrouble
  BY <1>1, PolicyWorkingFacts DEF PolicyPurpose, Policy!TypeOK
<1>3. CASE Policy!LeaveAlone
  BY <1>1, <1>3, PolicyLookingCareful, PolicyDeletedSound DEF Policy!LeaveAlone
<1>4. CASE Policy!DeleteDone
  BY <1>1, <1>4, PolicyDeleteCareful, PolicyDeletedSound DEF Policy!DeleteDone
<1>5. CASE Policy!Look
  <2>1. UNCHANGED <<remote, want, saved, quiet, trouble>> /\ remote[run.id].kind = "plain"
    BY <1>5 DEF Policy!Look
  <2>2. run' \in PolicyRuns /\ run'.pc = "delete" /\ run'.op = "delete" /\ run'.id = run.id
    BY <1>2, <1>5, PolicyGoesType DEF Policy!Look, PolicyPCs, Policy!Working
  <2> QED
    BY <1>1, <1>2, <2>1, <2>2, PolicyLookingCareful, PolicyWorkingSound
<1>6. CASE Policy!DeleteRefused
  <2>1. UNCHANGED <<remote, want, saved, quiet, trouble>>
    BY <1>6 DEF Policy!DeleteRefused
  <2>2. run' \in PolicyRuns /\ run'.pc = "failed" /\ run'.id = run.id
    BY <1>6, PolicyGoesType DEF Policy!DeleteRefused, PolicyPCs, Policy!Ended
  <2> QED
    BY <1>1, <1>2, <2>1, <2>2, PolicyLookingCareful, PolicyWorkingSound
<1> QED
  BY <1>3, <1>4, <1>5, <1>6

\* An update fails; SDKv2 saves what was planned.
LEMMA PolicyWorkFailsSound ==
  ASSUME Policy!PolicyAssumption, PolicySound,
         \/ Policy!UpdateRejected \/ Policy!OperationFails
         \/ (Policy!Killed /\ run.pc \in Policy!Working)
  PROVE  PolicySound'
<1> USE DEF PolicySound
<1>1. run.pc \in Policy!Working /\ UNCHANGED <<want, quiet>>
  BY DEF Policy!UpdateRejected, Policy!OperationFails, Policy!Killed, Policy!Working
<1>2. run.id \in Ids /\ saved.id = run.id /\ saved \in PolicyKnown /\ saved.id # NoId
      /\ trouble \in 0..MoreTrouble
  BY <1>1, PolicyWorkingFacts DEF Policy!TypeOK
<1>3. CASE Policy!UpdateRejected
  <2>1. want \in Policy!Values
    BY <1>3 DEF Policy!UpdateRejected, PolicyPurpose
  <2>2. saved' = [saved EXCEPT !.values = want] /\ UNCHANGED <<remote, trouble>>
    BY <1>3 DEF Policy!UpdateRejected
  <2>3. saved' \in PolicyKnown /\ saved'.id = saved.id
    BY <1>2, <2>1, <2>2, PolicyValuesType
  <2>4. run' \in PolicyRuns /\ run'.pc = "failed" /\ run'.id = run.id
    BY <1>3, PolicyGoesType DEF Policy!UpdateRejected, PolicyPCs, Policy!Ended
  <2> QED
    BY <1>1, <1>2, <2>2, <2>3, <2>4, PolicyLookingCareful, PolicyWorkingSound
<1>4. CASE Policy!OperationFails
  <2>1. PolicyCareful /\ trouble' \in 0..MoreTrouble /\ saved' = Policy!AfterError
    BY <1>4, PolicyLostCallCareful, PolicyTroubleType DEF Policy!OperationFails
  <2>2. run.op = "update" => want \in Policy!Values
    BY <1>1 DEF PolicyPurpose, Policy!Working
  <2>3. saved' \in PolicyKnown /\ saved'.id = saved.id
    BY <1>2, <2>1, <2>2, PolicyValuesType DEF Policy!AfterError
  <2>4. run' \in PolicyRuns /\ run'.pc = "failed" /\ run'.id = run.id
    BY <1>4, PolicyGoesType DEF Policy!OperationFails, PolicyPCs, Policy!Ended
  <2> QED
    BY <1>1, <1>2, <2>1, <2>3, <2>4, PolicyWorkingSound
<1>5. CASE Policy!Killed
  <2>1. PolicyCareful /\ trouble' \in 0..MoreTrouble /\ saved' = saved
    BY <1>5, PolicyLostCallCareful, PolicyTroubleType DEF Policy!Killed
  <2>2. run' \in PolicyRuns /\ run'.pc = "killed" /\ run'.id = run.id
    BY <1>5, PolicyGoesType DEF Policy!Killed, PolicyPCs, Policy!Ended
  <2> QED
    BY <1>1, <1>2, <2>1, <2>2, PolicyWorkingSound
<1> QED
  BY <1>3, <1>4, <1>5

-----------------------------------------------------------------------------
(* The loop of the create, where it has not created *)

LEMMA PolicyTryingSound ==
  ASSUME Policy!PolicyAssumption, PolicySound,
         \/ \/ Policy!PostConflict \/ Policy!NameIsTaken \/ Policy!FindNothing
         \/ Policy!AdoptRejected \/ Policy!FetchMissing
         \/ \/ Policy!AttemptFails \/ Policy!AttemptRefused
         \/ (Policy!Killed /\ run.pc \in Policy!Creating)
  PROVE  PolicySound'
<1> USE DEF PolicySound
<1>1. run.pc \in Policy!Creating /\ UNCHANGED <<want, quiet>> /\ trouble \in 0..MoreTrouble
  BY DEF Policy!PostConflict, Policy!NameIsTaken, Policy!FindNothing,
         Policy!AdoptRejected, Policy!FetchMissing, Policy!AttemptFails,
         Policy!AttemptRefused, Policy!Killed, Policy!Creating, Policy!TypeOK
<1>2. CASE Policy!PostConflict
  <2>1. run' \in PolicyRuns /\ run'.pc = "find" /\ run'.op = run.op /\ run'.id = run.id
    BY <1>2, PolicyGoesType DEF Policy!PostConflict, PolicyPCs, Policy!Creating
  <2> QED
    BY <1>1, <1>2, <2>1, PolicyLookingCareful, PolicyUnresolvedSound DEF Policy!PostConflict
<1>3. CASE Policy!FindNothing \/ Policy!AdoptRejected \/ Policy!FetchMissing
  <2>1. Policy!Retries /\ UNCHANGED <<remote, saved, trouble>>
    BY <1>3 DEF Policy!FindNothing, Policy!AdoptRejected, Policy!FetchMissing
  <2>2. run' \in PolicyRuns /\ run'.pc = "post" /\ run'.op = run.op /\ run'.id = run.id
    BY <2>1, PolicyRetriesType
  <2> QED
    BY <1>1, <2>1, <2>2, PolicyLookingCareful, PolicyUnresolvedSound
<1>4. CASE Policy!AttemptFails
  <2>1. Policy!Retries /\ PolicyCareful /\ saved' = saved /\ trouble' \in 0..MoreTrouble
    BY <1>4, PolicyLostCallCareful, PolicyTroubleType DEF Policy!AttemptFails
  <2>2. run' \in PolicyRuns /\ run'.pc = "post" /\ run'.op = run.op /\ run'.id = run.id
    BY <2>1, PolicyRetriesType
  <2> QED
    BY <1>1, <2>1, <2>2, PolicyUnresolvedSound
<1>5. CASE Policy!NameIsTaken \/ Policy!AttemptRefused
  <2>1. Policy!CreateFails /\ UNCHANGED remote /\ trouble' \in 0..MoreTrouble
    BY <1>1, <1>5, PolicyTroubleType DEF Policy!NameIsTaken, Policy!AttemptRefused
  <2> QED
    BY <1>1, <2>1, PolicyLookingCareful, PolicyCreateFailsSound
<1>6. CASE Policy!Killed
  <2>1. PolicyCareful /\ saved' = saved /\ trouble' \in 0..MoreTrouble
    BY <1>6, PolicyLostCallCareful, PolicyTroubleType DEF Policy!Killed
  <2>2. run' \in PolicyRuns /\ run'.pc = "killed" /\ run'.op = run.op /\ run'.id = run.id
    BY <1>6, PolicyGoesType DEF Policy!Killed, PolicyPCs, Policy!Ended
  <2> QED
    BY <1>1, <2>1, <2>2, PolicyUnresolvedSound
<1> QED
  BY <1>2, <1>3, <1>4, <1>5, <1>6

-----------------------------------------------------------------------------
(* Everybody else *)

LEMMA PolicyImportSound ==
  ASSUME Policy!PolicyAssumption, PolicySound, Policy!Import
  PROVE  PolicySound'
<1> USE DEF PolicySound
<1>1. PICK id \in Ids :
        /\ Policy!Trouble /\ run.pc \in Policy!Ended /\ saved.id = NoId /\ Policy!Exists(id)
        /\ saved' = Policy!Saved(id, FALSE, Policy!Shown(id))
        /\ remote' = [remote EXCEPT ![id].owner = "us"]
        /\ UNCHANGED <<want, run, quiet>>
  BY DEF Policy!Import
<1>2. remote[id] \in Policy!Policies /\ Policy!Shown(id) \in Policy!Values
  BY <1>1, PolicyType
<1>3. [remote[id] EXCEPT !.owner = "us"] \in Policy!Policies
      /\ [remote[id] EXCEPT !.owner = "us"].owner = "us"
  BY <1>2 DEF Policy!Policies
<1>4. /\ remote' \in [Ids -> Policy!Policies \cup {NoPolicy}]
      /\ remote'[id].owner = "us"
      /\ \A i \in Ids \ {id} : remote'[i] = remote[i]
  <2>1. remote' = [remote EXCEPT ![id] = [remote[id] EXCEPT !.owner = "us"]]
    BY <1>1
  <2> QED
    BY <1>3, <2>1 DEF Policy!TypeOK
<1>5. saved' \in PolicyKnown /\ saved'.id = id
  BY <1>1, <1>2, PolicyRecordType
<1>6. trouble' \in 0..MoreTrouble
  BY <1>1, PolicyTroubleType
<1>7. Policy!TypeOK'
  BY <1>1, <1>4, <1>5, <1>6 DEF Policy!TypeOK, PolicyKnown
<1>8. PolicyOwn'
  BY <1>1, <1>4, <1>5 DEF PolicyOwn, Policy!Exists
<1>9. run.pc \notin Policy!Creating \cup Policy!Working \cup {"fetch", "reread"}
  BY <1>1 DEF Policy!Ended, Policy!Creating, Policy!Working
<1>10. PolicyPurpose' /\ PolicyDelivered'
  BY <1>1, <1>9 DEF PolicyPurpose, PolicyDelivered, Policy!Creating, Policy!Working
<1>11. ~(run.pc = "done" /\ run.op \in {"create", "update"} /\ quiet)
  BY <1>1 DEF Policy!SuccessIsReal, Policy!Exists, Policy!PolicyAssumption
<1> QED
  BY <1>1, <1>7, <1>8, <1>10, <1>11 DEF Policy!SuccessIsReal

LEMMA PolicyEditConfigSound ==
  ASSUME Policy!PolicyAssumption, PolicySound, Policy!EditConfig
  PROVE  PolicySound'
<1> USE DEF PolicySound
<1>1. /\ run.pc \in Policy!Ended /\ UNCHANGED <<remote, saved, run>>
      /\ want' \in Policy!Values \cup {Absent} /\ quiet' = FALSE
      /\ trouble' \in 0..MoreTrouble
  BY PolicyTroubleType DEF Policy!EditConfig
<1>2. run.pc \notin Policy!Creating \cup Policy!Working \cup {"adopt", "fetch", "read",
          "plan", "put",
                                                "reread", "look", "delete"}
  BY <1>1 DEF Policy!Ended, Policy!Creating, Policy!Working
<1>3. Policy!TypeOK'
  BY <1>1 DEF Policy!TypeOK
<1>4. PolicyOwn'
  BY <1>1 DEF PolicyOwn, Policy!Exists
<1> QED
  BY <1>1, <1>2, <1>3, <1>4
  DEF PolicyPurpose, PolicyDelivered, Policy!SuccessIsReal, Policy!Creating,
      Policy!Working

LEMMA PolicyConsoleSound ==
  ASSUME Policy!PolicyAssumption, PolicySound, Policy!Console
  PROVE  PolicySound'
<1> USE DEF PolicySound
<1>1. UNCHANGED <<want, saved, run>> /\ quiet' = FALSE /\ trouble' \in 0..MoreTrouble
  BY PolicyTroubleType DEF Policy!Console
<1>2. /\ remote' \in [Ids -> Policy!Policies \cup {NoPolicy}]
      /\ \A id \in Ids : id \in {saved.id, run.id} /\ Policy!Exists(id)' =>
           /\ Policy!Exists(id)
           /\ remote'[id].kind = remote[id].kind
           /\ remote'[id].owner = remote[id].owner
  <2>1. ASSUME NEW v \in Policy!Values, Policy!Fresh # {},
               remote' = Policy!With(Policy!NewId, v, "plain", "them")
        PROVE  <1>2!1 /\ <1>2!2
    <3>1. Policy!NewId \in Policy!Fresh
      BY <2>1 DEF Policy!NewId
    <3>2. Policy!NewId \in Ids /\ Policy!NewId \notin {saved.id, run.id}
      BY <3>1 DEF Policy!Fresh
    <3> QED
      BY <2>1, <3>2, PolicyWithType DEF Policy!Exists
  <2>2. ASSUME NEW id \in Ids, NEW v \in Policy!Values, Policy!Exists(id),
               remote' = Policy!With(id, v, remote[id].kind, remote[id].owner)
        PROVE  <1>2!1 /\ <1>2!2
    <3>1. remote[id].kind \in {"plain", "readonly", "default"}
          /\ remote[id].owner \in {"us", "them"}
      BY <2>2, PolicyType DEF Policy!Policies
    <3> QED
      BY <2>2, <3>1, PolicyWithType DEF Policy!Exists
  <2>3. ASSUME NEW id \in Ids, remote' = [remote EXCEPT ![id] = NoPolicy]
        PROVE  <1>2!1 /\ <1>2!2
    BY <2>3 DEF Policy!Exists, Policy!TypeOK
  <2> QED
    BY <2>1, <2>2, <2>3 DEF Policy!Console
<1>3. Policy!TypeOK'
  BY <1>1, <1>2 DEF Policy!TypeOK
<1>4. PolicyOwn'
  BY <1>1, <1>2 DEF PolicyOwn
<1>5. run.pc = "delete" /\ Policy!Exists(run.id)' => remote'[run.id].kind = "plain"
  BY <1>1, <1>2 DEF PolicyPurpose, Policy!Working
<1> QED
  BY <1>1, <1>3, <1>4, <1>5
  DEF PolicyPurpose, PolicyDelivered, Policy!SuccessIsReal, Policy!Exists

-----------------------------------------------------------------------------
(* All steps *)

LEMMA PolicyInitSound ==
  ASSUME Policy!PolicyAssumption, Policy!Init
  PROVE  PolicySound
<1>1. PICK id \in Ids, kind \in {"default", "readonly"}, v \in Policy!Values :
        remote = [i \in Ids |-> IF i = id
                    THEN [name |-> v.name, settings |-> v.settings,
                          kind |-> kind, owner |-> "them"]
                    ELSE NoPolicy]
  BY DEF Policy!Init
<1>2. [name |-> v.name, settings |-> v.settings, kind |-> kind, owner |-> "them"]
        \in Policy!Policies
  BY DEF Policy!Values, Policy!Policies
<1>3. remote \in [Ids -> Policy!Policies \cup {NoPolicy}]
  BY <1>1, <1>2
<1>4. run \in PolicyRuns /\ run.pc = "idle" /\ run.id = NoId
  BY DEF Policy!Init, Policy!Run, PolicyRuns, PolicyPCs, PolicyOps, Policy!Ended
<1>5. saved = Policy!NotSaved /\ saved.id = NoId
  BY DEF Policy!Init, Policy!NotSaved
<1>6. Policy!TypeOK
  <2>1. trouble \in 0..MoreTrouble
    BY DEF Policy!Init, Policy!PolicyAssumption
  <2>2. run \in [pc: Policy!Ended \cup Policy!Creating \cup Policy!Working,
                 op: {"none", "create", "update", "delete"},
                 id: Ids \cup {NoId}, retried: BOOLEAN]
    BY <1>4 DEF PolicyRuns, PolicyPCs, PolicyOps
  <2>3. want \in Policy!Values /\ quiet \in BOOLEAN
    BY DEF Policy!Init
  <2> QED
    BY <1>3, <1>5, <2>1, <2>2, <2>3 DEF Policy!TypeOK
<1>7. PolicyOwn
  BY <1>4, <1>5 DEF PolicyOwn, Policy!PolicyAssumption
<1>8. PolicyPurpose /\ PolicyDelivered /\ Policy!SuccessIsReal
  BY <1>4
  DEF PolicyPurpose, PolicyDelivered, Policy!SuccessIsReal, Policy!Creating,
      Policy!Working
<1> QED
  BY <1>6, <1>7, <1>8 DEF PolicySound

LEMMA PolicyNextSound ==
  ASSUME Policy!PolicyAssumption, PolicySound, [Policy!Next]_(Policy!vars)
  PROVE  PolicySound'
<1>1. CASE Policy!StartApply
  BY <1>1, PolicyStartApplySound
<1>2. CASE \/ Policy!PostCreated \/ Policy!FindDefault \/ Policy!Adopt \/ Policy!Fetch
           \/ Policy!CutOff
  BY <1>2, PolicyPostCreatedSound, PolicyFindDefaultSound, PolicyAdoptSound,
    PolicyFetchSound, PolicyCutOffSound
<1>3. CASE \/ \/ Policy!PostConflict \/ Policy!NameIsTaken \/ Policy!FindNothing
           \/ Policy!AdoptRejected \/ Policy!FetchMissing
           \/ Policy!AttemptFails \/ Policy!AttemptRefused
  BY <1>3, PolicyTryingSound
<1>4. CASE Policy!Read \/ Policy!Plan \/ Policy!Update \/ Policy!Reread
  BY <1>4, PolicyReadSound, PolicyPlanSound, PolicyUpdateSound, PolicyRereadSound
<1>5. CASE Policy!LeaveAlone \/ Policy!Look \/ Policy!DeleteDone \/ Policy!DeleteRefused
  BY <1>5, PolicyDeletingSound
<1>6. CASE Policy!UpdateRejected \/ Policy!OperationFails
  BY <1>6, PolicyWorkFailsSound
<1>7. CASE Policy!Killed
  <2>1. run.pc \in Policy!Creating \/ run.pc \in Policy!Working
    BY <1>7 DEF Policy!Killed
  <2> QED
    BY <1>7, <2>1, PolicyWorkFailsSound, PolicyTryingSound
<1>8. CASE Policy!Import \/ Policy!EditConfig \/ Policy!Console
  BY <1>8, PolicyImportSound, PolicyEditConfigSound, PolicyConsoleSound
<1>9. CASE UNCHANGED Policy!vars
  <2>1. UNCHANGED <<remote, want, saved, run, quiet, trouble>>
    BY <1>9 DEF Policy!vars
  <2>2. Policy!TypeOK' /\ PolicyPurpose'
    BY <2>1 DEF PolicySound, Policy!TypeOK, PolicyPurpose, Policy!Exists
  <2>3. PolicyOwn'
    BY <2>1 DEF PolicySound, PolicyOwn, Policy!Exists
  <2>4. PolicyDelivered' /\ Policy!SuccessIsReal'
    BY <2>1
    DEF PolicySound, PolicyDelivered, Policy!SuccessIsReal, Policy!Exists, Policy!Shown
  <2> QED
    BY <2>2, <2>3, <2>4 DEF PolicySound
<1> QED
  BY <1>1, <1>2, <1>3, <1>4, <1>5, <1>6, <1>7, <1>8, <1>9 DEF Policy!Next, Policy!Terraform

LEMMA PolicyAlwaysSound == ASSUME Policy!PolicyAssumption PROVE Policy!Spec => []PolicySound
<1>1. Policy!Init => PolicySound
  BY PolicyInitSound
<1>2. PolicySound /\ [Policy!Next]_(Policy!vars) => PolicySound'
  BY PolicyNextSound
<1> QED
  BY <1>1, <1>2, PTL DEF Policy!Spec

\* Whoever else changes policies does so in a step of their own.
LEMMA PolicyTerraformCareful ==
  ASSUME Policy!PolicyAssumption, PolicySound, [Policy!Next]_(Policy!vars), run' # run
  PROVE  PolicyCareful
<1>1. CASE Policy!PostCreated \/ Policy!Adopt \/ Policy!Update \/ Policy!DeleteDone
  BY <1>1, PolicyPutCareful, PolicyPostCareful, PolicyDeleteCareful
  DEF Policy!PostCreated, Policy!Adopt, Policy!Update, Policy!DeleteDone
<1>2. CASE Policy!AttemptFails \/ Policy!CutOff \/ Policy!OperationFails \/ Policy!Killed
  BY <1>2, PolicyLostCallCareful
  DEF Policy!AttemptFails, Policy!CutOff, Policy!OperationFails, Policy!Killed
<1>3. CASE \/ \/ Policy!StartApply \/ Policy!PostConflict \/ Policy!NameIsTaken
           \/ Policy!FindDefault \/ Policy!FindNothing
           \/ \/ Policy!AdoptRejected \/ Policy!Fetch \/ Policy!FetchMissing \/ Policy!Read
           \/ Policy!Plan \/ Policy!UpdateRejected
           \/ \/ Policy!Reread \/ Policy!LeaveAlone \/ Policy!Look \/ Policy!DeleteRefused
           \/ Policy!AttemptRefused
  <2>1. UNCHANGED remote
    BY <1>3
    DEF Policy!StartApply, Policy!PostConflict, Policy!NameIsTaken, Policy!FindDefault,
        Policy!FindNothing, Policy!AdoptRejected, Policy!Fetch, Policy!FetchMissing,
        Policy!Read, Policy!Plan, Policy!UpdateRejected, Policy!Reread, Policy!LeaveAlone,
        Policy!Look, Policy!DeleteRefused, Policy!AttemptRefused
  <2> QED
    BY <2>1, PolicyLookingCareful
<1>4. CASE Policy!Import \/ Policy!EditConfig \/ Policy!Console \/ UNCHANGED Policy!vars
  BY <1>4 DEF Policy!Import, Policy!EditConfig, Policy!Console, Policy!vars
<1> QED
  BY <1>1, <1>2, <1>3, <1>4 DEF Policy!Next, Policy!Terraform

LEMMA PolicyCreateKeepsId ==
  ASSUME Policy!PolicyAssumption, PolicySound, [Policy!Next]_(Policy!vars)
  PROVE  Policy!KnownLoss
<1> SUFFICES ASSUME run.pc \in Policy!Creating, run.id # NoId,
                    run'.pc \in Policy!Ended \ {"killed"}
             PROVE  saved'.id = run.id
  BY DEF Policy!KnownLoss
<1>1. run.pc \notin Policy!Ended \cup Policy!Working /\ run' # run
  BY DEF Policy!Ended, Policy!Creating, Policy!Working
<1>2. CASE Policy!NameIsTaken \/ Policy!AttemptRefused
  <2>1. Policy!CreateFails
    BY <1>2 DEF Policy!NameIsTaken, Policy!AttemptRefused
  <2>2. run.id \in Ids /\ want \in Policy!Values
    BY DEF PolicySound, Policy!TypeOK, PolicyPurpose
  <2> QED
    BY <2>1, <2>2, PolicyRecordType DEF Policy!CreateFails, Policy!AfterCreateError
<1>3. CASE Policy!CutOff
  BY <1>3, PolicyCutOffSound
<1>4. CASE Policy!Fetch
  BY <1>4 DEF Policy!Fetch, Policy!Saved
<1>5. CASE \/ \/ Policy!PostCreated \/ Policy!PostConflict \/ Policy!FindDefault
           \/ Policy!FindNothing \/ Policy!Adopt
           \/ \/ Policy!AdoptRejected \/ Policy!FetchMissing \/ Policy!AttemptFails
           \/ Policy!Killed
  <2>1. run'.pc \in Policy!Creating \cup {"killed"}
    BY <1>5
    DEF Policy!PostCreated, Policy!PostConflict, Policy!FindDefault, Policy!FindNothing,
        Policy!Adopt, Policy!AdoptRejected, Policy!FetchMissing, Policy!AttemptFails,
        Policy!Killed, Policy!Goes, Policy!Retries, Policy!Creating, PolicySound,
        Policy!TypeOK
  <2> QED
    BY <2>1 DEF Policy!Ended, Policy!Creating
<1>6. CASE \/ \/ Policy!StartApply \/ Policy!Read \/ Policy!Plan \/ Policy!Update
           \/ Policy!UpdateRejected \/ Policy!Reread
           \/ \/ Policy!LeaveAlone \/ Policy!Look \/ Policy!DeleteDone
           \/ Policy!DeleteRefused \/ Policy!OperationFails
  BY <1>1, <1>6
  DEF Policy!StartApply, Policy!Read, Policy!Plan, Policy!Update, Policy!UpdateRejected,
      Policy!Reread, Policy!LeaveAlone, Policy!Look, Policy!DeleteDone, Policy!Delete,
      Policy!DeleteRefused, Policy!OperationFails, Policy!Working
<1>7. CASE Policy!Import \/ Policy!EditConfig \/ Policy!Console \/ UNCHANGED Policy!vars
  BY <1>1, <1>7 DEF Policy!Import, Policy!EditConfig, Policy!Console, Policy!vars
<1> QED
  BY <1>2, <1>3, <1>4, <1>5, <1>6, <1>7 DEF Policy!Next, Policy!Terraform

-----------------------------------------------------------------------------
\* The typing of a workload scaling policy resource.
THEOREM PolicyTyping == ASSUME Policy!PolicyAssumption PROVE Policy!Spec => []Policy!TypeOK
<1>1. PolicySound => Policy!TypeOK
  BY DEF PolicySound
<1> QED
  BY <1>1, PolicyAlwaysSound, PTL

\* Whatever attempts of a create were carried out and not answered, an apply
\* that ends without an error has configured the policy it knows.
THEOREM PolicySuccess ==
  ASSUME Policy!PolicyAssumption
  PROVE  Policy!Spec => []Policy!SuccessIsReal
<1>1. PolicySound => Policy!SuccessIsReal
  BY DEF PolicySound
<1> QED
  BY <1>1, PolicyAlwaysSound, PTL

\* Create, update and delete change no policy of others except the default one,
\* and delete none CAST AI brought.
THEOREM PolicyLeavesOthers ==
  ASSUME Policy!PolicyAssumption
  PROVE  Policy!Spec => Policy!OthersLeftAlone
<1>1. PolicySound /\ [Policy!Next]_(Policy!vars) => [Policy!LeavesOthers]_(Policy!vars)
  BY PolicyTerraformCareful DEF Policy!LeavesOthers, PolicyCareful
<1> QED
  BY <1>1, PolicyAlwaysSound, PTL DEF Policy!Spec, Policy!OthersLeftAlone

\* A create that knows an ID and returns, in success or failure or at its
\* deadline, leaves this ID in the state.
THEOREM PolicyLosses ==
  ASSUME Policy!PolicyAssumption
  PROVE  Policy!Spec => Policy!OnlyKnownLosses
<1>1. PolicySound /\ [Policy!Next]_(Policy!vars) => [Policy!KnownLoss]_(Policy!vars)
  BY PolicyCreateKeepsId
<1> QED
  BY <1>1, PolicyAlwaysSound, PTL DEF Policy!Spec, Policy!OnlyKnownLosses

-----------------------------------------------------------------------------
(* What is reached stays reached *)

LEMMA PolicyReachedStays ==
  ASSUME Policy!Reached, UNCHANGED <<remote, want, saved>>
  PROVE  Policy!Reached'
BY DEF Policy!Reached, Policy!Exists, Policy!Shown

\* A run of what is reached reads it, plans nothing and ends.
LEMMA PolicyRests ==
  ASSUME Policy!PolicyAssumption, Policy!TypeOK, Policy!AtRest, [Policy!Next]_(Policy!vars),
         trouble' = trouble
  PROVE  Policy!AtRest'
<1>1. ~Policy!Trouble
  BY DEF Policy!Trouble, Policy!TypeOK, Policy!PolicyAssumption
<1>2. \A pc : /\ Policy!Run(pc, "none", saved.id, FALSE).pc = pc
              /\ Policy!Run(pc, "none", saved.id, FALSE).id = saved.id
  BY DEF Policy!Run
<1>3. run.pc \in Policy!Ended \cup {"read", "plan"}
  BY <1>2 DEF Policy!AtRest
<1>4. run.pc \in {"read", "plan"} =>
        want # Absent /\ run = Policy!Run(run.pc, "none", saved.id, FALSE)
  BY <1>2 DEF Policy!AtRest, Policy!Ended
<1>5. want # Absent =>
        Policy!Exists(saved.id) /\ Policy!Shown(saved.id) = want
        /\ saved = Policy!Saved(saved.id, FALSE, want)
  BY DEF Policy!AtRest, Policy!Reached
<1>6. CASE Policy!StartApply
  <2>1. UNCHANGED <<remote, want, saved>>
    BY <1>6 DEF Policy!StartApply
  <2>2. CASE saved.id # NoId
    <3>1. want # Absent
      BY <2>2 DEF Policy!AtRest, Policy!Reached
    <3>2. run' = Policy!Run("read", "none", saved.id, FALSE)
      BY <1>6, <2>2 DEF Policy!StartApply, Policy!Starts
    <3> QED
      BY <2>1, <3>1, <3>2, PolicyReachedStays DEF Policy!AtRest
  <2>3. CASE saved.id = NoId
    <3>1. want = Absent
      BY <1>5, <2>3 DEF Policy!Exists, Policy!PolicyAssumption
    <3>2. run'.pc = "done"
      BY <1>6, <2>3, <3>1 DEF Policy!StartApply, Policy!Starts, Policy!Run
    <3> QED
      BY <2>1, <3>2, PolicyReachedStays DEF Policy!AtRest, Policy!Ended
  <2> QED
    BY <2>2, <2>3
<1>7. CASE Policy!Read
  <2>1. /\ run = Policy!Run("read", "none", saved.id, FALSE) /\ want # Absent
        /\ UNCHANGED <<remote, want>>
    BY <1>4, <1>7 DEF Policy!Read
  <2>2. /\ run.id = saved.id
        /\ saved' = [saved EXCEPT !.values = Policy!Shown(run.id)]
        /\ Policy!Goes("plan")
    BY <1>2, <1>5, <1>7, <2>1 DEF Policy!Read
  <2>3. saved' = saved
    BY <1>5, <2>1, <2>2 DEF Policy!Saved
  <2>4. run' = Policy!Run("plan", "none", saved.id, FALSE)
    BY <2>1, <2>2 DEF Policy!Goes, Policy!Run
  <2> QED
    BY <2>1, <2>3, <2>4, PolicyReachedStays DEF Policy!AtRest
<1>8. CASE Policy!Plan
  <2>1. want # Absent /\ UNCHANGED <<remote, want, saved>>
    BY <1>4, <1>8 DEF Policy!Plan
  <2>2. ~saved.tainted /\ saved.values = want
    BY <1>5, <2>1 DEF Policy!Saved
  <2>3. run' = [run EXCEPT !.pc = "done"]
    BY <1>8, <2>1, <2>2 DEF Policy!Plan, Policy!Goes
  <2>4. run'.pc = "done"
    BY <2>3 DEF Policy!TypeOK
  <2> QED
    BY <2>1, <2>4, PolicyReachedStays DEF Policy!AtRest, Policy!Ended
<1>9. CASE UNCHANGED Policy!vars
  BY <1>9, PolicyReachedStays DEF Policy!vars, Policy!AtRest
<1>10. Policy!StartApply \/ Policy!Read \/ Policy!Plan \/ UNCHANGED Policy!vars
  <2>1. run.pc \notin {"find", "adopt", "post", "fetch", "put", "reread", "look", "delete"}
    BY <1>3 DEF Policy!Ended
  <2> QED
    BY <1>1, <2>1
    DEF Policy!Next, Policy!Terraform, Policy!PostCreated, Policy!Post, Policy!PostConflict,
        Policy!NameIsTaken, Policy!FindDefault, Policy!FindNothing, Policy!Adopt,
        Policy!AdoptRejected, Policy!Fetch, Policy!FetchMissing, Policy!Update,
        Policy!UpdateRejected, Policy!Reread, Policy!LeaveAlone, Policy!Look,
        Policy!DeleteDone, Policy!Delete, Policy!DeleteRefused, Policy!AttemptFails,
        Policy!AttemptRefused, Policy!CutOff, Policy!OperationFails, Policy!Killed,
        Policy!Import, Policy!EditConfig, Policy!Console
<1> QED
  BY <1>6, <1>7, <1>8, <1>9, <1>10

-----------------------------------------------------------------------------
(* Settings that workspaces share *)

SettingPurpose(s) ==
  /\ run[s].pc \in {"put", "read"} => want[s] \in Settings /\ run[s].op \in {"create", "update"}
  /\ run[s].pc \in {"refresh", "plan"} => saved[s] # Setting!NotSaved /\ run[s].op = "none"
  /\ run[s].pc = "clear" => run[s].op = "delete"

SettingInsight(s) == quiet[s] =>
  /\ run[s].pc = "plan" => saved[s].value \in {remote.value, Empty}
  /\ run[s].pc = "read" => remote.value = want[s]

SettingReal(s) == run[s].pc = "done" /\ quiet[s] /\ want[s] # Absent =>
  remote.value = want[s] /\ saved[s] = Setting!Saved("ok", want[s])

SettingGood(s) == SettingPurpose(s) /\ SettingInsight(s) /\ SettingReal(s)

SettingSound == Setting!TypeOK /\ \A s \in Spaces : SettingGood(s)

-----------------------------------------------------------------------------
(* The records the actions build *)

SettingRemotes == [kind: Kinds, value: Setting!AllValues, gone: SUBSET Settings]
SettingKnown == [status: {"ok", "tainted", "imported"}, value: Setting!AllValues]
SettingPCs == Setting!Ended \cup Setting!Steps
SettingOps == {"none", "create", "update", "delete"}
SettingRuns == [pc: SettingPCs, op: SettingOps]

LEMMA SettingRunType ==
  ASSUME NEW pc \in SettingPCs, NEW op \in SettingOps
  PROVE  /\ Setting!Run(pc, op) \in SettingRuns /\ Setting!Run(pc, op).pc = pc
         /\ Setting!Run(pc, op).op = op
BY DEF Setting!Run, SettingRuns

LEMMA SettingSavedType ==
  ASSUME NEW status \in {"ok", "tainted", "imported"}, NEW value \in Setting!AllValues
  PROVE  /\ Setting!Saved(status, value) \in SettingKnown
         /\ Setting!Saved(status, value) # Setting!NotSaved
         /\ Setting!Saved(status, value).value = value
         /\ Setting!Saved(status, value).status = status
BY DEF Setting!Saved, SettingKnown, Setting!NotSaved

LEMMA SettingKnownType ==
  ASSUME Setting!SettingAssumption, Setting!TypeOK, NEW s \in Spaces
  PROVE  /\ saved[s] \in {Setting!NotSaved} \cup SettingKnown
         /\ saved[s] # Setting!NotSaved => saved[s] \in SettingKnown
         /\ saved[s].value \in Setting!AllValues
         /\ run[s] \in SettingRuns
         /\ want[s] \in Settings \cup {Absent}
         /\ remote \in SettingRemotes
         /\ want[s] \in Settings => want[s] \in Setting!AllValues
BY DEF Setting!TypeOK, SettingKnown, Setting!NotSaved, Setting!AllValues, SettingRemotes,
       SettingRuns, SettingPCs, SettingOps

LEMMA SettingTroubleType ==
  ASSUME Setting!SettingAssumption, Setting!TypeOK, Setting!Trouble
  PROVE  trouble' \in 0..MaxTrouble
BY DEF Setting!SettingAssumption, Setting!TypeOK, Setting!Trouble

LEMMA SettingReadValueType ==
  ASSUME Setting!TypeOK, NEW id \in Setting!AllValues
  PROVE  /\ Setting!ReadValue(id) \in Setting!AllValues
         /\ Setting!ReadValue(id) \in {remote.value, Empty}
         /\ id = remote.value => Setting!ReadValue(id) = id
BY DEF Setting!TypeOK, Setting!ReadValue, Setting!AllValues

-----------------------------------------------------------------------------
(* One workspace at a time *)

\* The others notice nothing, or that they have been disturbed.
SettingUndisturbed(s) ==
  \A t \in Spaces \ {s} : quiet'[t] => quiet[t] /\ remote'.value = remote.value

LEMMA SettingOthersGood ==
  ASSUME SettingSound, NEW s \in Spaces, SettingUndisturbed(s),
         \A t \in Spaces \ {s} : want'[t] = want[t] /\ saved'[t] = saved[t] /\ run'[t] = run[t]
  PROVE  \A t \in Spaces \ {s} : SettingGood(t)'
<1> SUFFICES ASSUME NEW t \in Spaces \ {s} PROVE SettingGood(t)'
  OBVIOUS
<1>1. /\ want'[t] = want[t] /\ saved'[t] = saved[t] /\ run'[t] = run[t]
      /\ quiet'[t] => quiet[t] /\ remote'.value = remote.value
  BY DEF SettingUndisturbed
<1>2. SettingGood(t)
  BY DEF SettingSound
<1>3. SettingPurpose(t)'
  BY <1>1, <1>2 DEF SettingGood, SettingPurpose
<1>4. SettingInsight(t)'
  BY <1>1, <1>2 DEF SettingGood, SettingInsight
<1>5. SettingReal(t)'
  BY <1>1, <1>2 DEF SettingGood, SettingReal
<1> QED
  BY <1>3, <1>4, <1>5 DEF SettingGood

LEMMA SettingQuietType ==
  ASSUME SettingSound, NEW s \in Spaces, NEW value \in Setting!AllValues,
         Setting!Writes(s, value)
  PROVE  /\ remote' \in SettingRemotes /\ remote'.value = value
         /\ remote'.kind = remote.kind /\ remote'.gone = remote.gone
         /\ quiet' \in [Spaces -> BOOLEAN]
         /\ quiet'[s] => quiet[s]
         /\ SettingUndisturbed(s)
<1>1. remote' = [remote EXCEPT !.value = value]
  BY DEF Setting!Writes
<1>2. remote' \in SettingRemotes /\ remote'.value = value
      /\ remote'.kind = remote.kind /\ remote'.gone = remote.gone
  BY <1>1 DEF SettingSound, Setting!TypeOK, SettingRemotes
<1>3. quiet' = [t \in Spaces |-> quiet[t] /\ t = s]
  BY DEF Setting!Writes
<1>4. quiet' \in [Spaces -> BOOLEAN]
  BY Zenon, <1>3
<1>5. quiet'[s] => quiet[s]
  BY Zenon, <1>3
<1>6. \A t \in Spaces \ {s} : ~quiet'[t]
  BY Zenon, <1>3
<1>7. SettingUndisturbed(s)
  BY <1>6 DEF SettingUndisturbed
<1> QED
  BY <1>2, <1>4, <1>5, <1>7

\* The frame of a step of one workspace: it saves, goes on, and is good.
LEMMA SettingStepSound ==
  ASSUME Setting!SettingAssumption, SettingSound, NEW s \in Spaces, NEW next \in SettingRuns,
         NEW record \in {Setting!NotSaved} \cup SettingKnown,
         run' = [run EXCEPT ![s] = next], saved' = [saved EXCEPT ![s] = record],
         UNCHANGED want, remote' \in SettingRemotes, quiet' \in [Spaces -> BOOLEAN],
         trouble' \in 0..MaxTrouble, SettingUndisturbed(s),
         next.op = "update" => record # Setting!NotSaved,
         SettingGood(s)'
  PROVE  SettingSound'
<1> USE DEF SettingSound
<1>1. /\ run' \in [Spaces -> SettingRuns]
      /\ saved' \in [Spaces -> {Setting!NotSaved} \cup SettingKnown]
  BY DEF Setting!TypeOK, SettingRuns, SettingPCs, SettingOps, SettingKnown
<1>2. \A t \in Spaces \ {s} : want'[t] = want[t] /\ saved'[t] = saved[t] /\ run'[t] = run[t]
  BY DEF Setting!TypeOK
<1>3. \A t \in Spaces : run'[t].op = "update" => saved'[t] # Setting!NotSaved
  <2>1. run'[s] = next /\ saved'[s] = record
    BY DEF Setting!TypeOK
  <2> QED
    BY <1>2, <2>1 DEF Setting!TypeOK
<1>4. Setting!TypeOK'
  BY <1>1, <1>3
  DEF Setting!TypeOK, SettingRuns, SettingPCs, SettingOps, SettingKnown, SettingRemotes
<1>5. \A t \in Spaces \ {s} : SettingGood(t)'
  BY <1>2, SettingOthersGood
<1> QED
  BY <1>4, <1>5

LEMMA SettingLookingType ==
  ASSUME SettingSound, NEW s \in Spaces, UNCHANGED remote,
         quiet' = quiet \/ quiet' = [quiet EXCEPT ![s] = TRUE]
  PROVE  remote' \in SettingRemotes /\ quiet' \in [Spaces -> BOOLEAN] /\ SettingUndisturbed(s)
<1>1. remote' \in SettingRemotes
  BY DEF SettingSound, Setting!TypeOK, SettingRemotes
<1>2. quiet' \in [Spaces -> BOOLEAN]
  BY DEF SettingSound, Setting!TypeOK
<1>3. \A t \in Spaces \ {s} : quiet'[t] = quiet[t]
  BY DEF SettingSound, Setting!TypeOK
<1> QED
  BY <1>1, <1>2, <1>3 DEF SettingUndisturbed

LEMMA SettingSavedAlone ==
  ASSUME SettingSound, NEW s \in Spaces, UNCHANGED saved
  PROVE  saved' = [saved EXCEPT ![s] = saved[s]]
BY DEF SettingSound, Setting!TypeOK

\* A step that goes where nothing is promised.
LEMMA SettingPlainGood ==
  ASSUME Setting!SettingAssumption, SettingSound, NEW s \in Spaces, NEW pc \in SettingPCs,
         NEW op \in SettingOps,
         run' = [run EXCEPT ![s] = Setting!Run(pc, op)],
         pc \in {"failed", "clear", "done", "put"},
         pc = "clear" => op = "delete",
         pc = "put" => want'[s] \in Settings /\ op \in {"create", "update"},
         pc = "done" => want'[s] = Absent
  PROVE  SettingGood(s)'
<1>1. run'[s].pc = pc /\ run'[s].op = op
  BY SettingRunType DEF SettingSound, Setting!TypeOK
<1> QED
  BY <1>1 DEF SettingGood, SettingPurpose, SettingInsight, SettingReal

-----------------------------------------------------------------------------
(* The steps of Terraform *)

LEMMA SettingStartApplySound ==
  ASSUME Setting!SettingAssumption, SettingSound, NEW s \in Spaces, Setting!StartApply(s)
  PROVE  SettingSound'
<1>1. UNCHANGED <<remote, want, saved, trouble>> /\ quiet' = [quiet EXCEPT ![s] = TRUE]
  BY DEF Setting!StartApply
<1>2. remote' \in SettingRemotes /\ quiet' \in [Spaces -> BOOLEAN] /\ SettingUndisturbed(s)
      /\ saved' = [saved EXCEPT ![s] = saved[s]]
      /\ saved[s] \in {Setting!NotSaved} \cup SettingKnown
      /\ trouble' \in 0..MaxTrouble
  BY <1>1, SettingLookingType, SettingSavedAlone, SettingKnownType
  DEF SettingSound, Setting!TypeOK
<1>3. CASE saved[s] # Setting!NotSaved
  <2>1. run' = [run EXCEPT ![s] = Setting!Run("refresh", "none")]
    BY <1>3 DEF Setting!StartApply, Setting!Goes
  <2>2. /\ Setting!Run("refresh", "none") \in SettingRuns
        /\ Setting!Run("refresh", "none").pc = "refresh"
        /\ Setting!Run("refresh", "none").op = "none"
    BY SettingRunType DEF SettingPCs, SettingOps, Setting!Steps
  <2>3. run'[s].pc = "refresh" /\ run'[s].op = "none"
    BY <2>1, <2>2 DEF SettingSound, Setting!TypeOK
  <2>4. SettingGood(s)'
    BY <1>1, <1>3, <2>3 DEF SettingGood, SettingPurpose, SettingInsight, SettingReal
  <2> QED
    BY <1>1, <1>2, <2>1, <2>2, <2>4, SettingStepSound
<1>4. CASE saved[s] = Setting!NotSaved /\ want[s] # Absent
  <2>1. run' = [run EXCEPT ![s] = Setting!Run("put", "create")]
    BY <1>4 DEF Setting!StartApply, Setting!Goes
  <2>2. /\ Setting!Run("put", "create") \in SettingRuns
        /\ Setting!Run("put", "create").op = "create"
    BY SettingRunType DEF SettingPCs, SettingOps, Setting!Steps
  <2>3. SettingGood(s)'
    BY <1>1, <1>4, <2>1, SettingKnownType, SettingPlainGood
    DEF SettingPCs, SettingOps, Setting!Steps, SettingSound
  <2> QED
    BY <1>1, <1>2, <2>1, <2>2, <2>3, SettingStepSound
<1>5. CASE saved[s] = Setting!NotSaved /\ want[s] = Absent
  <2>1. run' = [run EXCEPT ![s] = Setting!Run("done", "none")]
    BY <1>5 DEF Setting!StartApply, Setting!Goes
  <2>2. Setting!Run("done", "none") \in SettingRuns /\ Setting!Run("done", "none").op = "none"
    BY SettingRunType DEF SettingPCs, SettingOps, Setting!Ended
  <2>3. SettingGood(s)'
    BY <1>1, <1>5, <2>1, SettingPlainGood
    DEF SettingPCs, SettingOps, Setting!Ended, SettingSound
  <2> QED
    BY <1>1, <1>2, <2>1, <2>2, <2>3, SettingStepSound
<1> QED
  BY <1>3, <1>4, <1>5

LEMMA SettingRefreshSound ==
  ASSUME Setting!SettingAssumption, SettingSound, NEW s \in Spaces, Setting!Refresh(s)
  PROVE  SettingSound'
<1> DEFINE value == Setting!ReadValue(saved[s].value)
           record == Setting!Saved(saved[s].status, value)
<1>1. run[s].pc = "refresh" /\ UNCHANGED <<remote, want, quiet, trouble>>
  BY DEF Setting!Refresh
<1>2. saved[s] # Setting!NotSaved
  BY <1>1 DEF SettingSound, SettingGood, SettingPurpose
<1>3. saved[s] \in SettingKnown /\ saved[s].value \in Setting!AllValues
  BY <1>2, SettingKnownType DEF SettingSound
<1>4. value \in Setting!AllValues /\ value \in {remote.value, Empty}
  BY <1>3, SettingReadValueType DEF SettingSound
<1>5. saved[s].status \in {"ok", "tainted", "imported"}
  BY <1>3 DEF SettingKnown
<1>6. /\ saved' = [saved EXCEPT ![s] = record]
      /\ run' = [run EXCEPT ![s] = Setting!Run("plan", "none")]
  BY DEF Setting!Refresh, Setting!Saves, Setting!Goes
<1> HIDE DEF value
<1>7. record \in SettingKnown /\ record # Setting!NotSaved /\ record.value = value
  BY <1>4, <1>5, SettingSavedType
<1> HIDE DEF record
<1>8. /\ Setting!Run("plan", "none") \in SettingRuns
      /\ Setting!Run("plan", "none").pc = "plan" /\ Setting!Run("plan", "none").op = "none"
  BY SettingRunType DEF SettingPCs, SettingOps, Setting!Steps
<1>9. run'[s].pc = "plan" /\ run'[s].op = "none" /\ saved'[s] = record
  BY <1>6, <1>8 DEF SettingSound, Setting!TypeOK
<1>10. SettingGood(s)'
  BY <1>1, <1>4, <1>7, <1>9 DEF SettingGood, SettingPurpose, SettingInsight, SettingReal
<1>11. remote' \in SettingRemotes /\ quiet' \in [Spaces -> BOOLEAN] /\ SettingUndisturbed(s)
       /\ trouble' \in 0..MaxTrouble
  BY <1>1, SettingLookingType DEF SettingSound, Setting!TypeOK
<1> QED
  BY <1>1, <1>6, <1>7, <1>8, <1>10, <1>11, SettingStepSound

LEMMA SettingRefreshForgetsSound ==
  ASSUME Setting!SettingAssumption, SettingSound, NEW s \in Spaces, Setting!RefreshForgets(s)
  PROVE  SettingSound'
<1>1. /\ UNCHANGED <<remote, want, quiet, trouble>>
      /\ saved' = [saved EXCEPT ![s] = Setting!NotSaved]
  BY DEF Setting!RefreshForgets
<1>2. remote' \in SettingRemotes /\ quiet' \in [Spaces -> BOOLEAN] /\ SettingUndisturbed(s)
      /\ trouble' \in 0..MaxTrouble
  BY <1>1, SettingLookingType DEF SettingSound, Setting!TypeOK
<1>3. CASE want[s] = Absent
  <2>1. run' = [run EXCEPT ![s] = Setting!Run("done", "none")]
    BY <1>3 DEF Setting!RefreshForgets, Setting!Goes
  <2>2. Setting!Run("done", "none") \in SettingRuns /\ Setting!Run("done", "none").op = "none"
    BY SettingRunType DEF SettingPCs, SettingOps, Setting!Ended
  <2>3. SettingGood(s)'
    BY <1>1, <1>3, <2>1, SettingPlainGood
    DEF SettingPCs, SettingOps, Setting!Ended, SettingSound
  <2> QED
    BY <1>1, <1>2, <2>1, <2>2, <2>3, SettingStepSound
<1>4. CASE want[s] # Absent
  <2>1. run' = [run EXCEPT ![s] = Setting!Run("put", "create")]
    BY <1>4 DEF Setting!RefreshForgets, Setting!Goes
  <2>2. /\ Setting!Run("put", "create") \in SettingRuns
        /\ Setting!Run("put", "create").op = "create"
    BY SettingRunType DEF SettingPCs, SettingOps, Setting!Steps
  <2>3. SettingGood(s)'
    BY <1>1, <1>4, <2>1, SettingKnownType, SettingPlainGood
    DEF SettingPCs, SettingOps, Setting!Steps, SettingSound
  <2> QED
    BY <1>1, <1>2, <2>1, <2>2, <2>3, SettingStepSound
<1> QED
  BY <1>3, <1>4

LEMMA SettingPlanSound ==
  ASSUME Setting!SettingAssumption, SettingSound, NEW s \in Spaces, Setting!Plan(s)
  PROVE  SettingSound'
<1> DEFINE next == IF remote.kind = "reservations" THEN "clear"
                   ELSE IF want[s] = Absent THEN "done" ELSE "put"
           op == IF remote.kind = "reservations" \/ want[s] = Absent
                 THEN "delete" ELSE "create"
<1>1. run[s].pc = "plan" /\ UNCHANGED <<remote, want, quiet, trouble>>
  BY DEF Setting!Plan
<1>2. remote' \in SettingRemotes /\ quiet' \in [Spaces -> BOOLEAN] /\ SettingUndisturbed(s)
      /\ trouble' \in 0..MaxTrouble
  BY <1>1, SettingLookingType DEF SettingSound, Setting!TypeOK
<1>3. /\ saved[s] # Setting!NotSaved /\ saved[s] \in SettingKnown /\ run[s] \in SettingRuns
      /\ want[s] \in Settings \cup {Absent}
      /\ quiet[s] => saved[s].value \in {remote.value, Empty}
  BY <1>1, SettingKnownType DEF SettingSound, SettingGood, SettingPurpose, SettingInsight
<1>4. CASE Setting!Destroys(s)
  <2>1. /\ run' = [run EXCEPT ![s] = Setting!Run(next, op)]
        /\ saved' = IF remote.kind = "reservations" THEN saved
                    ELSE [saved EXCEPT ![s] = Setting!NotSaved]
    BY <1>4 DEF Setting!Plan, Setting!Goes
  <2>2. next \in SettingPCs /\ op \in SettingOps /\ op \in {"delete", "create"}
    BY DEF SettingPCs, SettingOps, Setting!Ended, Setting!Steps
  <2>3. /\ next \in {"clear", "done", "put"}
        /\ next = "clear" => op = "delete"
        /\ next = "put" => want'[s] \in Settings /\ op = "create"
        /\ next = "done" => want'[s] = Absent
    BY <1>1, <1>3
  <2> HIDE DEF next, op
  <2>4. Setting!Run(next, op) \in SettingRuns /\ Setting!Run(next, op).op = op
    BY <2>2, SettingRunType
  <2>5. SettingGood(s)'
    BY <2>1, <2>2, <2>3, SettingPlainGood
  <2>6. PICK record \in {Setting!NotSaved} \cup SettingKnown :
            saved' = [saved EXCEPT ![s] = record]
    BY <1>3, <2>1, SettingSavedAlone
  <2> QED
    BY <1>1, <1>2, <2>2, <2>4, <2>1, <2>5, <2>6, SettingStepSound
<1>5. CASE ~Setting!Destroys(s)
  <2>1. saved' = [saved EXCEPT ![s] = saved[s]] /\ want[s] \in Settings
    BY <1>3, <1>5, SettingSavedAlone DEF Setting!Plan, Setting!Destroys
  <2>2. CASE Setting!InSync(s)
    <3>1. run' = [run EXCEPT ![s] = Setting!Run("done", "none")]
      BY <1>5, <2>2 DEF Setting!Plan, Setting!Goes
    <3>2. Setting!Run("done", "none") \in SettingRuns /\ Setting!Run("done", "none").pc = "done"
          /\ Setting!Run("done", "none").op = "none"
      BY SettingRunType DEF SettingPCs, SettingOps, Setting!Ended
    <3>3. run'[s].pc = "done" /\ run'[s].op = "none" /\ saved'[s] = saved[s]
      BY <2>1, <3>1, <3>2 DEF SettingSound, Setting!TypeOK
    <3>4. saved[s] = Setting!Saved("ok", want[s])
      BY <1>3, <2>2 DEF Setting!InSync, Setting!Saved, SettingKnown
    <3>5. quiet[s] => remote.value = want[s]
      BY <1>3, <2>1, <2>2 DEF Setting!InSync, Setting!SettingAssumption
    <3>6. SettingGood(s)'
      BY <1>1, <3>3, <3>4, <3>5 DEF SettingGood, SettingPurpose, SettingInsight, SettingReal
    <3> QED
      BY <1>1, <1>2, <1>3, <2>1, <3>1, <3>2, <3>6, SettingStepSound
  <2>3. CASE ~Setting!InSync(s)
    <3>1. run' = [run EXCEPT ![s] = Setting!Run("put", "update")]
      BY <1>5, <2>3 DEF Setting!Plan, Setting!Goes
    <3>2. Setting!Run("put", "update") \in SettingRuns
      BY SettingRunType DEF SettingPCs, SettingOps, Setting!Steps
    <3>3. SettingGood(s)'
      BY <1>1, <2>1, <3>1, SettingPlainGood DEF SettingPCs, SettingOps, Setting!Steps
    <3> QED
      BY <1>1, <1>2, <1>3, <2>1, <3>1, <3>2, <3>3, SettingStepSound
  <2> QED
    BY <2>2, <2>3
<1> QED
  BY <1>4, <1>5

LEMMA SettingDeleteReservationsSound ==
  ASSUME Setting!SettingAssumption, SettingSound, NEW s \in Spaces,
         Setting!DeleteReservations(s)
  PROVE  SettingSound'
<1>1. /\ UNCHANGED <<want, trouble>> /\ saved' = [saved EXCEPT ![s] = Setting!NotSaved]
      /\ Setting!Writes(s, Empty)
  BY DEF Setting!DeleteReservations, Setting!Clear
<1>2. remote' \in SettingRemotes /\ quiet' \in [Spaces -> BOOLEAN] /\ SettingUndisturbed(s)
      /\ trouble' \in 0..MaxTrouble
  BY <1>1, SettingQuietType DEF SettingSound, Setting!TypeOK, Setting!AllValues
<1>3. CASE want[s] = Absent
  <2>1. run' = [run EXCEPT ![s] = Setting!Run("done", "delete")]
    BY <1>3 DEF Setting!DeleteReservations, Setting!Goes
  <2>2. /\ Setting!Run("done", "delete") \in SettingRuns
        /\ Setting!Run("done", "delete").op = "delete"
    BY SettingRunType DEF SettingPCs, SettingOps, Setting!Ended
  <2>3. SettingGood(s)'
    BY <1>1, <1>3, <2>1, SettingPlainGood DEF SettingPCs, SettingOps, Setting!Ended
  <2> QED
    BY <1>1, <1>2, <2>1, <2>2, <2>3, SettingStepSound
<1>4. CASE want[s] # Absent
  <2>1. run' = [run EXCEPT ![s] = Setting!Run("put", "create")]
    BY <1>4 DEF Setting!DeleteReservations, Setting!Goes
  <2>2. /\ Setting!Run("put", "create") \in SettingRuns
        /\ Setting!Run("put", "create").op = "create"
    BY SettingRunType DEF SettingPCs, SettingOps, Setting!Steps
  <2>3. SettingGood(s)'
    BY <1>1, <1>4, <2>1, SettingKnownType, SettingPlainGood
    DEF SettingPCs, SettingOps, Setting!Steps, SettingSound
  <2> QED
    BY <1>1, <1>2, <2>1, <2>2, <2>3, SettingStepSound
<1> QED
  BY <1>3, <1>4

\* A write that is carried out.
LEMMA SettingPutType ==
  ASSUME Setting!SettingAssumption, SettingSound, NEW s \in Spaces, Setting!Put(s)
  PROVE  /\ want[s] \in Settings /\ want[s] \in Setting!AllValues
         /\ run[s].op \in {"create", "update"}
         /\ remote' \in SettingRemotes /\ remote'.value = want[s] /\ remote'.kind = remote.kind
         /\ quiet' \in [Spaces -> BOOLEAN] /\ SettingUndisturbed(s)
<1>1. want[s] \in Settings /\ run[s].op \in {"create", "update"}
  BY DEF Setting!Put, SettingSound, SettingGood, SettingPurpose
<1>2. want[s] \in Setting!AllValues
  BY <1>1 DEF Setting!AllValues
<1> QED
  BY <1>1, <1>2, SettingQuietType DEF Setting!Put

LEMMA SettingSetSound ==
  ASSUME Setting!SettingAssumption, SettingSound, NEW s \in Spaces, Setting!Set(s)
  PROVE  SettingSound'
<1>1. /\ UNCHANGED <<want, trouble>>
      /\ want[s] \in Settings /\ want[s] \in Setting!AllValues
      /\ run[s].op \in {"create", "update"} /\ run[s].op \in SettingOps
      /\ remote' \in SettingRemotes /\ remote'.value = want[s] /\ remote'.kind = remote.kind
      /\ quiet' \in [Spaces -> BOOLEAN] /\ SettingUndisturbed(s)
      /\ trouble' \in 0..MaxTrouble
  BY SettingPutType DEF Setting!Set, SettingSound, Setting!TypeOK, SettingOps
<1>2. /\ saved[s] \in {Setting!NotSaved} \cup SettingKnown
      /\ (run[s].op = "update" => saved[s] # Setting!NotSaved)
  BY SettingKnownType DEF SettingSound, Setting!TypeOK
<1>3. CASE remote.kind = "edge"
  <2>1. /\ run' = [run EXCEPT ![s] = Setting!Run("done", run[s].op)]
        /\ saved' = [saved EXCEPT ![s] = Setting!Saved("ok", want[s])]
    BY <1>3 DEF Setting!Set, Setting!Goes, Setting!Saves
  <2>2. /\ Setting!Run("done", run[s].op) \in SettingRuns
        /\ Setting!Run("done", run[s].op).pc = "done"
    BY <1>1, SettingRunType DEF SettingPCs, Setting!Ended
  <2>3. /\ Setting!Saved("ok", want[s]) \in SettingKnown
        /\ Setting!Saved("ok", want[s]) # Setting!NotSaved
    BY <1>1, SettingSavedType
  <2>4. run'[s].pc = "done" /\ saved'[s] = Setting!Saved("ok", want[s])
    BY <2>1, <2>2 DEF SettingSound, Setting!TypeOK
  <2>5. SettingGood(s)'
    BY <1>1, <2>4 DEF SettingGood, SettingPurpose, SettingInsight, SettingReal
  <2> QED
    BY <1>1, <2>1, <2>2, <2>3, <2>5, SettingStepSound
<1>4. CASE remote.kind # "edge"
  <2>1. /\ run' = [run EXCEPT ![s] = Setting!Run("read", run[s].op)]
        /\ saved' = [saved EXCEPT ![s] = saved[s]]
    BY <1>4, SettingSavedAlone DEF Setting!Set, Setting!Goes
  <2>2. /\ Setting!Run("read", run[s].op) \in SettingRuns
        /\ Setting!Run("read", run[s].op).pc = "read"
        /\ Setting!Run("read", run[s].op).op = run[s].op
    BY <1>1, SettingRunType DEF SettingPCs, Setting!Steps
  <2>3. run'[s].pc = "read" /\ run'[s].op = run[s].op
    BY <2>1, <2>2 DEF SettingSound, Setting!TypeOK
  <2>4. SettingGood(s)'
    BY <1>1, <2>3 DEF SettingGood, SettingPurpose, SettingInsight, SettingReal
  <2> QED
    BY <1>1, <1>2, <2>1, <2>2, <2>4, SettingStepSound
<1> QED
  BY <1>3, <1>4

LEMMA SettingReadBackSound ==
  ASSUME Setting!SettingAssumption, SettingSound, NEW s \in Spaces, Setting!ReadBack(s)
  PROVE  SettingSound'
<1>1. /\ run[s].pc = "read" /\ UNCHANGED <<remote, want, quiet, trouble>>
      /\ want[s] \in Settings /\ want[s] \in Setting!AllValues
      /\ run[s].op \in {"create", "update"} /\ run[s].op \in SettingOps
      /\ quiet[s] => remote.value = want[s]
  BY SettingKnownType
  DEF Setting!ReadBack, SettingSound, SettingGood, SettingPurpose, SettingInsight,
      SettingOps
<1>2. remote' \in SettingRemotes /\ quiet' \in [Spaces -> BOOLEAN] /\ SettingUndisturbed(s)
      /\ trouble' \in 0..MaxTrouble
  BY <1>1, SettingLookingType DEF SettingSound, Setting!TypeOK
<1>3. /\ Setting!ReadValue(want[s]) \in Setting!AllValues
      /\ (quiet[s] => Setting!ReadValue(want[s]) = want[s])
  BY <1>1, SettingReadValueType DEF SettingSound
<1> DEFINE record == Setting!Saved("ok", Setting!ReadValue(want[s]))
<1>4. /\ saved' = [saved EXCEPT ![s] = record]
      /\ run' = [run EXCEPT ![s] = Setting!Run("done", run[s].op)]
  BY DEF Setting!ReadBack, Setting!Saves, Setting!Goes
<1>5. record \in SettingKnown /\ record # Setting!NotSaved
  BY <1>3, SettingSavedType
<1>6. quiet[s] => record = Setting!Saved("ok", want[s])
  BY <1>3
<1> HIDE DEF record
<1>7. /\ Setting!Run("done", run[s].op) \in SettingRuns
      /\ Setting!Run("done", run[s].op).pc = "done"
  BY <1>1, SettingRunType DEF SettingPCs, Setting!Ended
<1>8. run'[s].pc = "done" /\ saved'[s] = record
  BY <1>4, <1>7 DEF SettingSound, Setting!TypeOK
<1>9. SettingGood(s)'
  BY <1>1, <1>6, <1>8 DEF SettingGood, SettingPurpose, SettingInsight, SettingReal
<1> QED
  BY <1>1, <1>2, <1>4, <1>5, <1>7, <1>9, SettingStepSound

\* What a failure leaves in the state.
LEMMA SettingAfterErrorType ==
  ASSUME Setting!SettingAssumption, SettingSound, NEW s \in Spaces, run[s].pc \in Setting!Steps
  PROVE  Setting!AfterError(s) \in {Setting!NotSaved} \cup SettingKnown
<1>1. saved[s] \in {Setting!NotSaved} \cup SettingKnown
  BY SettingKnownType DEF SettingSound
<1>2. run[s].op = "update" \/ (run[s].op = "create" /\ run[s].pc = "read") =>
        want[s] \in Setting!AllValues
  BY SettingKnownType DEF SettingSound, SettingGood, SettingPurpose, Setting!Steps
<1> QED
  BY <1>1, <1>2, SettingSavedType DEF Setting!AfterError

LEMMA SettingEndsSound ==
  ASSUME Setting!SettingAssumption, SettingSound, NEW s \in Spaces, run[s].pc \in Setting!Steps,
         saved' \in {saved, [saved EXCEPT ![s] = Setting!AfterError(s)]},
         Setting!Goes(s, "failed", "none"), UNCHANGED want, trouble' \in 0..MaxTrouble,
         remote' \in SettingRemotes, quiet' \in [Spaces -> BOOLEAN], SettingUndisturbed(s)
  PROVE  SettingSound'
<1>1. PICK record \in {Setting!NotSaved} \cup SettingKnown :
          saved' = [saved EXCEPT ![s] = record]
  <2>1. CASE saved' = saved
    BY <2>1, SettingSavedAlone, SettingKnownType DEF SettingSound
  <2>2. CASE saved' = [saved EXCEPT ![s] = Setting!AfterError(s)]
    BY <2>2, SettingAfterErrorType
  <2> QED
    BY <2>1, <2>2
<1>2. run' = [run EXCEPT ![s] = Setting!Run("failed", "none")]
  BY DEF Setting!Goes
<1>3. Setting!Run("failed", "none") \in SettingRuns /\ Setting!Run("failed", "none").op = "none"
  BY SettingRunType DEF SettingPCs, SettingOps, Setting!Ended
<1>4. SettingGood(s)'
  BY <1>2, SettingPlainGood DEF SettingPCs, SettingOps, Setting!Ended
<1> QED
  BY <1>1, <1>2, <1>3, <1>4, SettingStepSound

LEMMA SettingFailureSound ==
  ASSUME Setting!SettingAssumption, SettingSound, NEW s \in Spaces,
         Setting!Refused(s) \/ Setting!ReadRefused(s) \/ Setting!Stops(s)
  PROVE  SettingSound'
<1>1. /\ run[s].pc \in Setting!Steps /\ UNCHANGED want /\ Setting!Goes(s, "failed", "none")
      /\ saved' \in {saved, [saved EXCEPT ![s] = Setting!AfterError(s)]}
  BY DEF Setting!Refused, Setting!ReadRefused, Setting!Stops, Setting!Fails, Setting!Steps
<1>2. CASE UNCHANGED <<remote, quiet>> /\ trouble' \in 0..MaxTrouble
  BY <1>1, <1>2, SettingLookingType, SettingEndsSound
<1>3. CASE Setting!Refused(s) \/ Setting!ReadRefused(s)
  BY <1>2, <1>3 DEF Setting!Refused, Setting!ReadRefused, SettingSound, Setting!TypeOK
<1>4. CASE Setting!Stops(s)
  <2>1. trouble' \in 0..MaxTrouble
    BY <1>4, SettingTroubleType DEF Setting!Stops, SettingSound
  <2>2. CASE UNCHANGED <<remote, quiet>>
    BY <1>2, <2>1, <2>2
  <2>3. CASE Setting!Put(s)
    BY <1>1, <2>1, <2>3, SettingPutType, SettingEndsSound
  <2>4. CASE Setting!Clear(s)
    BY <1>1, <2>1, <2>4, SettingQuietType, SettingEndsSound
    DEF Setting!Clear, Setting!AllValues
  <2> QED
    BY <1>4, <2>2, <2>3, <2>4 DEF Setting!Stops
<1> QED
  BY <1>3, <1>4

-----------------------------------------------------------------------------
(* Everybody else *)

LEMMA SettingImportSound ==
  ASSUME Setting!SettingAssumption, SettingSound, NEW s \in Spaces, Setting!Import(s)
  PROVE  SettingSound'
<1>1. /\ UNCHANGED <<remote, want, run, quiet>> /\ run[s].pc \in Setting!Ended
      /\ saved[s] = Setting!NotSaved
      /\ trouble' \in 0..MaxTrouble
  BY SettingTroubleType DEF Setting!Import, SettingSound
<1> DEFINE status == IF remote.kind = "reservations" THEN "imported" ELSE "ok"
           record == Setting!Saved(status, remote.value)
<1>2. saved' = [saved EXCEPT ![s] = record]
  BY DEF Setting!Import, Setting!Saves
<1>3. status \in {"ok", "tainted", "imported"} /\ remote.value \in Setting!AllValues
  BY DEF SettingSound, Setting!TypeOK
<1> HIDE DEF status
<1>4. record \in SettingKnown /\ record # Setting!NotSaved
  BY <1>3, SettingSavedType
<1> HIDE DEF record
<1>5. run' = [run EXCEPT ![s] = run[s]] /\ run[s] \in SettingRuns
  BY <1>1, SettingKnownType DEF SettingSound, Setting!TypeOK
<1>6. remote' \in SettingRemotes /\ quiet' \in [Spaces -> BOOLEAN] /\ SettingUndisturbed(s)
  BY <1>1, SettingLookingType
<1>7. saved[s].status = "none"
  BY <1>1 DEF Setting!NotSaved
<1>8. ~(run[s].pc = "done" /\ quiet[s] /\ want[s] # Absent)
  <2>1. Setting!Saved("ok", want[s]).status = "ok"
    BY DEF Setting!Saved
  <2>2. saved[s] # Setting!Saved("ok", want[s])
    BY <1>7, <2>1
  <2>3. SettingReal(s)
    BY DEF SettingSound, SettingGood
  <2> QED
    BY Zenon, <2>2, <2>3 DEF SettingReal
<1>9. SettingGood(s)'
  BY <1>1, <1>8 DEF SettingGood, SettingPurpose, SettingInsight, SettingReal, Setting!Ended
<1> QED
  BY <1>1, <1>2, <1>4, <1>5, <1>6, <1>9, SettingStepSound

LEMMA SettingEditConfigSound ==
  ASSUME Setting!SettingAssumption, SettingSound, NEW s \in Spaces, Setting!EditConfig(s)
  PROVE  SettingSound'
<1>1. PICK w \in Settings \cup {Absent} :
        /\ want' = [want EXCEPT ![s] = w] /\ quiet' = [quiet EXCEPT ![s] = FALSE]
        /\ run[s].pc \in Setting!Ended /\ UNCHANGED <<remote, saved, run>>
        /\ trouble' \in 0..MaxTrouble
  BY SettingTroubleType DEF Setting!EditConfig, SettingSound
<1>2. Setting!TypeOK'
  BY <1>1 DEF SettingSound, Setting!TypeOK
<1>3. ~quiet'[s]
  BY <1>1 DEF SettingSound, Setting!TypeOK
<1>4. SettingGood(s)'
  BY <1>1, <1>3 DEF SettingGood, SettingPurpose, SettingInsight, SettingReal, Setting!Ended
<1>5. \A t \in Spaces \ {s} :
        want'[t] = want[t] /\ saved'[t] = saved[t] /\ run'[t] = run[t] /\ quiet'[t] = quiet[t]
  BY <1>1 DEF SettingSound, Setting!TypeOK
<1>6. SettingUndisturbed(s)
  BY <1>1, <1>5 DEF SettingUndisturbed
<1>7. \A t \in Spaces \ {s} : SettingGood(t)'
  BY <1>5, <1>6, SettingOthersGood
<1> QED
  BY <1>2, <1>4, <1>7 DEF SettingSound

\* The console disturbs everybody.
LEMMA SettingElsewhereSound ==
  ASSUME Setting!SettingAssumption, SettingSound, Setting!Console \/ Setting!Removal
  PROVE  SettingSound'
<1>1. /\ UNCHANGED <<want, saved, run>> /\ quiet' = [s \in Spaces |-> FALSE]
      /\ trouble' \in 0..MaxTrouble
  BY SettingTroubleType DEF Setting!Console, Setting!Removal, SettingSound
<1>2. remote' \in SettingRemotes
  <2>1. CASE Setting!Console
    <3>1. PICK value \in Setting!AllValues : remote' = [remote EXCEPT !.value = value]
      BY <2>1 DEF Setting!Console
    <3> QED
      BY <3>1 DEF SettingSound, Setting!TypeOK, SettingRemotes
  <2>2. CASE Setting!Removal
    <3>1. PICK value \in Settings :
            remote' = [remote EXCEPT !.gone = @ \cup {value},
                                     !.value = IF @ = value THEN Foreign ELSE @]
      BY <2>2 DEF Setting!Removal
    <3> QED
      BY <3>1 DEF SettingSound, Setting!TypeOK, SettingRemotes, Setting!AllValues
  <2> QED
    BY <2>1, <2>2
<1>3. quiet' \in [Spaces -> BOOLEAN] /\ \A s \in Spaces : ~quiet'[s]
  BY <1>1
<1>4. Setting!TypeOK'
  BY <1>1, <1>2, <1>3 DEF SettingSound, Setting!TypeOK, SettingRemotes
<1>5. \A s \in Spaces : SettingGood(s)'
  BY <1>1, <1>3 DEF SettingSound, SettingGood, SettingPurpose, SettingInsight, SettingReal
<1> QED
  BY <1>4, <1>5 DEF SettingSound

-----------------------------------------------------------------------------
(* All steps *)

LEMMA SettingInitSound ==
  ASSUME Setting!SettingAssumption, Setting!Init
  PROVE  SettingSound
<1>1. PICK kind \in Kinds : remote = [kind |-> kind, value |-> Foreign, gone |-> {}]
  BY DEF Setting!Init
<1>2. trouble \in 0..MaxTrouble
  BY DEF Setting!Init, Setting!SettingAssumption
<1>3. /\ Setting!Run("idle", "none") \in SettingRuns
      /\ Setting!Run("idle", "none").pc = "idle" /\ Setting!Run("idle", "none").op = "none"
  BY SettingRunType DEF SettingPCs, SettingOps, Setting!Ended
<1>4. run \in [Spaces -> SettingRuns] /\ \A s \in Spaces :
        run[s].pc = "idle" /\ run[s].op = "none"
  BY <1>3 DEF Setting!Init
<1>5. Setting!TypeOK
  BY <1>1, <1>2, <1>4
  DEF Setting!Init, Setting!TypeOK, SettingRuns, SettingPCs, SettingOps, Setting!AllValues
<1>6. \A s \in Spaces : SettingGood(s)
  BY <1>4 DEF SettingGood, SettingPurpose, SettingInsight, SettingReal
<1> QED
  BY <1>5, <1>6 DEF SettingSound

LEMMA SettingNextSound ==
  ASSUME Setting!SettingAssumption, SettingSound, [Setting!Next]_(Setting!vars)
  PROVE  SettingSound'
<1>1. ASSUME NEW s \in Spaces, Setting!StartApply(s) \/ Setting!Terraform(s)
      PROVE  SettingSound'
  BY <1>1, SettingStartApplySound, SettingRefreshSound, SettingRefreshForgetsSound,
    SettingPlanSound, SettingDeleteReservationsSound, SettingSetSound,
    SettingReadBackSound, SettingFailureSound
  DEF Setting!Terraform
<1>2. ASSUME NEW s \in Spaces, Setting!Stops(s) \/ Setting!Import(s) \/ Setting!EditConfig(s)
      PROVE  SettingSound'
  BY <1>2, SettingFailureSound, SettingImportSound, SettingEditConfigSound
<1>3. CASE Setting!Console \/ Setting!Removal
  BY <1>3, SettingElsewhereSound
<1>4. CASE UNCHANGED Setting!vars
  BY <1>4
  DEF Setting!vars, SettingSound, Setting!TypeOK, SettingGood, SettingPurpose,
      SettingInsight, SettingReal
<1> QED
  BY <1>1, <1>2, <1>3, <1>4 DEF Setting!Next

LEMMA SettingAlwaysSound ==
  ASSUME Setting!SettingAssumption
  PROVE  Setting!Spec => []SettingSound
<1>1. Setting!Init => SettingSound
  BY SettingInitSound
<1>2. SettingSound /\ [Setting!Next]_(Setting!vars) => SettingSound'
  BY SettingNextSound
<1> QED
  BY <1>1, <1>2, PTL DEF Setting!Spec

-----------------------------------------------------------------------------
\* The typing of the markers, the order and the reservations; a workspace
\* updates only what it knows.
THEOREM SettingTyping == ASSUME Setting!SettingAssumption PROVE Setting!Spec => []Setting!TypeOK
<1>1. SettingSound => Setting!TypeOK
  BY DEF SettingSound
<1> QED
  BY <1>1, SettingAlwaysSound, PTL

\* However many workspaces set the value, an apply during which nobody else
\* wrote it ends with the configured value, at CAST AI and in the state.
THEOREM SettingSuccess ==
  ASSUME Setting!SettingAssumption
  PROVE  Setting!Spec => []Setting!SuccessIsReal
<1>1. SettingSound => Setting!SuccessIsReal
  BY DEF SettingSound, SettingGood, SettingReal, Setting!SuccessIsReal
<1> QED
  BY <1>1, SettingAlwaysSound, PTL

-----------------------------------------------------------------------------
(* What is reached stays reached *)

LEMMA SettingReachedStays ==
  ASSUME Setting!AtRest, UNCHANGED <<remote, want, saved>>, NEW s \in Spaces
  PROVE  Setting!Reached(s)' /\ Setting!Accepted(s)'
BY DEF Setting!AtRest, Setting!Reached, Setting!Accepted

\* A workspace begins, goes on or ends while the others stay where they are.
LEMMA SettingRestGoes ==
  ASSUME Setting!TypeOK, Setting!AtRest, UNCHANGED <<remote, want, saved>>,
         NEW s \in Spaces, NEW r, run' = [run EXCEPT ![s] = r],
         \/ r.pc \in Setting!Ended
         \/ /\ want[s] # Absent
            /\ r \in {Setting!Run("refresh", "none"), Setting!Run("plan", "none")}
  PROVE  Setting!AtRest'
<1> SUFFICES ASSUME NEW t \in Spaces
             PROVE  \/ run'[t].pc \in Setting!Ended
                    \/ /\ want[t] # Absent
                       /\ run'[t] \in {Setting!Run("refresh", "none"),
                                       Setting!Run("plan", "none")}
  BY SettingReachedStays DEF Setting!AtRest
<1>1. run'[t] = IF t = s THEN r ELSE run[t]
  BY DEF Setting!TypeOK
<1> QED
  BY <1>1 DEF Setting!AtRest

\* The workspaces that agree have nothing to do, whichever of them runs.
LEMMA SettingRests ==
  ASSUME Setting!SettingAssumption, Setting!TypeOK, Setting!AtRest,
         [Setting!Next]_(Setting!vars), trouble' = trouble
  PROVE  Setting!AtRest'
<1>1. ~Setting!Trouble
  BY DEF Setting!Trouble, Setting!TypeOK, Setting!SettingAssumption
<1>2. \A pc : Setting!Run(pc, "none").pc = pc
  BY DEF Setting!Run
<1>3. ASSUME NEW s \in Spaces
      PROVE  /\ run[s].pc \in Setting!Ended \cup {"refresh", "plan"}
             /\ run[s].pc \in {"refresh", "plan"} => want[s] # Absent
  BY <1>2 DEF Setting!AtRest, Setting!Ended
<1>4. ASSUME NEW s \in Spaces, want[s] # Absent
      PROVE  /\ want[s] \in Settings /\ remote.value = want[s]
             /\ saved[s] = Setting!Saved("ok", want[s])
             /\ saved[s].status = "ok" /\ saved[s].value = want[s]
             /\ want[s] # Empty /\ want[s] \notin remote.gone
  <2>1. /\ remote.value = want[s] /\ saved[s] = Setting!Saved("ok", want[s])
        /\ want[s] \notin remote.gone
    BY <1>4 DEF Setting!AtRest, Setting!Reached, Setting!Accepted
  <2>2. want[s] \in Settings
    BY <1>4 DEF Setting!TypeOK
  <2>3. want[s] # Empty
    BY <2>2 DEF Setting!SettingAssumption
  <2> QED
    BY <2>1, <2>2, <2>3 DEF Setting!Saved
<1>5. ASSUME NEW s \in Spaces, Setting!StartApply(s)
      PROVE  Setting!AtRest'
  <2>1. UNCHANGED <<remote, want, saved>>
    BY <1>5 DEF Setting!StartApply
  <2>2. CASE want[s] = Absent
    <3>1. saved[s] = Setting!NotSaved
      BY <2>2 DEF Setting!AtRest, Setting!Reached
    <3>2. Setting!Goes(s, "done", "none")
      BY <1>5, <2>2, <3>1 DEF Setting!StartApply
    <3>3. run' = [run EXCEPT ![s] = Setting!Run("done", "none")]
      BY <3>2 DEF Setting!Goes
    <3> QED
      BY <1>2, <2>1, <3>3, SettingRestGoes DEF Setting!Ended
  <2>3. CASE want[s] # Absent
    <3>1. saved[s] # Setting!NotSaved
      BY <1>4, <2>3 DEF Setting!NotSaved
    <3>2. Setting!Goes(s, "refresh", "none")
      BY <1>5, <3>1 DEF Setting!StartApply
    <3>3. run' = [run EXCEPT ![s] = Setting!Run("refresh", "none")]
      BY <3>2 DEF Setting!Goes
    <3> QED
      BY <2>1, <2>3, <3>3, SettingRestGoes
  <2> QED
    BY <2>2, <2>3
<1>6. ASSUME NEW s \in Spaces, Setting!Refresh(s)
      PROVE  Setting!AtRest'
  <2>1. want[s] # Absent /\ UNCHANGED <<remote, want>>
    BY <1>3, <1>6 DEF Setting!Refresh
  <2>2. Setting!ReadValue(saved[s].value) = want[s]
    BY <1>4, <2>1 DEF Setting!ReadValue
  <2>3. saved' = [saved EXCEPT ![s] = Setting!Saved("ok", want[s])]
    BY <1>4, <1>6, <2>1, <2>2 DEF Setting!Refresh, Setting!Saves
  <2>4. saved' = saved
    BY <1>4, <2>1, <2>3 DEF Setting!TypeOK
  <2>5. run' = [run EXCEPT ![s] = Setting!Run("plan", "none")]
    BY <1>6 DEF Setting!Refresh, Setting!Goes
  <2> QED
    BY <2>1, <2>4, <2>5, SettingRestGoes
<1>7. ASSUME NEW s \in Spaces, Setting!RefreshForgets(s)
      PROVE  FALSE
  <2>1. want[s] # Absent
    BY <1>3, <1>7 DEF Setting!RefreshForgets
  <2> QED
    BY <1>4, <1>7, <2>1 DEF Setting!RefreshForgets, Setting!Forgotten
<1>8. ASSUME NEW s \in Spaces, Setting!Plan(s)
      PROVE  Setting!AtRest'
  <2>1. want[s] # Absent /\ UNCHANGED <<remote, want>>
    BY <1>3, <1>8 DEF Setting!Plan
  <2>2. Setting!InSync(s) /\ ~Setting!Destroys(s)
    BY <1>4, <2>1 DEF Setting!InSync, Setting!Destroys
  <2>3. saved' = saved /\ run' = [run EXCEPT ![s] = Setting!Run("done", "none")]
    BY <1>8, <2>2 DEF Setting!Plan, Setting!Goes
  <2> QED
    BY <1>2, <2>1, <2>3, SettingRestGoes DEF Setting!Ended
<1>9. CASE UNCHANGED Setting!vars
  BY <1>9, SettingReachedStays DEF Setting!vars, Setting!AtRest
<1>10. ASSUME Setting!Next
       PROVE  \E s \in Spaces : \/ Setting!StartApply(s) \/ Setting!Refresh(s)
                                \/ Setting!RefreshForgets(s) \/ Setting!Plan(s)
  <2>1. \A s \in Spaces : run[s].pc \notin {"put", "read", "clear"}
    BY <1>3 DEF Setting!Ended
  <2> QED
    BY <1>1, <1>10, <2>1
    DEF Setting!Next, Setting!Terraform, Setting!DeleteReservations, Setting!Clear,
        Setting!Set, Setting!Put, Setting!ReadBack, Setting!Refused, Setting!ReadRefused,
        Setting!Stops, Setting!Import, Setting!EditConfig, Setting!Console, Setting!Removal
<1> QED
  BY <1>5, <1>6, <1>7, <1>8, <1>9, <1>10

-----------------------------------------------------------------------------
(* The mapping of configurations to commitments *)

Earlier == 1..(run.next - 1)

Through ==
  /\ \A c \in DOMAIN remote : saved[c] < run.next
  /\ \A i \in Earlier : \E c \in DOMAIN remote :
       \A d \in DOMAIN remote : Matching!Matches(want[i], remote[d]) <=> d = c
  /\ \A i \in Earlier, c \in DOMAIN remote :
       saved[c] = i <=> Matching!Matches(want[i], remote[c])

MatchEnd ==
  /\ run.outcome = "ok" => run.next = Len(want) + 1
  /\ run.outcome = "error" => ~Matching!Resolvable(want, remote)

MatchSound == Matching!TypeOK /\ Through /\ MatchEnd

-----------------------------------------------------------------------------
(* A configuration list is a sequence *)

LEMMA ConfigsAreSequences ==
  ASSUME Matching!MatchingAssumption, NEW configs \in Matching!Configs
  PROVE  /\ configs \in Seq(Matching!Matchers)
         /\ Len(configs) \in Nat
         /\ DOMAIN configs = 1..Len(configs)
<1>1. PICK n \in 0..MaxConfigs : configs \in [1..n -> Matching!Matchers]
  BY DEF Matching!Configs
<1>2. n \in Nat
  BY DEF Matching!MatchingAssumption
<1> QED
  BY <1>1, <1>2

LEMMA MatchInitSound ==
  ASSUME Matching!MatchingAssumption, Matching!Init
  PROVE  MatchSound
<1>1. want \in Seq(Matching!Matchers) /\ Len(want) \in Nat /\ DOMAIN want = 1..Len(want)
  BY ConfigsAreSequences DEF Matching!Init
<1>2. PICK present \in SUBSET Slots : remote \in [present -> Matching!Keys]
  BY DEF Matching!Init
<1>3. DOMAIN remote = present
  BY <1>2
<1>4. run.next = 1 /\ run.outcome = "none"
  BY DEF Matching!Init
<1>5. Matching!TypeOK
  <2>1. run \in [next: Nat \ {0}, outcome: {"none", "ok", "error"}]
    BY DEF Matching!Init
  <2>2. saved \in [DOMAIN remote -> {0} \cup DOMAIN want]
    BY DEF Matching!Init
  <2> QED
    BY <1>1, <1>2, <1>3, <1>4, <2>1, <2>2 DEF Matching!Init, Matching!TypeOK
<1>6. Through
  BY <1>4 DEF Matching!Init, Through, Earlier
<1> QED
  BY <1>4, <1>5, <1>6 DEF MatchSound, MatchEnd

-----------------------------------------------------------------------------
(* What the loop refuses is not resolvable *)

LEMMA BadIsUnresolvable ==
  ASSUME Matching!MatchingAssumption, Matching!TypeOK, Through, Matching!Unmapped, Matching!Bad
  PROVE  ~Matching!Resolvable(want, remote)
<1>1. want \in Seq(Matching!Matchers) /\ Len(want) \in Nat /\ DOMAIN want = 1..Len(want)
  BY ConfigsAreSequences DEF Matching!TypeOK
<1>2. run.next \in DOMAIN want /\ run.next \in Nat \ {0}
  BY DEF Matching!Unmapped, Matching!TypeOK
<1>3. \A i \in Earlier : i \in DOMAIN want /\ i # run.next
  BY <1>1, <1>2 DEF Earlier
<1> SUFFICES ASSUME Matching!Resolvable(want, remote) PROVE FALSE
  OBVIOUS
<1>4. PICK c \in DOMAIN remote : \A d \in DOMAIN remote :
        Matching!Matches(Matching!Config, remote[d]) <=> d = c
  BY <1>2 DEF Matching!Resolvable, Matching!Config
<1>5. CASE Matching!DuplicateConfig
  <2>1. PICK i \in Earlier : want[i] = Matching!Config
    BY <1>5 DEF Matching!DuplicateConfig, Earlier
  <2>2. Matching!Matches(want[i], remote[c]) /\ Matching!Matches(want[run.next], remote[c])
    BY <1>4, <2>1 DEF Matching!Config
  <2> QED
    BY <1>2, <1>3, <2>1, <2>2 DEF Matching!Resolvable
<1>6. CASE Matching!DuplicateImport
  BY <1>4, <1>6 DEF Matching!DuplicateImport, Matching!Hits
<1>7. CASE Matching!AlreadyAssigned
  <2>1. PICK d \in Matching!Hits : saved[d] # 0
    BY <1>7 DEF Matching!AlreadyAssigned
  <2>2. d \in DOMAIN remote /\ Matching!Matches(want[run.next], remote[d])
    BY <2>1 DEF Matching!Hits, Matching!Config
  <2>3. saved[d] \in {0} \cup DOMAIN want
    BY <2>2 DEF Matching!TypeOK
  <2>4. saved[d] < run.next
    BY <2>2 DEF Through
  <2>5. saved[d] \in Earlier
    BY <1>1, <1>2, <2>1, <2>3, <2>4 DEF Earlier
  <2>6. Matching!Matches(want[saved[d]], remote[d])
    BY <2>2, <2>5 DEF Through
  <2> QED
    BY <1>2, <1>3, <2>2, <2>5, <2>6 DEF Matching!Resolvable
<1>8. CASE Matching!Hits = {}
  BY <1>4, <1>8 DEF Matching!Hits
<1> QED
  BY <1>5, <1>6, <1>7, <1>8 DEF Matching!Bad

-----------------------------------------------------------------------------
(* The steps *)

LEMMA AssignSound ==
  ASSUME Matching!MatchingAssumption, MatchSound, Matching!Assign
  PROVE  MatchSound'
<1> USE DEF MatchSound
<1>1. want \in Seq(Matching!Matchers) /\ Len(want) \in Nat /\ DOMAIN want = 1..Len(want)
  BY ConfigsAreSequences DEF Matching!TypeOK
<1>2. /\ run.next \in DOMAIN want /\ run.next \in Nat \ {0}
      /\ run.outcome = "none"
  BY DEF Matching!Assign, Matching!Unmapped, Matching!TypeOK
<1>3. run'.next = run.next + 1 /\ run'.outcome = "none"
  BY <1>2 DEF Matching!Assign, Matching!TypeOK
<1>4. UNCHANGED <<remote, want>>
  BY DEF Matching!Assign
<1>5. \A c \in DOMAIN remote :
        saved'[c] = IF c \in Matching!Hits THEN run.next ELSE saved[c]
  BY DEF Matching!Assign
<1>6. Matching!TypeOK'
  <2>1. run' \in [next: Nat \ {0}, outcome: {"none", "ok", "error"}]
    BY <1>2 DEF Matching!Assign, Matching!TypeOK
  <2>2. saved' \in [DOMAIN remote -> {0} \cup DOMAIN want]
    BY <1>2 DEF Matching!Assign, Matching!TypeOK
  <2> QED
    BY <1>1, <1>2, <1>3, <1>4, <2>1, <2>2 DEF Matching!TypeOK
<1>7. Earlier' = Earlier \cup {run.next}
  BY <1>2, <1>3 DEF Earlier
<1>8. \A c \in DOMAIN remote : saved[c] \in Nat /\ saved[c] < run.next
  BY <1>1 DEF Matching!TypeOK, Through
<1>9. \A c \in DOMAIN remote : saved'[c] < run'.next
  BY <1>2, <1>3, <1>5, <1>8
<1>10. PICK c \in Matching!Hits : \A d \in Matching!Hits : d = c
  BY DEF Matching!Assign, Matching!Bad, Matching!DuplicateImport
<1>11. c \in DOMAIN remote
       /\ \A d \in DOMAIN remote : Matching!Matches(want[run.next], remote[d]) <=> d = c
  BY <1>10 DEF Matching!Hits, Matching!Config
<1>12. \A i \in Earlier' : \E e \in DOMAIN remote :
         \A d \in DOMAIN remote : Matching!Matches(want[i], remote[d]) <=> d = e
  BY <1>7, <1>11 DEF Through
<1>13. saved[c] = 0
  BY <1>10 DEF Matching!Assign, Matching!Bad, Matching!AlreadyAssigned
<1>14. \A d \in DOMAIN remote : d \in Matching!Hits <=>
         Matching!Matches(want[run.next], remote[d])
  BY DEF Matching!Hits, Matching!Config
<1>15. ASSUME NEW i \in Earlier, NEW d \in DOMAIN remote
       PROVE  saved'[d] = i <=> Matching!Matches(want[i], remote[d])
  <2>1. i \in Nat \ {0} /\ i # run.next
    BY <1>2 DEF Earlier
  <2>2. saved[d] = i <=> Matching!Matches(want[i], remote[d])
    BY DEF Through
  <2>3. CASE d \in Matching!Hits
    <3>1. saved'[d] = run.next /\ saved[d] = 0
      BY <1>5, <1>10, <1>13, <2>3
    <3> QED
      BY <2>1, <2>2, <3>1
  <2>4. CASE d \notin Matching!Hits
    BY <1>5, <2>2, <2>4
  <2> QED
    BY <2>3, <2>4
<1>16. ASSUME NEW d \in DOMAIN remote
       PROVE  saved'[d] = run.next <=> Matching!Matches(want[run.next], remote[d])
  BY <1>2, <1>5, <1>8, <1>14
<1>17. Through'
  BY <1>4, <1>7, <1>9, <1>12, <1>15, <1>16 DEF Through
<1> QED
  BY <1>3, <1>6, <1>17 DEF MatchEnd

\* The order in which the configurations come does not matter: what the loop
\* finds wrong at one of them is wrong with all of them.
LEMMA MatchNextSound ==
  ASSUME Matching!MatchingAssumption, MatchSound, [Matching!Next]_(Matching!vars)
  PROVE  MatchSound'
<1> USE DEF MatchSound
<1>1. CASE Matching!Assign
  BY <1>1, AssignSound
<1>2. CASE Matching!Error
  <2>1. Matching!Unmapped /\ Matching!Bad /\ UNCHANGED <<remote, want, saved>>
    BY <1>2 DEF Matching!Error
  <2>2. ~Matching!Resolvable(want, remote)
    BY <2>1, BadIsUnresolvable
  <2>3. run' = [run EXCEPT !.outcome = "error"]
    BY <1>2 DEF Matching!Error
  <2>4. run' \in [next: Nat \ {0}, outcome: {"none", "ok", "error"}]
        /\ run'.next = run.next /\ run'.outcome = "error"
    BY <2>3 DEF Matching!TypeOK
  <2>5. Matching!TypeOK' /\ Through'
    BY <2>1, <2>4 DEF Matching!TypeOK, Through, Earlier
  <2> QED
    BY <2>1, <2>2, <2>4, <2>5 DEF MatchEnd, Matching!Resolvable
<1>3. CASE Matching!Finish
  <2>1. UNCHANGED <<remote, want, saved>> /\ run.next = Len(want) + 1
    BY <1>3 DEF Matching!Finish
  <2>2. run' \in [next: Nat \ {0}, outcome: {"none", "ok", "error"}]
        /\ run'.next = run.next /\ run'.outcome = "ok"
    BY <1>3 DEF Matching!Finish, Matching!TypeOK
  <2>3. Matching!TypeOK' /\ Through'
    BY <2>1, <2>2 DEF Matching!TypeOK, Through, Earlier
  <2> QED
    BY <2>1, <2>2, <2>3 DEF MatchEnd
<1>4. CASE UNCHANGED Matching!vars
  BY <1>4
  DEF Matching!vars, Matching!TypeOK, Through, Earlier, MatchEnd, Matching!Resolvable
<1> QED
  BY <1>1, <1>2, <1>3, <1>4 DEF Matching!Next

LEMMA SoundIsRight ==
  ASSUME Matching!MatchingAssumption, MatchSound
  PROVE  Matching!MatchIsRight
<1>1. want \in Seq(Matching!Matchers) /\ Len(want) \in Nat /\ DOMAIN want = 1..Len(want)
  BY ConfigsAreSequences DEF MatchSound, Matching!TypeOK
<1>2. ASSUME run.outcome = "ok"
      PROVE  /\ Matching!Resolvable(want, remote)
             /\ \A i \in DOMAIN want, c \in DOMAIN remote :
                  saved[c] = i <=> Matching!Matches(want[i], remote[c])
  <2>1. Earlier = DOMAIN want
    BY <1>1, <1>2 DEF MatchSound, MatchEnd, Earlier
  <2> QED
    BY <2>1 DEF MatchSound, Through, Matching!Resolvable
<1> QED
  BY <1>2 DEF MatchSound, MatchEnd, Matching!MatchIsRight

-----------------------------------------------------------------------------
\* The typing of the mapping (mapConfigsToCommitments).
THEOREM MatchTyping ==
  ASSUME Matching!MatchingAssumption PROVE Matching!Spec => []Matching!TypeOK
<1>1. Matching!Init => MatchSound
  BY MatchInitSound
<1>2. MatchSound /\ [Matching!Next]_(Matching!vars) => MatchSound'
  BY MatchNextSound
<1>3. MatchSound => Matching!TypeOK
  BY DEF MatchSound
<1> QED
  BY <1>1, <1>2, <1>3, PTL DEF Matching!Spec

\* mapConfigsToCommitments succeeds exactly if every configuration is that of
\* one commitment and no commitment has two, and then says which.
THEOREM MatchingRight ==
  ASSUME Matching!MatchingAssumption PROVE Matching!Spec => []Matching!MatchIsRight
<1>1. Matching!Init => MatchSound
  BY MatchInitSound
<1>2. MatchSound /\ [Matching!Next]_(Matching!vars) => MatchSound'
  BY MatchNextSound
<1>3. MatchSound => Matching!MatchIsRight
  BY SoundIsRight
<1> QED
  BY <1>1, <1>2, <1>3, PTL DEF Matching!Spec

-----------------------------------------------------------------------------
(* The commitments: what is worked off *)

Upserting == {"import", "list", "update", "assign", "read"}

UpsertPurpose ==
  /\ run.pc \in Upserting =>
       /\ want \in Uploads /\ Commitments!Plannable(want)
       /\ \/ run.op = "create" /\ saved = Commitments!NotSaved
          \/ run.op = "update" /\ saved.exists
  /\ run.pc \in {"refresh", "delete"} => saved.exists
  /\ run.pc = "plan" =>
       \/ saved.exists /\ run.op = "none"
       \/ saved = Commitments!NotSaved /\ run.op = "create" /\ want # Absent
  /\ run.pc = "refresh" => run.op = "none"
  /\ run.pc = "delete" => run.op = "delete" /\ run.at = {}
  /\ run.pc = "done" /\ run.op \in {"create", "update"} => saved.exists

\* What is to be changed or deleted is ours.
UpsertBounds ==
  /\ run.pc = "plan" => Commitments!Present(saved.list) \subseteq Commitments!Ours(saved.given)
  /\ run.pc = "delete" => Commitments!Present(run.work) \subseteq Commitments!Ours(saved.given)
  /\ run.pc \in {"update", "assign"} =>
       Commitments!Present(run.work) \subseteq Commitments!Ours(want)

\* A commitment has what is configured, or no assignments.
Fits(w, value, c) ==
  /\ value # Missing
  /\ IF Commitments!ConfigsOf(w, c) = {} THEN value.assigned
       = FALSE ELSE value \in Commitments!ConfigsOf(w, c)

\* Of the file, what is not to be updated any more has been.
UpsertDelivered ==
  quiet =>
    /\ run.pc \in {"list", "update", "assign", "read"} =>
         Commitments!Present(Commitments!Listed(want)) = want.input
    /\ run.pc \in {"update", "assign"} =>
         /\ Commitments!Present(run.work) \subseteq want.input
         /\ \A c \in want.input :
              Fits(want, IF run.work[c] # Missing THEN run.work[c] ELSE remote.list[c], c)
    /\ run.pc = "assign" => \A c \in run.at :
         /\ remote.list[c].usage = run.work[c].usage
         /\ remote.list[c].strategy = run.work[c].strategy
    /\ run.pc = "read" => \A c \in want.input : Fits(want, remote.list[c], c)

UpsertSound ==
  /\ Commitments!TypeOK /\ UpsertPurpose /\ UpsertBounds /\ UpsertDelivered
  /\ Commitments!SuccessIsReal

-----------------------------------------------------------------------------
UpsertRemotes == [csp: {"azure", "gcp"}, list: Commitments!Lists]
UpsertStates == [exists: BOOLEAN, tainted: BOOLEAN,
                 given: Uploads \cup {Absent}, list: Commitments!Lists]
UpsertPCs == Commitments!Ended \cup Commitments!Steps
UpsertOps == {"none", "create", "update", "delete"}
UpsertRuns == [pc: UpsertPCs, op: UpsertOps, work: Commitments!Lists, at: SUBSET Cloud]

LEMMA UpsertTypes ==
  ASSUME Commitments!TypeOK
  PROVE  /\ remote \in UpsertRemotes /\ remote.list \in Commitments!Lists
         /\ want \in Uploads \cup {Absent}
         /\ saved \in UpsertStates /\ saved.list \in Commitments!Lists
         /\ run \in UpsertRuns /\ run.work \in Commitments!Lists /\ run.at \in SUBSET Cloud
         /\ saved.given \in Uploads \cup {Absent}
         /\ saved.exists \in BOOLEAN
         /\ saved.exists \/ saved = Commitments!NotSaved
         /\ run.at \subseteq Commitments!Present(run.work)
         /\ Commitments!Cardinality(run.at) <= 1
         /\ quiet \in BOOLEAN /\ trouble \in 0..MaxTrouble
BY DEF Commitments!TypeOK, UpsertRemotes, UpsertStates, UpsertRuns, UpsertPCs, UpsertOps

LEMMA UpsertTypesNext ==
  ASSUME remote' \in UpsertRemotes, want' \in Uploads \cup {Absent},
         saved' \in UpsertStates, saved'.exists \/ saved' = Commitments!NotSaved,
         run' \in UpsertRuns, run'.at \subseteq Commitments!Present(run'.work),
         Commitments!Cardinality(run'.at) <= 1,
         quiet' \in BOOLEAN, trouble' \in 0..MaxTrouble
  PROVE  Commitments!TypeOK'
BY DEF Commitments!TypeOK, UpsertRemotes, UpsertStates, UpsertRuns, UpsertPCs, UpsertOps,
       Commitments!Present

LEMMA UpsertTroubleType ==
  ASSUME Commitments!CommitmentsAssumption, Commitments!TypeOK, Commitments!Trouble
  PROVE  trouble' \in 0..MaxTrouble
BY DEF Commitments!CommitmentsAssumption, Commitments!TypeOK, Commitments!Trouble

LEMMA UpsertNothingType ==
  /\ Commitments!Nothing \in Commitments!Lists /\ Commitments!Present(Commitments!Nothing) = {}
  /\ Commitments!NotSaved \in UpsertStates
  /\ Commitments!NotSaved.list = Commitments!Nothing /\ ~Commitments!NotSaved.exists
  /\ Commitments!NotSaved.exists = FALSE
<1>1. Commitments!Nothing \in Commitments!Lists /\ Commitments!Present(Commitments!Nothing) = {}
  BY DEF Commitments!Nothing, Commitments!Lists, Commitments!Present
<1> QED
  BY <1>1 DEF Commitments!NotSaved, UpsertStates

\* The module has its own copy of Cardinality.
LEMMA UpsertCounts ==
  \A set : Commitments!Cardinality(set) = Cardinality(set)
BY DEF Commitments!Cardinality, Cardinality

LEMMA UpsertAtType ==
  /\ Commitments!Cardinality({}) <= 1
  /\ \A c : Commitments!Cardinality({c}) <= 1
<1>1. Cardinality({}) = 0
  BY FS_EmptySet
<1>2. \A c : Cardinality({c}) = 1
  BY FS_Singleton
<1>3. Commitments!Cardinality({}) = 0
  BY <1>1, UpsertCounts
<1>4. \A c : Commitments!Cardinality({c}) = 1
  BY <1>2, UpsertCounts
<1> QED
  BY <1>3, <1>4

LEMMA UpsertRunType ==
  ASSUME NEW pc \in UpsertPCs, NEW op \in UpsertOps, NEW work \in Commitments!Lists,
         NEW at \in SUBSET Cloud
  PROVE  /\ Commitments!Run(pc, op, work, at) \in UpsertRuns
         /\ Commitments!Run(pc, op, work, at).pc = pc
         /\ Commitments!Run(pc, op, work, at).op = op
         /\ Commitments!Run(pc, op, work, at).work = work
         /\ Commitments!Run(pc, op, work, at).at = at
BY DEF Commitments!Run, UpsertRuns

LEMMA UpsertGoesType ==
  ASSUME NEW pc \in UpsertPCs, NEW op \in UpsertOps, Commitments!Goes(pc, op)
  PROVE  /\ run' \in UpsertRuns /\ run'.pc = pc /\ run'.op = op
         /\ run'.work = Commitments!Nothing /\ run'.at = {}
         /\ run'.at \subseteq Commitments!Present(run'.work)
         /\ Commitments!Cardinality(run'.at) <= 1
BY UpsertNothingType, UpsertAtType, UpsertRunType DEF Commitments!Goes

-----------------------------------------------------------------------------
(* Uploads *)

LEMMA UpsertConfiguration ==
  ASSUME Commitments!CommitmentsAssumption, NEW w \in Uploads
  PROVE  /\ w.input \in SUBSET Cloud
         /\ w.configs \in Seq(Commitments!Config)
         /\ w # Absent
         /\ \A c \in Cloud : Commitments!ConfigsOf(w, c) \subseteq Commitments!Commitment
         /\ Missing \notin Commitments!Commitment
<1>1. /\ w.input \in SUBSET Cloud /\ w.configs \in Seq(Commitments!Config) /\ w # Absent
      /\ Missing \notin Commitments!Commitment
  BY DEF Commitments!CommitmentsAssumption
<1>2. \A i \in DOMAIN w.configs : w.configs[i] \in Commitments!Config
  BY <1>1
<1>3. \A i \in DOMAIN w.configs : w.configs[i].value \in Commitments!Commitment
  BY <1>2 DEF Commitments!Config
<1> QED
  BY <1>1, <1>3 DEF Commitments!ConfigsOf

\* A commitment of the file has one configuration at most.
LEMMA UpsertOneValue ==
  ASSUME Commitments!CommitmentsAssumption, NEW w \in Uploads, Commitments!Plannable(w),
         NEW c \in w.input, NEW one \in Commitments!ConfigsOf(w, c),
         NEW other \in Commitments!ConfigsOf(w, c)
  PROVE  one = other
<1>1. PICK i \in DOMAIN w.configs : Commitments!Matches(w.configs[i].matcher, Key[c])
                                    /\ one = w.configs[i].value
  BY DEF Commitments!ConfigsOf
<1>2. PICK j \in DOMAIN w.configs : Commitments!Matches(w.configs[j].matcher, Key[c])
                                    /\ other = w.configs[j].value
  BY DEF Commitments!ConfigsOf
<1>3. /\ DOMAIN Commitments!MatchersOf(w) = DOMAIN w.configs
      /\ DOMAIN Commitments!KeysOf(w.input) = w.input
  BY DEF Commitments!MatchersOf, Commitments!KeysOf
<1>4. /\ Commitments!MatchersOf(w)[i] = w.configs[i].matcher
      /\ Commitments!MatchersOf(w)[j] = w.configs[j].matcher
      /\ Commitments!KeysOf(w.input)[c] = Key[c]
  BY DEF Commitments!MatchersOf, Commitments!KeysOf
<1>5. Commitments!Resolvable(Commitments!MatchersOf(w), Commitments!KeysOf(w.input))
  BY DEF Commitments!Plannable
<1>6. i = j
  BY <1>1, <1>2, <1>3, <1>4, <1>5 DEF Commitments!Resolvable
<1> QED
  BY <1>1, <1>2, <1>6

LEMMA UpsertListedType ==
  ASSUME Commitments!TypeOK, NEW w
  PROVE  /\ Commitments!Listed(w) \in Commitments!Lists
         /\ Commitments!Present(Commitments!Listed(w))
              = Commitments!Ours(w) \cap Commitments!Present(remote.list)
         /\ \A c \in Commitments!Present(Commitments!Listed(w)) :
              Commitments!Listed(w)[c] = remote.list[c]
BY UpsertTypes DEF Commitments!Listed, Commitments!Lists, Commitments!Present

\* What is read of a list has the commitments of the list.
LEMMA UpsertShownType ==
  ASSUME Commitments!CommitmentsAssumption, NEW list \in Commitments!Lists
  PROVE  /\ Commitments!Shown(list) \in Commitments!Lists
         /\ Commitments!Present(Commitments!Shown(list)) = Commitments!Present(list)
<1> DEFINE shown(c) == [list[c] EXCEPT !.usage = ReadAs[@]]
<1>1. \A c \in Cloud : Commitments!Shown(list)[c] =
        IF list[c] = Missing THEN Missing ELSE shown(c)
  BY DEF Commitments!Shown
<1>2. ASSUME NEW c \in Cloud, list[c] # Missing
      PROVE  shown(c) \in Commitments!Commitment /\ shown(c) # Missing
  <2>1. list[c] \in Commitments!Commitment
    BY <1>2 DEF Commitments!Lists
  <2>2. shown(c) \in Commitments!Commitment
    BY <2>1 DEF Commitments!Commitment, Commitments!CommitmentsAssumption
  <2> QED
    BY <2>2 DEF Commitments!CommitmentsAssumption
<1>3. DOMAIN Commitments!Shown(list) = Cloud
  BY DEF Commitments!Shown
<1>4. Commitments!Shown(list) = [c \in Cloud |-> IF list[c] = Missing THEN Missing ELSE shown(c)]
  BY DEF Commitments!Shown
<1> HIDE DEF shown
<1>5. Commitments!Shown(list) \in Commitments!Lists
  BY <1>2, <1>4 DEF Commitments!Lists
<1> QED
  BY <1>1, <1>2, <1>5 DEF Commitments!Present

LEMMA UpsertOursType ==
  ASSUME Commitments!CommitmentsAssumption, NEW w \in Uploads \cup {Absent}
  PROVE  /\ Commitments!Ours(w) \subseteq Cloud
         /\ w \in Uploads => w.input \subseteq Commitments!Ours(w)
BY UpsertConfiguration DEF Commitments!Ours

LEMMA UpsertNewType ==
  ASSUME Commitments!CommitmentsAssumption
  PROVE  Commitments!New \in Commitments!Commitment
BY DEF Commitments!New, Commitments!Commitment, Commitments!CommitmentsAssumption

LEMMA UpsertPlannedType ==
  ASSUME Commitments!CommitmentsAssumption, Commitments!TypeOK, want \in Uploads
  PROVE  Commitments!Planned \in Commitments!Lists
<1>1. \A c \in Cloud : Commitments!ConfigsOf(want, c) # {} =>
        (CHOOSE v \in Commitments!ConfigsOf(want, c) : TRUE) \in Commitments!Commitment
  BY UpsertConfiguration
<1>2. \A c \in Cloud : saved.list[c] \in Commitments!Commitment \cup {Missing}
  BY UpsertTypes DEF Commitments!Lists
<1>3. Commitments!New \in Commitments!Commitment
  BY UpsertNewType
<1>4. \A c \in Cloud : saved.list[c] # Missing =>
        [Commitments!New EXCEPT !.usage = saved.list[c].usage] \in Commitments!Commitment
  BY <1>2, <1>3 DEF Commitments!Commitment
<1> QED
  BY <1>1, <1>3, <1>4 DEF Commitments!Planned, Commitments!Lists

LEMMA UpsertImportType ==
  ASSUME Commitments!CommitmentsAssumption, Commitments!TypeOK, want \in Uploads
  PROVE  /\ Commitments!Import(want) \in Commitments!Lists
         /\ \A c \in want.input : Commitments!Import(want)[c] # Missing
         /\ \A c \in Cloud : c \notin want.input =>
              Commitments!Import(want)[c] = IF Commitments!Appends(want)
                  THEN remote.list[c] ELSE Missing
<1>1. Commitments!New \in Commitments!Commitment /\ Missing \notin Commitments!Commitment
  BY UpsertNewType DEF Commitments!CommitmentsAssumption
<1>2. \A c \in Cloud : remote.list[c] \in Commitments!Commitment \cup {Missing}
  BY UpsertTypes DEF Commitments!Lists
<1>3. want.input \subseteq Cloud
  BY UpsertConfiguration
<1> QED
  BY <1>1, <1>2, <1>3 DEF Commitments!Import, Commitments!Lists

LEMMA UpsertWorkType ==
  ASSUME Commitments!CommitmentsAssumption, Commitments!TypeOK, want \in Uploads
  PROVE  /\ Commitments!Work \in Commitments!Lists
         /\ Commitments!Present(Commitments!Work)
              = Commitments!Present(Commitments!Listed(want))
         /\ \A c \in Commitments!Present(Commitments!Work) : Fits(want, Commitments!Work[c], c)
<1>1. \A c \in Cloud : Commitments!ConfigsOf(want, c) # {} =>
        /\ (CHOOSE v \in Commitments!ConfigsOf(want, c) : TRUE)
             \in Commitments!ConfigsOf(want, c)
        /\ (CHOOSE v \in Commitments!ConfigsOf(want, c) : TRUE) \in Commitments!Commitment
  BY UpsertConfiguration
<1>2. Missing \notin Commitments!Commitment
  BY DEF Commitments!CommitmentsAssumption
<1>3. ASSUME NEW c \in Cloud, Commitments!Listed(want)[c] # Missing
      PROVE  /\ [remote.list[c] EXCEPT !.assigned = FALSE] \in Commitments!Commitment
             /\ [remote.list[c] EXCEPT !.assigned = FALSE].assigned = FALSE
  <2>1. remote.list[c] \in Commitments!Commitment
    BY <1>3, UpsertTypes DEF Commitments!Listed, Commitments!Lists
  <2> QED
    BY <2>1 DEF Commitments!Commitment
<1>4. Commitments!Work \in Commitments!Lists
  BY <1>1, <1>3 DEF Commitments!Work, Commitments!Lists
<1>5. \A c \in Cloud : Commitments!Listed(want)[c] # Missing =>
        /\ Commitments!Work[c] \in Commitments!Commitment
        /\ Commitments!ConfigsOf(want, c) # {} =>
             Commitments!Work[c] \in Commitments!ConfigsOf(want, c)
        /\ Commitments!ConfigsOf(want, c) = {} => Commitments!Work[c].assigned = FALSE
  BY <1>1, <1>3 DEF Commitments!Work
<1>6. \A c \in Cloud : Commitments!Listed(want)[c] = Missing => Commitments!Work[c] = Missing
  BY DEF Commitments!Work
<1> QED
  BY <1>2, <1>4, <1>5, <1>6 DEF Commitments!Present, Fits

-----------------------------------------------------------------------------
(* The calls *)

\* Only this commitment is another one.
OnlyAt(c, value) ==
  /\ remote' \in UpsertRemotes
  /\ remote'.csp = remote.csp
  /\ remote'.list[c] = value
  /\ \A d \in Cloud \ {c} : remote'.list[d] = remote.list[d]

LEMMA UpsertCallChanges ==
  ASSUME Commitments!CommitmentsAssumption, Commitments!TypeOK, NEW c \in Cloud
  PROVE  /\ Commitments!CallUpdate(c) => /\ remote'.list[c] \in Commitments!Commitment
                             /\ remote'.list[c].usage = run.work[c].usage
                             /\ remote'.list[c].strategy = run.work[c].strategy
                             /\ OnlyAt(c, remote'.list[c])
         /\ Commitments!CallAssign(c) =>
              OnlyAt(c, [remote.list[c] EXCEPT !.assigned = run.work[c].assigned])
         /\ Commitments!CallDelete(c) => OnlyAt(c, Missing)
<1>1. /\ remote \in UpsertRemotes /\ remote.list \in Commitments!Lists
      /\ run.work \in Commitments!Lists
  BY UpsertTypes
<1>2. Commitments!CallUpdate(c) \/ Commitments!CallAssign(c) =>
        remote.list[c] \in Commitments!Commitment /\ run.work[c] \in Commitments!Commitment
  BY <1>1, UpsertTypes
  DEF Commitments!CallUpdate, Commitments!CallAssign, Commitments!Present,
      Commitments!Lists
<1>3. ASSUME Commitments!CallUpdate(c)
      PROVE  /\ remote'.list[c] \in Commitments!Commitment
             /\ remote'.list[c].usage = run.work[c].usage
             /\ remote'.list[c].strategy = run.work[c].strategy
             /\ OnlyAt(c, remote'.list[c])
  <2> DEFINE value == [remote.list[c] EXCEPT !.usage = run.work[c].usage,
                                             !.strategy = run.work[c].strategy]
  <2>1. /\ value \in Commitments!Commitment /\ value.usage = run.work[c].usage
        /\ value.strategy = run.work[c].strategy
    BY <1>2, <1>3 DEF Commitments!Commitment
  <2>2. remote' = [remote EXCEPT !.list = [remote.list EXCEPT ![c] = value]]
    BY <1>3 DEF Commitments!CallUpdate
  <2> HIDE DEF value
  <2>3. OnlyAt(c, value)
    BY <1>1, <2>1, <2>2 DEF OnlyAt, UpsertRemotes, Commitments!Lists
  <2> QED
    BY <2>1, <2>3 DEF OnlyAt
<1>4. ASSUME Commitments!CallAssign(c)
      PROVE  OnlyAt(c, [remote.list[c] EXCEPT !.assigned = run.work[c].assigned])
  <2> DEFINE value == [remote.list[c] EXCEPT !.assigned = run.work[c].assigned]
  <2>1. value \in Commitments!Commitment
    BY <1>2, <1>4 DEF Commitments!Commitment
  <2>2. remote' = [remote EXCEPT !.list = [remote.list EXCEPT ![c] = value]]
    BY <1>4 DEF Commitments!CallAssign
  <2> HIDE DEF value
  <2>3. OnlyAt(c, value)
    BY <1>1, <2>1, <2>2 DEF OnlyAt, UpsertRemotes, Commitments!Lists
  <2> QED
    BY <2>3 DEF value
<1>5. ASSUME Commitments!CallDelete(c)
      PROVE  OnlyAt(c, Missing)
  BY <1>1, <1>5 DEF Commitments!CallDelete, OnlyAt, UpsertRemotes, Commitments!Lists
<1> QED
  BY <1>3, <1>4, <1>5

LEMMA UpsertImportChanges ==
  ASSUME Commitments!CommitmentsAssumption, Commitments!TypeOK, want \in Uploads,
         Commitments!CallImport
  PROVE  /\ remote' \in UpsertRemotes /\ remote'.csp = remote.csp
         /\ remote'.list = Commitments!Import(want)
BY UpsertImportType, UpsertTypes DEF Commitments!CallImport, UpsertRemotes

\* What a step of Terraform does at CAST AI: nothing, or a call.
LEMMA UpsertRemoteNext ==
  ASSUME Commitments!CommitmentsAssumption, Commitments!TypeOK, UpsertPurpose,
         UNCHANGED remote \/ Commitments!CallImport
           \/ (\E c \in Cloud : Commitments!CallUpdate(c) \/ Commitments!CallAssign(c) \/
                  Commitments!CallDelete(c))
  PROVE  remote' \in UpsertRemotes /\ remote'.csp = remote.csp
<1>1. CASE Commitments!CallImport
  BY <1>1, UpsertImportChanges DEF Commitments!CallImport, UpsertPurpose, Upserting
<1>2. CASE UNCHANGED remote
  BY <1>2, UpsertTypes
<1>3. CASE \E c \in Cloud :
             Commitments!CallUpdate(c) \/ Commitments!CallAssign(c) \/ Commitments!CallDelete(c)
  BY <1>3, UpsertCallChanges DEF OnlyAt
<1> QED
  BY <1>1, <1>2, <1>3

-----------------------------------------------------------------------------
(* The steps *)

LEMMA UpsertErrorType ==
  ASSUME Commitments!CommitmentsAssumption, Commitments!TypeOK, UpsertPurpose,
         run.pc \in Commitments!Steps
  PROVE  /\ Commitments!AfterError \in UpsertStates
         /\ Commitments!AfterError.exists \/ Commitments!AfterError = Commitments!NotSaved
<1>1. saved \in UpsertStates /\ (saved.exists \/ saved = Commitments!NotSaved)
  BY UpsertTypes
<1>2. CASE run.op = "update" /\ run.pc \in Upserting
  <2>1. want \in Uploads /\ saved.exists
    BY <1>2 DEF UpsertPurpose
  <2>2. Commitments!AfterError = [saved EXCEPT !.given = want, !.list = Commitments!Planned]
    BY <1>2 DEF Commitments!AfterError
  <2> QED
    BY <1>1, <2>1, <2>2, UpsertPlannedType DEF UpsertStates
<1>3. CASE run.op = "create" /\ run.pc = "read"
  <2>1. want \in Uploads
    BY <1>3 DEF UpsertPurpose, Upserting
  <2>2. Commitments!AfterError = [exists |-> TRUE, tainted |-> TRUE, given |-> want,
            list |-> Commitments!Planned]
    BY <1>3 DEF Commitments!AfterError
  <2> QED
    BY <2>1, <2>2, UpsertPlannedType DEF UpsertStates
<1>4. CASE run.op # "update" /\ ~(run.op = "create" /\ run.pc = "read")
  BY <1>1, <1>4 DEF Commitments!AfterError
<1>5. run.op = "update" => run.pc \in Upserting
  BY DEF UpsertPurpose, Upserting, Commitments!Steps
<1> QED
  BY <1>2, <1>3, <1>4, <1>5

LEMMA UpsertFailsSound ==
  ASSUME Commitments!CommitmentsAssumption, UpsertSound,
         Commitments!Refused \/ Commitments!Stops
  PROVE  UpsertSound'
<1>0. Commitments!TypeOK /\ UpsertPurpose
  BY DEF UpsertSound
<1>1. /\ run.pc \in Commitments!Steps /\ Commitments!Goes("failed", "none")
      /\ saved' \in {Commitments!AfterError, saved}
      /\ want' = want /\ trouble' \in 0..MaxTrouble /\ quiet' \in BOOLEAN
  BY <1>0, UpsertTypes, UpsertTroubleType
  DEF Commitments!Refused, Commitments!Stops, Commitments!Fails, Commitments!Steps
<1>2. remote' \in UpsertRemotes
  BY <1>0, UpsertRemoteNext DEF Commitments!Refused, Commitments!Stops
<1>3. saved' \in UpsertStates /\ (saved'.exists \/ saved' = Commitments!NotSaved)
  BY <1>0, <1>1, UpsertErrorType, UpsertTypes
<1>4. /\ run' \in UpsertRuns /\ run'.pc = "failed"
      /\ run'.at \subseteq Commitments!Present(run'.work)
      /\ Commitments!Cardinality(run'.at) <= 1
  BY <1>1, UpsertGoesType DEF UpsertPCs, UpsertOps, Commitments!Ended
<1>5. Commitments!TypeOK'
  BY <1>0, <1>1, <1>2, <1>3, <1>4, UpsertTypes, UpsertTypesNext
<1> QED
  BY <1>4, <1>5
  DEF UpsertSound, UpsertPurpose, UpsertBounds, UpsertDelivered,
      Commitments!SuccessIsReal, Upserting

LEMMA UpsertBeginsSound ==
  ASSUME Commitments!CommitmentsAssumption, UpsertSound,
         Commitments!StartApply \/ Commitments!Refresh
  PROVE  UpsertSound'
<1>0. Commitments!TypeOK /\ UpsertPurpose
  BY DEF UpsertSound
<1>1. UNCHANGED <<remote, want, trouble>> /\ quiet' \in BOOLEAN
  BY <1>0, UpsertTypes DEF Commitments!StartApply, Commitments!Refresh
<1>2. CASE Commitments!StartApply
  <2>1. /\ saved' = saved
        /\ \/ Commitments!Goes("refresh", "none") /\ saved.exists
           \/ Commitments!Goes("plan", "create") /\ ~saved.exists /\ want # Absent
           \/ Commitments!Goes("done", "none")
    BY <1>2 DEF Commitments!StartApply
  <2>2. /\ run' \in UpsertRuns
        /\ run'.at \subseteq Commitments!Present(run'.work)
        /\ Commitments!Cardinality(run'.at) <= 1
        /\ \/ run'.pc = "refresh" /\ saved.exists
           \/ run'.pc = "plan" /\ run'.op = "create" /\ ~saved.exists /\ want # Absent
           \/ run'.pc = "done" /\ run'.op = "none"
    BY <2>1, UpsertGoesType DEF UpsertPCs, UpsertOps, Commitments!Ended, Commitments!Steps
  <2>3. Commitments!TypeOK'
    BY <1>0, <1>1, <2>1, <2>2, UpsertTypes, UpsertTypesNext
  <2>4. UpsertPurpose'
    <3>1. run'.pc = "plan" =>
            saved = Commitments!NotSaved /\ run'.op = "create" /\ want # Absent
      BY <1>0, <2>2, UpsertTypes
    <3>2. /\ run'.pc \in {"refresh", "plan", "done"}
          /\ run'.pc = "refresh" => saved.exists
          /\ run'.pc = "done" => run'.op = "none"
          /\ run'.pc = "refresh" => run'.op = "none"
      BY <2>1, <2>2, UpsertGoesType
      DEF UpsertPCs, UpsertOps, Commitments!Ended, Commitments!Steps
    <3> QED
      BY <1>1, <2>1, <3>1, <3>2 DEF UpsertPurpose, Upserting
  <2>5. UpsertBounds'
    <3> SUFFICES ASSUME run'.pc = "plan" PROVE Commitments!Present(saved.list) = {}
      BY <1>1, <2>1, <2>2
      DEF UpsertBounds, Commitments!Ours, Commitments!Appends, Commitments!Present
    <3>1. saved = Commitments!NotSaved
      BY <1>0, <2>2, UpsertTypes
    <3> QED
      BY <3>1, UpsertNothingType
  <2> QED
    BY <2>2, <2>3, <2>4, <2>5 DEF UpsertSound, UpsertDelivered, Commitments!SuccessIsReal
<1>3. CASE Commitments!Refresh
  <2> DEFINE read == Commitments!Shown(Commitments!Listed(saved.given))
  <2>1. /\ saved.exists /\ saved' = [saved EXCEPT !.list = read]
        /\ Commitments!Goes("plan", "none")
    BY <1>0, <1>3 DEF Commitments!Refresh, UpsertPurpose
  <2>2. /\ run' \in UpsertRuns /\ run'.pc = "plan" /\ run'.op = "none"
        /\ run'.at \subseteq Commitments!Present(run'.work)
        /\ Commitments!Cardinality(run'.at) <= 1
    BY <2>1, UpsertGoesType DEF UpsertPCs, UpsertOps, Commitments!Steps
  <2>3. /\ read \in Commitments!Lists
        /\ Commitments!Present(read) \subseteq Commitments!Ours(saved.given)
    BY <1>0, UpsertListedType, UpsertShownType
  <2> HIDE DEF read
  <2>4. /\ saved' \in UpsertStates /\ saved'.exists /\ saved'.given = saved.given
        /\ saved'.list = read
    BY <1>0, <2>1, <2>3, UpsertTypes DEF UpsertStates
  <2>5. Commitments!TypeOK'
    BY <1>0, <1>1, <2>2, <2>4, UpsertTypes, UpsertTypesNext
  <2>6. UpsertPurpose'
    BY <2>2, <2>4 DEF UpsertPurpose, Upserting
  <2>7. UpsertBounds'
    BY <1>1, <2>2, <2>3, <2>4
    DEF UpsertBounds, Commitments!Ours, Commitments!Appends, Commitments!Present
  <2> QED
    BY <2>2, <2>5, <2>6, <2>7 DEF UpsertSound, UpsertDelivered, Commitments!SuccessIsReal
<1> QED
  BY <1>2, <1>3

LEMMA UpsertPlanSound ==
  ASSUME Commitments!CommitmentsAssumption, UpsertSound, Commitments!Plan
  PROVE  UpsertSound'
<1>0. Commitments!TypeOK /\ UpsertPurpose /\ UpsertBounds
  BY DEF UpsertSound
<1>1. run.pc = "plan" /\ UNCHANGED <<remote, want, saved, quiet, trouble>>
  BY DEF Commitments!Plan
<1>2. \/ saved.exists /\ run.op = "none"
      \/ saved = Commitments!NotSaved /\ run.op = "create" /\ want # Absent
  BY <1>0, <1>1 DEF UpsertPurpose
<1>3. CASE want = Absent \/ saved.tainted
  <2>1. run' = Commitments!Run("delete", "delete", saved.list, {})
    BY <1>3 DEF Commitments!Plan
  <2>2. saved.exists
    BY <1>2, <1>3 DEF Commitments!NotSaved
  <2>3. /\ run' \in UpsertRuns /\ run'.pc = "delete" /\ run'.op = "delete"
        /\ run'.work = saved.list /\ run'.at = {}
    BY <1>0, <2>1, UpsertTypes
    DEF Commitments!Run, UpsertRuns, UpsertPCs, UpsertOps, Commitments!Steps
  <2>4. Commitments!TypeOK'
    BY <1>0, <1>1, <2>3, UpsertAtType, UpsertTypes, UpsertTypesNext
  <2>5. UpsertPurpose'
    BY <1>1, <2>2, <2>3 DEF UpsertPurpose, Upserting
  <2>6. UpsertBounds'
    BY <1>0, <1>1, <2>3
    DEF UpsertBounds, Commitments!Ours, Commitments!Appends, Commitments!Present
  <2> QED
    BY <2>3, <2>4, <2>5, <2>6 DEF UpsertSound, UpsertDelivered, Commitments!SuccessIsReal
<1>4. CASE ~(want = Absent \/ saved.tainted)
  <2>1. \/ Commitments!Goes("failed", "none") \/ Commitments!Goes("done", "none")
        \/ Commitments!Plannable(want) /\ ~saved.exists /\ Commitments!Goes("import", "create")
        \/ Commitments!Plannable(want) /\ saved.exists /\ Commitments!Goes("import", "update")
    BY <1>4 DEF Commitments!Plan
  <2>2. /\ run' \in UpsertRuns
        /\ run'.at \subseteq Commitments!Present(run'.work)
        /\ Commitments!Cardinality(run'.at) <= 1
        /\ \/ run'.pc \in {"failed", "done"} /\ run'.op = "none"
           \/ /\ run'.pc = "import" /\ Commitments!Plannable(want)
              /\ \/ run'.op = "create" /\ ~saved.exists
                 \/ run'.op = "update" /\ saved.exists
    BY <2>1, UpsertGoesType DEF UpsertPCs, UpsertOps, Commitments!Ended, Commitments!Steps
  <2>3. Commitments!TypeOK'
    BY <1>0, <1>1, <2>2, UpsertTypes, UpsertTypesNext
  <2>4. want \in Uploads
    BY <1>0, <1>4, UpsertTypes
  <2>5. UpsertPurpose'
    BY <1>1, <1>2, <2>2, <2>4 DEF UpsertPurpose, Upserting, Commitments!Plannable
  <2> QED
    BY <2>2, <2>3, <2>5
    DEF UpsertSound, UpsertBounds, UpsertDelivered, Commitments!SuccessIsReal
<1> QED
  BY <1>3, <1>4

\* A call for a commitment leaves which of the file are there.
LEMMA UpsertSame ==
  ASSUME Commitments!CommitmentsAssumption, Commitments!TypeOK, want' = want, NEW c \in Cloud,
         remote.list[c] # Missing, remote'.list[c] # Missing, OnlyAt(c, remote'.list[c])
  PROVE  /\ Commitments!Ours(want)' = Commitments!Ours(want)
         /\ Commitments!Present(Commitments!Listed(want)')
              = Commitments!Present(Commitments!Listed(want))
BY UpsertTypes
DEF Commitments!Listed, Commitments!Ours, Commitments!Appends, Commitments!Present,
    OnlyAt, UpsertRemotes, Commitments!Lists

LEMMA UpsertImportsSound ==
  ASSUME Commitments!CommitmentsAssumption, UpsertSound, Commitments!Imports
  PROVE  UpsertSound'
<1>0. Commitments!TypeOK /\ UpsertPurpose
  BY DEF UpsertSound
<1>1. /\ run.pc = "import" /\ Commitments!Goes("list", run.op) /\ Commitments!CallImport
      /\ UNCHANGED <<want, saved, quiet, trouble>>
  BY DEF Commitments!Imports, Commitments!CallImport
<1>2. /\ want \in Uploads /\ Commitments!Plannable(want)
      /\ \/ run.op = "create" /\ saved = Commitments!NotSaved
         \/ run.op = "update" /\ saved.exists
  BY <1>0, <1>1 DEF UpsertPurpose, Upserting
<1>3. /\ run' \in UpsertRuns /\ run'.pc = "list" /\ run'.op = run.op
      /\ run'.at \subseteq Commitments!Present(run'.work)
      /\ Commitments!Cardinality(run'.at) <= 1
  BY <1>1, <1>2, UpsertGoesType DEF UpsertPCs, UpsertOps, Commitments!Steps
<1>4. /\ remote' \in UpsertRemotes /\ remote'.csp = remote.csp
      /\ remote'.list = Commitments!Import(want)
  BY <1>0, <1>1, <1>2, UpsertImportChanges
<1>5. Commitments!TypeOK'
  BY <1>0, <1>1, <1>3, <1>4, UpsertTypes, UpsertTypesNext
<1>6. UpsertPurpose'
  BY <1>1, <1>2, <1>3 DEF UpsertPurpose, Upserting, Commitments!Plannable
<1>7. Commitments!Present(Commitments!Listed(want)') = want.input
  <2>1. /\ \A c \in want.input : Commitments!Import(want)[c] # Missing
        /\ \A c \in Cloud : c \notin want.input =>
             Commitments!Import(want)[c] = IF Commitments!Appends(want)
                 THEN remote.list[c] ELSE Missing
        /\ want.input \subseteq Cloud /\ want # Absent
    BY <1>0, <1>2, UpsertImportType, UpsertConfiguration
  <2>2. Commitments!Ours(want)' = IF Commitments!Appends(want) THEN want.input ELSE Cloud
    BY <1>1, <1>4, <2>1 DEF Commitments!Ours, Commitments!Appends
  <2>3. \A c \in Cloud : Commitments!Listed(want)'[c] =
          IF c \in Commitments!Ours(want)' THEN Commitments!Import(want)[c] ELSE Missing
    BY <1>1, <1>4 DEF Commitments!Listed
  <2> QED
    BY <2>1, <2>2, <2>3 DEF Commitments!Present
<1>8. UpsertDelivered'
  BY <1>1, <1>3, <1>7 DEF UpsertDelivered
<1> QED
  BY <1>3, <1>5, <1>6, <1>8 DEF UpsertSound, UpsertBounds, Commitments!SuccessIsReal

LEMMA UpsertMapsSound ==
  ASSUME Commitments!CommitmentsAssumption, UpsertSound, Commitments!ListAndMap
  PROVE  UpsertSound'
<1>0. Commitments!TypeOK /\ UpsertPurpose /\ UpsertDelivered
  BY DEF UpsertSound
<1>1. /\ run.pc = "list" /\ run' = Commitments!Run("update", run.op, Commitments!Work, {})
      /\ UNCHANGED <<remote, want, saved, quiet, trouble>>
  BY DEF Commitments!ListAndMap
<1>2. /\ want \in Uploads /\ Commitments!Plannable(want)
      /\ \/ run.op = "create" /\ saved = Commitments!NotSaved
         \/ run.op = "update" /\ saved.exists
  BY <1>0, <1>1 DEF UpsertPurpose, Upserting
<1>3. /\ Commitments!Work \in Commitments!Lists
      /\ Commitments!Present(Commitments!Work) = Commitments!Present(Commitments!Listed(want))
      /\ Commitments!Present(Commitments!Listed(want)) \subseteq Commitments!Ours(want)
      /\ \A c \in Commitments!Present(Commitments!Work) : Fits(want, Commitments!Work[c], c)
  BY <1>0, <1>2, UpsertWorkType, UpsertListedType
<1>4. /\ run' \in UpsertRuns /\ run'.pc = "update" /\ run'.op = run.op
      /\ run'.work = Commitments!Work /\ run'.at = {}
  BY <1>1, <1>2, <1>3
  DEF Commitments!Run, UpsertRuns, UpsertPCs, UpsertOps, Commitments!Steps
<1>5. Commitments!TypeOK'
  BY <1>0, <1>1, <1>4, UpsertAtType, UpsertTypes, UpsertTypesNext
<1>6. UpsertPurpose'
  BY <1>1, <1>2, <1>4 DEF UpsertPurpose, Upserting, Commitments!Plannable
<1>7. UpsertBounds'
  BY <1>1, <1>3, <1>4
  DEF UpsertBounds, Commitments!Ours, Commitments!Appends, Commitments!Present
<1>8. UpsertDelivered'
  <2> SUFFICES ASSUME quiet
      PROVE  /\ Commitments!Present(Commitments!Listed(want)') = want.input
             /\ Commitments!Present(Commitments!Work) \subseteq want.input
             /\ \A c \in want.input :
                  Fits(want, IF Commitments!Work[c] # Missing
                      THEN Commitments!Work[c] ELSE remote.list[c], c)
    BY <1>1, <1>4 DEF UpsertDelivered, Commitments!Present
  <2>1. Commitments!Present(Commitments!Listed(want)) = want.input
    BY <1>0, <1>1 DEF UpsertDelivered
  <2>2. Commitments!Listed(want)' = Commitments!Listed(want)
    BY <1>1 DEF Commitments!Listed, Commitments!Ours, Commitments!Appends
  <2>3. \A c \in want.input :
          c \in Commitments!Present(Commitments!Work) /\ Commitments!Work[c] # Missing
    BY <1>3, <2>1 DEF Commitments!Present
  <2> QED
    BY <1>3, <2>1, <2>2, <2>3
<1> QED
  BY <1>4, <1>5, <1>6, <1>7, <1>8 DEF UpsertSound, Commitments!SuccessIsReal

LEMMA UpsertUpdateSound ==
  ASSUME Commitments!CommitmentsAssumption, UpsertSound, Commitments!Update
  PROVE  UpsertSound'
<1>0. Commitments!TypeOK /\ UpsertPurpose /\ UpsertBounds /\ UpsertDelivered
  BY DEF UpsertSound
<1>1. PICK c \in Cloud : Commitments!CallUpdate(c) /\ run' = [run EXCEPT !.pc = "assign",
          !.at = {c}]
  BY DEF Commitments!Update
<1>2. /\ run.pc = "update" /\ c \in Commitments!Present(run.work) /\ remote.list[c] # Missing
      /\ UNCHANGED <<want, saved, quiet, trouble>>
  BY <1>1 DEF Commitments!Update, Commitments!CallUpdate
<1>3. /\ want \in Uploads /\ Commitments!Plannable(want)
      /\ \/ run.op = "create" /\ saved = Commitments!NotSaved
         \/ run.op = "update" /\ saved.exists
  BY <1>0, <1>2 DEF UpsertPurpose, Upserting
<1>4. /\ remote'.list[c] \in Commitments!Commitment /\ remote'.list[c].usage = run.work[c].usage
      /\ remote'.list[c].strategy = run.work[c].strategy
      /\ OnlyAt(c, remote'.list[c]) /\ remote'.list[c] # Missing
  BY <1>0, <1>1, UpsertCallChanges DEF Commitments!CommitmentsAssumption
<1>5. /\ run' \in UpsertRuns /\ run'.pc = "assign" /\ run'.op = run.op
      /\ run'.work = run.work /\ run'.at = {c}
  BY <1>0, <1>1, UpsertTypes DEF UpsertRuns, UpsertPCs, Commitments!Steps
<1>6. Commitments!TypeOK'
  BY <1>0, <1>2, <1>4, <1>5, UpsertAtType, UpsertTypes, UpsertTypesNext DEF OnlyAt
<1>7. UpsertPurpose'
  BY <1>2, <1>3, <1>5 DEF UpsertPurpose, Upserting, Commitments!Plannable
<1>8. /\ Commitments!Ours(want)' = Commitments!Ours(want)
      /\ Commitments!Present(Commitments!Listed(want)')
           = Commitments!Present(Commitments!Listed(want))
  BY <1>0, <1>2, <1>4, UpsertSame
<1>9. UpsertBounds'
  BY <1>0, <1>2, <1>5, <1>8 DEF UpsertBounds, Commitments!Present
<1>10. UpsertDelivered'
  <2> SUFFICES ASSUME quiet
      PROVE  /\ Commitments!Present(Commitments!Listed(want)') = want.input
             /\ Commitments!Present(run.work) \subseteq want.input
             /\ \A d \in want.input :
                  Fits(want, IF run.work[d] # Missing THEN run.work[d] ELSE remote'.list[d], d)
             /\ remote'.list[c].usage = run.work[c].usage
             /\ remote'.list[c].strategy = run.work[c].strategy
    BY <1>2, <1>5 DEF UpsertDelivered, Commitments!Present
  <2>1. \A d \in want.input : run.work[d] = Missing => remote'.list[d] = remote.list[d]
    BY <1>2, <1>3, <1>4, UpsertConfiguration DEF Commitments!Present, OnlyAt
  <2>2. /\ Commitments!Present(run.work) \subseteq want.input
        /\ \A d \in want.input :
             Fits(want, IF run.work[d] # Missing THEN run.work[d] ELSE remote.list[d], d)
        /\ Commitments!Present(Commitments!Listed(want)) = want.input
    BY <1>0, <1>2 DEF UpsertDelivered
  <2> QED
    BY <1>4, <1>8, <2>1, <2>2
<1> QED
  BY <1>5, <1>6, <1>7, <1>9, <1>10 DEF UpsertSound, Commitments!SuccessIsReal

LEMMA UpsertAssignSound ==
  ASSUME Commitments!CommitmentsAssumption, UpsertSound, Commitments!Assign
  PROVE  UpsertSound'
<1>0. Commitments!TypeOK /\ UpsertPurpose /\ UpsertBounds /\ UpsertDelivered
  BY DEF UpsertSound
<1>1. PICK c \in run.at :
        /\ Commitments!CallAssign(c)
        /\ run' = Commitments!Run("update", run.op, [run.work EXCEPT ![c] = Missing], {})
  BY DEF Commitments!Assign
<1>2. /\ run.pc = "assign" /\ c \in Commitments!Present(run.work) /\ c \in Cloud
      /\ remote.list[c] # Missing /\ UNCHANGED <<want, saved, quiet, trouble>>
  BY <1>0, <1>1, UpsertTypes DEF Commitments!Assign, Commitments!CallAssign
<1>3. /\ want \in Uploads /\ Commitments!Plannable(want)
      /\ \/ run.op = "create" /\ saved = Commitments!NotSaved
         \/ run.op = "update" /\ saved.exists
  BY <1>0, <1>2 DEF UpsertPurpose, Upserting
<1> DEFINE value == [remote.list[c] EXCEPT !.assigned = run.work[c].assigned]
           work == [run.work EXCEPT ![c] = Missing]
<1>4. OnlyAt(c, value)
  BY <1>0, <1>1, <1>2, UpsertCallChanges
<1>5. remote.list[c] \in Commitments!Commitment /\ run.work[c] \in Commitments!Commitment
  BY <1>0, <1>2, UpsertTypes DEF Commitments!Present, Commitments!Lists
<1>6. /\ value \in Commitments!Commitment /\ value # Missing
      /\ /\ remote.list[c].usage = run.work[c].usage
         /\ remote.list[c].strategy = run.work[c].strategy
         => value = run.work[c]
  BY <1>5 DEF Commitments!Commitment, Commitments!CommitmentsAssumption
<1>7. /\ work \in Commitments!Lists
      /\ Commitments!Present(work) = Commitments!Present(run.work) \ {c}
      /\ work[c] = Missing /\ \A d \in Cloud \ {c} : work[d] = run.work[d]
  BY <1>0, <1>2, UpsertTypes DEF Commitments!Lists, Commitments!Present
<1>8. run' = Commitments!Run("update", run.op, work, {})
  BY <1>1
<1> HIDE DEF value, work
<1>9. /\ run' \in UpsertRuns /\ run'.pc = "update" /\ run'.op = run.op
      /\ run'.work = work /\ run'.at = {}
  BY <1>3, <1>7, <1>8
  DEF Commitments!Run, UpsertRuns, UpsertPCs, UpsertOps, Commitments!Steps
<1>10. OnlyAt(c, remote'.list[c]) /\ remote'.list[c] = value
  BY <1>4 DEF OnlyAt
<1>11. Commitments!TypeOK'
  BY <1>0, <1>2, <1>9, <1>10, UpsertAtType, UpsertTypes, UpsertTypesNext DEF OnlyAt
<1>12. UpsertPurpose'
  BY <1>2, <1>3, <1>9 DEF UpsertPurpose, Upserting, Commitments!Plannable
<1>13. /\ Commitments!Ours(want)' = Commitments!Ours(want)
       /\ Commitments!Present(Commitments!Listed(want)')
            = Commitments!Present(Commitments!Listed(want))
  BY <1>0, <1>2, <1>6, <1>10, UpsertSame
<1>14. UpsertBounds'
  BY <1>0, <1>2, <1>7, <1>9, <1>13 DEF UpsertBounds, Commitments!Present
<1>15. UpsertDelivered'
  <2> SUFFICES ASSUME quiet
      PROVE  /\ Commitments!Present(Commitments!Listed(want)') = want.input
             /\ Commitments!Present(work) \subseteq want.input
             /\ \A d \in want.input :
                  Fits(want, IF work[d] # Missing THEN work[d] ELSE remote'.list[d], d)
    BY <1>2, <1>9 DEF UpsertDelivered, Commitments!Present
  <2>1. /\ Commitments!Present(run.work) \subseteq want.input
        /\ \A d \in want.input :
             Fits(want, IF run.work[d] # Missing THEN run.work[d] ELSE remote.list[d], d)
        /\ Commitments!Present(Commitments!Listed(want)) = want.input
        /\ remote.list[c].usage = run.work[c].usage
        /\ remote.list[c].strategy = run.work[c].strategy
    BY <1>0, <1>1, <1>2 DEF UpsertDelivered
  <2>2. Fits(want, value, c) /\ c \in want.input
    BY <1>2, <1>6, <2>1 DEF Commitments!Present
  <2>3. want.input \subseteq Cloud
    BY <1>3, UpsertConfiguration
  <2>4. \A d \in want.input \ {c} : remote'.list[d] = remote.list[d] /\ work[d] = run.work[d]
    BY <1>7, <1>10, <2>3 DEF OnlyAt
  <2> QED
    BY <1>7, <1>10, <1>13, <2>1, <2>2, <2>4
<1> QED
  BY <1>9, <1>11, <1>12, <1>14, <1>15 DEF UpsertSound, Commitments!SuccessIsReal

LEMMA UpsertEndsSound ==
  ASSUME Commitments!CommitmentsAssumption, UpsertSound,
         Commitments!Upserted \/ Commitments!ReadBack
  PROVE  UpsertSound'
<1>0. Commitments!TypeOK /\ UpsertPurpose /\ UpsertBounds /\ UpsertDelivered
  BY DEF UpsertSound
<1>1. run.pc \in {"update", "read"} /\ UNCHANGED <<remote, want, quiet, trouble>>
  BY DEF Commitments!Upserted, Commitments!ReadBack
<1>2. /\ want \in Uploads /\ Commitments!Plannable(want)
      /\ \/ run.op = "create" /\ saved = Commitments!NotSaved
         \/ run.op = "update" /\ saved.exists
  BY <1>0, <1>1 DEF UpsertPurpose, Upserting
<1>3. want.input \subseteq Cloud
  BY <1>2, UpsertConfiguration
<1>4. Commitments!Listed(want)' = Commitments!Listed(want)
  BY <1>1 DEF Commitments!Listed, Commitments!Ours, Commitments!Appends
<1>5. CASE Commitments!Upserted
  <2>1. /\ run.pc = "update" /\ run.work = Commitments!Nothing
        /\ Commitments!Goes("read", run.op) /\ saved' = saved
    BY <1>5 DEF Commitments!Upserted
  <2>2. /\ run' \in UpsertRuns /\ run'.pc = "read" /\ run'.op = run.op
        /\ run'.at \subseteq Commitments!Present(run'.work)
        /\ Commitments!Cardinality(run'.at) <= 1
    BY <1>2, <2>1, UpsertGoesType DEF UpsertPCs, UpsertOps, Commitments!Steps
  <2>3. Commitments!TypeOK'
    BY <1>0, <1>1, <2>1, <2>2, UpsertTypes, UpsertTypesNext
  <2>4. UpsertPurpose'
    BY <1>1, <1>2, <2>1, <2>2 DEF UpsertPurpose, Upserting, Commitments!Plannable
  <2>5. UpsertDelivered'
    <3> SUFFICES ASSUME quiet
        PROVE  /\ Commitments!Present(Commitments!Listed(want)') = want.input
               /\ \A c \in want.input : Fits(want, remote.list[c], c)
      BY <1>1, <2>2 DEF UpsertDelivered, Commitments!Present
    <3>1. \A c \in want.input : run.work[c] = Missing
      BY <1>3, <2>1 DEF Commitments!Nothing
    <3> QED
      BY <1>0, <1>4, <2>1, <3>1 DEF UpsertDelivered
  <2> QED
    BY <2>2, <2>3, <2>4, <2>5 DEF UpsertSound, UpsertBounds, Commitments!SuccessIsReal
<1>6. CASE Commitments!ReadBack
  <2>1. /\ run.pc = "read" /\ Commitments!Goes("done", run.op)
        /\ saved' = [exists |-> TRUE, tainted |-> FALSE, given |-> want,
                     list |-> Commitments!Shown(Commitments!Listed(want))]
    BY <1>6 DEF Commitments!ReadBack
  <2>2. /\ run' \in UpsertRuns /\ run'.pc = "done" /\ run'.op = run.op
        /\ run'.at \subseteq Commitments!Present(run'.work)
        /\ Commitments!Cardinality(run'.at) <= 1
    BY <1>2, <2>1, UpsertGoesType DEF UpsertPCs, UpsertOps, Commitments!Ended
  <2>3. Commitments!Shown(Commitments!Listed(want)) \in Commitments!Lists
    BY <1>0, UpsertListedType, UpsertShownType
  <2>4. /\ saved' \in UpsertStates /\ saved'.exists
        /\ saved'.list = Commitments!Shown(Commitments!Listed(want))
    BY <1>2, <2>1, <2>3 DEF UpsertStates
  <2>5. Commitments!TypeOK'
    BY <1>0, <1>1, <2>2, <2>4, UpsertTypes, UpsertTypesNext
  <2>6. UpsertPurpose'
    BY <2>2, <2>4 DEF UpsertPurpose, Upserting
  <2>7. Commitments!SuccessIsReal'
    <3> SUFFICES ASSUME quiet
        PROVE  /\ Commitments!Present(Commitments!Listed(want)) = want.input
               /\ \A c \in want.input : \A v \in Commitments!ConfigsOf(want, c) :
                    remote.list[c] = v
               /\ \A c \in want.input : Commitments!ConfigsOf(want, c) = {} =>
                    ~remote.list[c].assigned
      <4>1. /\ Commitments!Shown(Commitments!Listed(want))'
                 = Commitments!Shown(Commitments!Listed(want))
            /\ Commitments!Present(Commitments!Listed(want))'
                 = Commitments!Present(Commitments!Listed(want))
        BY <1>4 DEF Commitments!Shown, Commitments!Present
      <4> QED
        BY <1>1, <2>4, <4>1 DEF Commitments!SuccessIsReal
    <3>1. /\ Commitments!Present(Commitments!Listed(want)) = want.input
          /\ \A c \in want.input : Fits(want, remote.list[c], c)
      BY <1>0, <2>1 DEF UpsertDelivered
    <3>2. ASSUME NEW c \in want.input, NEW v \in Commitments!ConfigsOf(want, c)
          PROVE  remote.list[c] = v
      <4>1. remote.list[c] \in Commitments!ConfigsOf(want, c)
        BY <3>1, <3>2 DEF Fits
      <4> QED
        BY <1>2, <4>1, UpsertOneValue
    <3> QED
      BY <3>1, <3>2 DEF Fits
  <2> QED
    BY <2>2, <2>5, <2>6, <2>7 DEF UpsertSound, UpsertBounds, UpsertDelivered
<1> QED
  BY <1>5, <1>6

LEMMA UpsertDeleteSound ==
  ASSUME Commitments!CommitmentsAssumption, UpsertSound,
         Commitments!Delete \/ Commitments!Deleted
  PROVE  UpsertSound'
<1>0. Commitments!TypeOK /\ UpsertPurpose /\ UpsertBounds
  BY DEF UpsertSound
<1>1. /\ run.pc = "delete" /\ run.op = "delete" /\ run.at = {} /\ saved.exists
      /\ UNCHANGED <<want, quiet, trouble>>
  BY <1>0 DEF Commitments!Delete, Commitments!Deleted, Commitments!CallDelete, UpsertPurpose
<1>2. CASE Commitments!Delete
  <2>1. PICK c \in Cloud : Commitments!CallDelete(c) /\ run' = [run EXCEPT !.work[c] = Missing]
    BY <1>2 DEF Commitments!Delete
  <2>2. saved' = saved
    BY <1>2 DEF Commitments!Delete
  <2>3. OnlyAt(c, Missing)
    BY <1>0, <2>1, UpsertCallChanges
  <2>4. /\ run' \in UpsertRuns /\ run'.pc = "delete" /\ run'.op = "delete" /\ run'.at = {}
        /\ Commitments!Present(run'.work) \subseteq Commitments!Present(run.work)
    BY <1>0, <1>1, <2>1, UpsertTypes DEF UpsertRuns, Commitments!Lists, Commitments!Present
  <2>5. Commitments!TypeOK'
    BY <1>0, <1>1, <2>2, <2>3, <2>4, UpsertAtType, UpsertTypes, UpsertTypesNext DEF OnlyAt
  <2>6. UpsertPurpose'
    BY <1>1, <2>2, <2>4 DEF UpsertPurpose, Upserting
  <2>7. UpsertBounds'
    BY <1>0, <1>1, <2>2, <2>3, <2>4
    DEF UpsertBounds, OnlyAt, Commitments!Ours, Commitments!Appends, Commitments!Present
  <2> QED
    BY <2>4, <2>5, <2>6, <2>7 DEF UpsertSound, UpsertDelivered, Commitments!SuccessIsReal
<1>3. CASE Commitments!Deleted
  <2>1. /\ saved' = Commitments!NotSaved /\ remote' = remote
        /\ \/ Commitments!Goes("done", "delete")
           \/ Commitments!Goes("plan", "create") /\ want # Absent
    BY <1>3 DEF Commitments!Deleted
  <2>2. /\ run' \in UpsertRuns
        /\ run'.at \subseteq Commitments!Present(run'.work)
        /\ Commitments!Cardinality(run'.at) <= 1
        /\ \/ run'.pc = "done" /\ run'.op = "delete"
           \/ run'.pc = "plan" /\ run'.op = "create" /\ want # Absent
    BY <2>1, UpsertGoesType DEF UpsertPCs, UpsertOps, Commitments!Ended, Commitments!Steps
  <2>3. Commitments!TypeOK'
    BY <1>0, <1>1, <2>1, <2>2, UpsertNothingType, UpsertTypes, UpsertTypesNext
  <2>4. UpsertPurpose'
    BY <1>1, <2>1, <2>2 DEF UpsertPurpose, Upserting
  <2>5. UpsertBounds'
    BY <2>1, <2>2, UpsertNothingType DEF UpsertBounds, Commitments!Present
  <2> QED
    BY <2>2, <2>3, <2>4, <2>5 DEF UpsertSound, UpsertDelivered, Commitments!SuccessIsReal
<1> QED
  BY <1>2, <1>3

LEMMA UpsertEditsSound ==
  ASSUME Commitments!CommitmentsAssumption, UpsertSound,
         Commitments!ImportState \/ Commitments!EditConfig \/ Commitments!Others
  PROVE  UpsertSound'
<1>0. Commitments!TypeOK /\ UpsertPurpose /\ UpsertBounds
  BY DEF UpsertSound
<1>1. run' = run /\ trouble' \in 0..MaxTrouble
  BY <1>0, UpsertTroubleType
  DEF Commitments!ImportState, Commitments!EditConfig, Commitments!Others
<1>2. CASE Commitments!ImportState
  <2>1. /\ run.pc \in Commitments!Ended /\ ~saved.exists /\ UNCHANGED <<remote, want, quiet>>
        /\ saved' = [exists |-> TRUE, tainted |-> FALSE, given |-> Absent,
                     list |-> Commitments!Shown(Commitments!Listed(Absent))]
    BY <1>2 DEF Commitments!ImportState
  <2>2. saved' \in UpsertStates /\ saved'.exists
    BY <1>0, <2>1, UpsertListedType, UpsertShownType DEF UpsertStates
  <2>3. Commitments!TypeOK'
    BY <1>0, <1>1, <2>1, <2>2, UpsertTypes, UpsertTypesNext
  <2>4. UpsertPurpose'
    BY <1>0, <1>1, <2>1, <2>2 DEF UpsertPurpose, Upserting, Commitments!Ended
  <2>5. UpsertBounds' /\ UpsertDelivered'
    BY <1>1, <2>1 DEF UpsertBounds, UpsertDelivered, Commitments!Ended
  <2>6. Commitments!SuccessIsReal'
    BY <1>0, <1>1, <2>1 DEF Commitments!SuccessIsReal, UpsertPurpose
  <2> QED
    BY <2>3, <2>4, <2>5, <2>6 DEF UpsertSound
<1>3. CASE Commitments!EditConfig
  <2>1. /\ run.pc \in Commitments!Ended /\ UNCHANGED <<remote, saved>> /\ quiet' = FALSE
        /\ want' \in Uploads \cup {Absent}
    BY <1>3 DEF Commitments!EditConfig
  <2>2. Commitments!TypeOK'
    BY <1>0, <1>1, <2>1, UpsertTypes, UpsertTypesNext
  <2>3. UpsertPurpose'
    BY <1>0, <1>1, <2>1 DEF UpsertPurpose, Upserting, Commitments!Ended
  <2>4. UpsertBounds'
    BY <1>1, <2>1 DEF UpsertBounds, Commitments!Ended
  <2> QED
    BY <2>1, <2>2, <2>3, <2>4 DEF UpsertSound, UpsertDelivered, Commitments!SuccessIsReal
<1>4. CASE Commitments!Others
  <2>1. UNCHANGED <<want, saved>> /\ quiet' = FALSE
    BY <1>4 DEF Commitments!Others
  <2>2. PICK c \in Cloud, x \in Commitments!Commitment \cup {Missing} :
          remote' = [remote EXCEPT !.list[c] = x]
    BY <1>4 DEF Commitments!Others
  <2>3. remote' \in UpsertRemotes /\ remote'.csp = remote.csp
    BY <1>0, <2>2, UpsertTypes DEF UpsertRemotes, Commitments!Lists
  <2>4. Commitments!TypeOK'
    BY <1>0, <1>1, <2>1, <2>3, UpsertTypes, UpsertTypesNext
  <2>5. UpsertPurpose'
    BY <1>0, <1>1, <2>1 DEF UpsertPurpose, Upserting, Commitments!Plannable
  <2>6. UpsertBounds'
    BY <1>0, <1>1, <2>1, <2>3
    DEF UpsertBounds, Commitments!Ours, Commitments!Appends, Commitments!Present
  <2> QED
    BY <2>1, <2>4, <2>5, <2>6 DEF UpsertSound, UpsertDelivered, Commitments!SuccessIsReal
<1> QED
  BY <1>2, <1>3, <1>4

LEMMA UpsertInit ==
  ASSUME Commitments!CommitmentsAssumption, Commitments!Init
  PROVE  UpsertSound
<1>1. /\ run \in UpsertRuns /\ run.pc = "idle"
      /\ run.at \subseteq Commitments!Present(run.work) /\ Commitments!Cardinality(run.at) <= 1
  BY UpsertNothingType, UpsertAtType
  DEF Commitments!Init, Commitments!Run, UpsertRuns, UpsertPCs, UpsertOps,
      Commitments!Ended
<1>2. remote \in UpsertRemotes
  <2>1. PICK csp \in {"azure", "gcp"},
             list \in [Cloud -> {Missing, Commitments!New}] :
          remote = [csp |-> csp, list |-> list]
    BY DEF Commitments!Init
  <2>2. Commitments!New \in Commitments!Commitment
    BY UpsertNewType
  <2>3. list \in Commitments!Lists
    BY <2>2 DEF Commitments!Lists
  <2> QED
    BY <2>1, <2>3 DEF UpsertRemotes
<1>3. Commitments!TypeOK
  BY <1>1, <1>2, UpsertNothingType
  DEF Commitments!Init, Commitments!TypeOK, Commitments!CommitmentsAssumption,
      UpsertRemotes, UpsertStates, UpsertRuns, UpsertPCs, UpsertOps
<1> QED
  BY <1>1, <1>3
  DEF UpsertSound, UpsertPurpose, UpsertBounds, UpsertDelivered,
      Commitments!SuccessIsReal, Upserting

LEMMA UpsertStep ==
  ASSUME Commitments!CommitmentsAssumption, UpsertSound, [Commitments!Next]_(Commitments!vars)
  PROVE  UpsertSound'
<1>1. CASE Commitments!Next
  BY <1>1, UpsertFailsSound, UpsertBeginsSound, UpsertPlanSound, UpsertImportsSound,
    UpsertMapsSound, UpsertUpdateSound, UpsertAssignSound, UpsertEndsSound,
    UpsertDeleteSound, UpsertEditsSound
  DEF Commitments!Next, Commitments!Terraform
<1>2. CASE UNCHANGED Commitments!vars
  <2>1. Commitments!TypeOK' /\ UpsertPurpose'
    BY <1>2
    DEF Commitments!vars, UpsertSound, Commitments!TypeOK, UpsertPurpose,
        Commitments!Plannable, Commitments!Present
  <2>2. UpsertBounds'
    BY <1>2
    DEF Commitments!vars, UpsertSound, UpsertBounds, Commitments!Ours,
        Commitments!Appends, Commitments!Present
  <2>3. UpsertDelivered'
    BY <1>2
    DEF Commitments!vars, UpsertSound, UpsertDelivered, Commitments!Listed,
        Commitments!Ours, Commitments!Appends, Commitments!Present
  <2>4. Commitments!Listed(want)' = Commitments!Listed(want)
    BY <1>2
    DEF Commitments!vars, Commitments!Listed, Commitments!Ours, Commitments!Appends
  <2>5. /\ Commitments!Shown(Commitments!Listed(want))'
             = Commitments!Shown(Commitments!Listed(want))
        /\ Commitments!Present(Commitments!Listed(want))'
             = Commitments!Present(Commitments!Listed(want))
    BY <2>4 DEF Commitments!Shown, Commitments!Present
  <2>6. UNCHANGED <<remote, want, saved, run, quiet>>
    BY <1>2 DEF Commitments!vars
  <2>7. \A c : Commitments!ConfigsOf(want, c)' = Commitments!ConfigsOf(want, c)
    BY <2>6 DEF Commitments!ConfigsOf
  <2>8. Commitments!SuccessIsReal'
    BY <2>5, <2>6, <2>7 DEF UpsertSound, Commitments!SuccessIsReal
  <2> QED
    BY <2>1, <2>2, <2>3, <2>8 DEF UpsertSound
<1> QED
  BY <1>1, <1>2

LEMMA UpsertInvariant ==
  ASSUME Commitments!CommitmentsAssumption
  PROVE  Commitments!Spec => []UpsertSound
<1>1. Commitments!Init => UpsertSound
  BY UpsertInit
<1>2. UpsertSound /\ [Commitments!Next]_(Commitments!vars) => UpsertSound'
  BY UpsertStep
<1> QED
  BY <1>1, <1>2, PTL DEF Commitments!Spec

\* What a step of Terraform changes is ours.
LEMMA UpsertLeaves ==
  ASSUME Commitments!CommitmentsAssumption, UpsertSound, Commitments!Next
  PROVE  Commitments!LeavesOthers
<1>0. Commitments!TypeOK /\ UpsertPurpose /\ UpsertBounds
  BY DEF UpsertSound
<1> SUFFICES ASSUME run' # run, NEW c \in Cloud, remote'.list[c] # remote.list[c]
    PROVE  \/ run.op = "delete" /\ c \in Commitments!Ours(saved.given)
           \/ run.op # "delete" /\ c \in Commitments!Ours(want)
  BY DEF Commitments!LeavesOthers
<1>1. \/ Commitments!CallImport
      \/ \E d \in Cloud :
        Commitments!CallUpdate(d) \/ Commitments!CallAssign(d) \/ Commitments!CallDelete(d)
  BY <1>0, UpsertTypes
  DEF Commitments!Next, Commitments!Terraform, Commitments!StartApply,
      Commitments!Refresh, Commitments!Plan, Commitments!Imports, Commitments!ListAndMap,
      Commitments!Update, Commitments!Assign, Commitments!Upserted, Commitments!ReadBack,
      Commitments!Delete, Commitments!Deleted, Commitments!Refused, Commitments!Stops,
      Commitments!ImportState, Commitments!EditConfig, Commitments!Others
<1>2. CASE Commitments!CallImport
  <2>1. run.pc = "import"
    BY <1>2 DEF Commitments!CallImport
  <2>2. want \in Uploads /\ run.op # "delete"
    BY <1>0, <2>1 DEF UpsertPurpose, Upserting
  <2>3. c \notin want.input => ~Commitments!Appends(want)
    BY <1>0, <1>2, <2>2, UpsertImportChanges, UpsertImportType
  <2> QED
    BY <2>2, <2>3 DEF Commitments!Ours
<1>3. ASSUME NEW d \in Cloud,
             Commitments!CallUpdate(d) \/ Commitments!CallAssign(d) \/ Commitments!CallDelete(d)
      PROVE  \/ run.op = "delete" /\ c \in Commitments!Ours(saved.given)
             \/ run.op # "delete" /\ c \in Commitments!Ours(want)
  <2>1. c = d
    BY <1>0, <1>3, UpsertCallChanges DEF OnlyAt
  <2>2. /\ d \in Commitments!Present(run.work)
        /\ run.pc \in {"update", "assign", "delete"}
    BY <1>0, <1>3, UpsertTypes
    DEF Commitments!CallUpdate, Commitments!CallAssign, Commitments!CallDelete
  <2> QED
    BY <1>0, <2>1, <2>2 DEF UpsertBounds, UpsertPurpose, Upserting
<1> QED
  BY <1>1, <1>2, <1>3

\* Type correctness of the commitments resource.
THEOREM UpsertTyping ==
  ASSUME Commitments!CommitmentsAssumption
  PROVE  Commitments!Spec => []Commitments!TypeOK
<1>1. UpsertSound => Commitments!TypeOK
  BY DEF UpsertSound
<1> QED
  BY <1>1, UpsertInvariant, PTL

\* An upsert that ran undisturbed to its end has left the commitments of the file
\* as configured, one after the other, and saved what is read of them.
THEOREM UpsertSuccess ==
  ASSUME Commitments!CommitmentsAssumption
  PROVE  Commitments!Spec => []Commitments!SuccessIsReal
<1>1. UpsertSound => Commitments!SuccessIsReal
  BY DEF UpsertSound
<1> QED
  BY <1>1, UpsertInvariant, PTL

\* In append mode Terraform changes nothing that is not in the file, and a destroy
\* deletes nothing that is not in the file it saved.
THEOREM UpsertLeavesOthers ==
  ASSUME Commitments!CommitmentsAssumption
  PROVE  Commitments!Spec => Commitments!OthersLeftAlone
<1>1. UpsertSound /\ [Commitments!Next]_(Commitments!vars) =>
        [Commitments!LeavesOthers]_(Commitments!vars)
  BY UpsertLeaves
<1> QED
  BY <1>1, UpsertInvariant, PTL DEF Commitments!Spec, Commitments!OthersLeftAlone

-----------------------------------------------------------------------------
(* What is reached stays reached *)

LEMMA UpsertReachedStays ==
  ASSUME Commitments!Reached, UNCHANGED <<remote, want, saved>>
  PROVE  Commitments!Reached'
<1>1. \A w : Commitments!Ours(w)' = Commitments!Ours(w)
  BY DEF Commitments!Ours, Commitments!Appends
<1>2. \A w : Commitments!Listed(w)' = Commitments!Listed(w)
  BY <1>1 DEF Commitments!Listed
<1>3. \A w : Commitments!Shown(Commitments!Listed(w))' = Commitments!Shown(Commitments!Listed(w))
  BY <1>2 DEF Commitments!Shown
<1>4. Commitments!AsPlanned(saved.list, want) => Commitments!AsPlanned(saved.list, want)'
  <2>1. \A c : Commitments!ConfigsOf(want, c)' = Commitments!ConfigsOf(want, c)
    BY DEF Commitments!ConfigsOf
  <2>2. Commitments!Present(saved.list)' = Commitments!Present(saved.list)
    BY DEF Commitments!Present
  <2> QED
    BY <2>1, <2>2 DEF Commitments!AsPlanned
<1>5. CASE want = Absent
  BY <1>5 DEF Commitments!Reached
<1>6. CASE want # Absent
  BY <1>3, <1>4, <1>6 DEF Commitments!Reached
<1> QED
  BY <1>5, <1>6

\* A refresh of what is reached lists what is saved, and nothing is planned.
LEMMA UpsertRests ==
  ASSUME Commitments!CommitmentsAssumption, Commitments!TypeOK, Commitments!AtRest,
         [Commitments!Next]_(Commitments!vars), trouble' = trouble
  PROVE  Commitments!AtRest'
<1> DEFINE run0(pc) == Commitments!Run(pc, "none", Commitments!Nothing, {})
<1>1. ~Commitments!Trouble
  BY DEF Commitments!Trouble, Commitments!TypeOK, Commitments!CommitmentsAssumption
<1>2. \A pc : run0(pc).pc = pc
  BY DEF Commitments!Run
<1>3. /\ run.pc \in Commitments!Ended \cup {"refresh", "plan"}
      /\ run.pc \in {"refresh", "plan"} => want # Absent
  BY <1>2 DEF Commitments!AtRest, Commitments!Ended
<1>4. ASSUME want # Absent
      PROVE  /\ saved = [exists |-> TRUE, tainted |-> FALSE, given |-> want,
                         list |-> Commitments!Shown(Commitments!Listed(want))]
             /\ saved.exists /\ ~saved.tainted /\ saved.given = want
             /\ saved.list = Commitments!Shown(Commitments!Listed(want))
             /\ Commitments!AsPlanned(saved.list, want)
  BY <1>4 DEF Commitments!AtRest, Commitments!Reached
<1>5. ASSUME NEW pc \in {"refresh", "plan"}, want # Absent, run' = run0(pc),
             UNCHANGED <<remote, want, saved>>
      PROVE  Commitments!AtRest'
  BY <1>5, UpsertReachedStays
  DEF Commitments!AtRest, Commitments!Run, Commitments!Nothing
<1>6. ASSUME run'.pc \in Commitments!Ended, UNCHANGED <<remote, want, saved>>
      PROVE  Commitments!AtRest'
  BY <1>6, UpsertReachedStays DEF Commitments!AtRest
<1>7. \A pc, op : Commitments!Goes(pc, op) => run'.pc = pc
  BY DEF Commitments!Goes, Commitments!Run
<1>8. CASE Commitments!StartApply
  <2>1. UNCHANGED <<remote, want, saved>>
    BY <1>8 DEF Commitments!StartApply
  <2>2. CASE want # Absent
    <3>1. Commitments!Goes("refresh", "none")
      BY <1>4, <1>8, <2>2 DEF Commitments!StartApply
    <3> QED
      BY <1>5, <2>1, <2>2, <3>1 DEF Commitments!Goes
  <2>3. CASE want = Absent
    <3>1. ~saved.exists
      BY <2>3 DEF Commitments!AtRest, Commitments!Reached
    <3>2. Commitments!Goes("done", "none")
      BY <1>8, <2>3, <3>1 DEF Commitments!StartApply
    <3> QED
      BY <1>6, <1>7, <2>1, <3>2 DEF Commitments!Ended
  <2> QED
    BY <2>2, <2>3
<1>9. CASE Commitments!Refresh
  <2>1. want # Absent /\ UNCHANGED <<remote, want>>
    BY <1>3, <1>9 DEF Commitments!Refresh
  <2>2. saved' = [saved EXCEPT !.list = Commitments!Shown(Commitments!Listed(want))]
    BY <1>4, <1>9, <2>1 DEF Commitments!Refresh
  <2>3. saved' = saved
    BY <1>4, <2>1, <2>2
  <2>4. run' = run0("plan")
    BY <1>9 DEF Commitments!Refresh, Commitments!Goes
  <2> QED
    BY <1>5, <2>1, <2>3, <2>4
<1>10. CASE Commitments!Plan
  <2>1. want # Absent /\ UNCHANGED <<remote, want, saved>>
    BY <1>3, <1>10 DEF Commitments!Plan
  <2>2. Commitments!Goes("done", "none") \/ Commitments!Goes("failed", "none")
    BY <1>4, <1>10, <2>1 DEF Commitments!Plan
  <2> QED
    BY <1>6, <1>7, <2>1, <2>2 DEF Commitments!Ended
<1>11. CASE UNCHANGED Commitments!vars
  BY <1>11, UpsertReachedStays
  DEF Commitments!vars, Commitments!AtRest, Commitments!Run, Commitments!Nothing
<1>12. ASSUME Commitments!Next
       PROVE  Commitments!StartApply \/ Commitments!Refresh \/ Commitments!Plan
  <2>1. run.pc \notin {"import", "list", "update", "assign", "read", "delete"}
    BY <1>3 DEF Commitments!Ended
  <2> QED
    BY <1>1, <1>12, <2>1
    DEF Commitments!Next, Commitments!Terraform, Commitments!Imports, Commitments!CallImport,
        Commitments!ListAndMap, Commitments!Update, Commitments!CallUpdate,
        Commitments!Assign, Commitments!CallAssign, Commitments!Upserted,
        Commitments!ReadBack, Commitments!Delete, Commitments!CallDelete,
        Commitments!Deleted, Commitments!Refused, Commitments!Stops,
        Commitments!ImportState, Commitments!EditConfig, Commitments!Others
<1> QED
  BY <1>8, <1>9, <1>10, <1>11, <1>12

-----------------------------------------------------------------------------
(* The enterprise group: what is known of its bindings *)

GroupShape ==
  /\ run.pc \in {"group", "bindings", "plan"} => saved # Absent
  /\ run.pc = "bindings" => run.data # Absent /\ run.data.bindings = saved.bindings
  /\ run.pc = "create" => saved = Absent /\ want # Absent /\ run.op = "create"
  /\ run.pc = "update" =>
       saved # Absent /\ want # Absent /\ run.data = Enterprise!Planned /\ run.op = "update"
  /\ run.pc = "delete" => want = Absent /\ run.op = "delete"

\* The binding of an entry is there, and as the entry says.
GroupAgrees(entry, bindings) ==
  /\ entry.id \in BindingIds
  /\ bindings[entry.id] = [name |-> entry.name, role |-> entry.role]

GroupInsight == quiet =>
  /\ run.pc = "bindings" => Enterprise!Exists /\ run.data.content = remote.group.content
  /\ run.pc = "plan" =>
       /\ Enterprise!Exists /\ saved.content = remote.group.content
       /\ \A i \in DOMAIN saved.bindings : GroupAgrees(saved.bindings[i], remote.group.bindings)

GroupSound == Enterprise!TypeOK /\ GroupShape /\ GroupInsight /\ Enterprise!SuccessIsReal

-----------------------------------------------------------------------------
(* Places in a list *)

LEMMA GroupPlaces ==
  ASSUME NEW len \in Nat, NEW places \in SUBSET (1..len)
  PROVE  /\ IsFiniteSet(places) /\ Cardinality(places) \in Nat
         /\ \A i \in places : i \in Nat
<1>1. IsFiniteSet(1..len)
  BY FS_Interval
<1>2. IsFiniteSet(places)
  BY <1>1, FS_Subset
<1> QED
  BY <1>2, FS_CardinalityType

\* The module has its own copy of Cardinality.
LEMMA GroupCounts ==
  \A set : Enterprise!Cardinality(set) = Cardinality(set)
BY DEF Enterprise!Cardinality, Cardinality

\* Each of the places is the nth of them for some n, and each n is that of one.
LEMMA GroupNth ==
  ASSUME NEW len \in Nat, NEW places \in SUBSET (1..len)
  PROVE  /\ Cardinality(places) \in Nat
         /\ \A n \in 1..Cardinality(places) :
              /\ Enterprise!Nth(places, n) \in places
              /\ Cardinality({j \in places : j <= Enterprise!Nth(places, n)}) = n
<1> DEFINE to(i) == {j \in places : j <= i}
           size == Cardinality(places)
           rank == [i \in places |-> Cardinality(to(i))]
<1>1. IsFiniteSet(places) /\ size \in Nat /\ \A i \in places : i \in Nat
  BY GroupPlaces
<1>2. \A i \in places : IsFiniteSet(to(i)) /\ Cardinality(to(i)) \in 1..size
  <2> TAKE i \in places
  <2>1. to(i) \in SUBSET places /\ i \in to(i)
    OBVIOUS
  <2> HIDE DEF to
  <2>2. IsFiniteSet(to(i)) /\ Cardinality(to(i)) <= size
    BY <1>1, <2>1, FS_Subset
  <2>3. Cardinality(to(i)) \in Nat /\ Cardinality(to(i)) # 0
    BY <2>1, <2>2, FS_CardinalityType, FS_EmptySet
  <2> QED
    BY <1>1, <2>2, <2>3
<1>3. \A i, k \in places : i # k => Cardinality(to(i)) # Cardinality(to(k))
  <2>1. \A i, k \in places : i < k => Cardinality(to(i)) # Cardinality(to(k))
    <3> TAKE i, k \in places
    <3> HAVE i < k
    <3>1. i \in Nat /\ k \in Nat /\ \A j \in places : j \in Nat
      BY <1>1
    <3>2. k \in to(k) /\ k \notin to(i)
      BY <3>1
    <3>3. \A j \in places : j <= i => j <= k
      BY <3>1
    <3>4. to(i) \in SUBSET to(k)
      BY <3>3
    <3> HIDE DEF to
    <3> QED
      BY <1>2, <3>2, <3>4, FS_Subset
  <2>2. \A i, k \in places : i # k => i < k \/ k < i
    BY <1>1
  <2> QED
    BY <2>1, <2>2
<1>4. rank \in Injection(places, 1..size)
  <2> HIDE DEF to, size
  <2> QED
    BY <1>2, <1>3 DEF Injection, IsInjective
<1>5. IsFiniteSet(1..size) /\ Cardinality(1..size) = size
  BY <1>1, FS_Interval
<1>6. rank \in Surjection(places, 1..size)
  BY <1>4, <1>5, FS_Injection
<1>7. \A n \in 1..size : \E i \in places : Cardinality(to(i)) = n
  BY <1>6 DEF Surjection
<1> QED
  BY <1>1, <1>7, GroupCounts DEF Enterprise!Nth

\* All places are there: the nth one is n.
LEMMA GroupNthAll ==
  ASSUME NEW len \in Nat
  PROVE  Cardinality(1..len) = len /\ \A n \in 1..len : Enterprise!Nth(1..len, n) = n
<1>1. Cardinality(1..len) = len
  BY FS_Interval
<1>2. ASSUME NEW n \in 1..len
      PROVE  Enterprise!Nth(1..len, n) = n
  <2> DEFINE i == Enterprise!Nth(1..len, n)
  <2>1. i \in 1..len /\ Cardinality({j \in 1..len : j <= i}) = n
    BY <1>1, GroupNth
  <2>2. {j \in 1..len : j <= i} = 1..i
    BY <2>1
  <2> HIDE DEF i
  <2>3. Cardinality(1..i) = i
    BY <2>1, FS_Interval
  <2> QED
    BY <2>1, <2>2, <2>3 DEF i
<1> QED
  BY <1>1, <1>2

\* Some of the places have a last one.
LEMMA GroupLast ==
  ASSUME NEW len \in Nat, NEW places \in SUBSET (1..len), places # {}
  PROVE  \E i \in places : \A j \in places : j <= i
<1> DEFINE n == Cardinality(places)
           i == Enterprise!Nth(places, n)
           to == {j \in places : j <= i}
<1>1. IsFiniteSet(places) /\ n \in Nat
  BY GroupPlaces
<1>2. n \in 1..n
  BY <1>1, FS_EmptySet
<1>3. i \in places /\ Cardinality(to) = n
  BY <1>2, GroupNth
<1>4. to = places
  <2>1. to \in SUBSET places
    OBVIOUS
  <2> HIDE DEF to
  <2> QED
    BY <1>1, <1>3, <2>1, FS_Subset
<1> QED
  BY <1>3, <1>4

-----------------------------------------------------------------------------
(* Lists of bindings *)

GroupEntry == [id: BindingIds \cup {NoId}, name: Names, role: Roles]
GroupBindings == [BindingIds -> Enterprise!Binding \cup {NoBinding}]
GroupShares(entries) ==
  \E i, j \in DOMAIN entries : i # j /\ entries[i].id = entries[j].id

LEMMA GroupTracked ==
  ASSUME NEW data \in Enterprise!Tracked
  PROVE  /\ data.content \in Contents /\ data.bindings \in Seq(GroupEntry)
         /\ Len(data.bindings) \in Nat /\ DOMAIN data.bindings = 1..Len(data.bindings)
         /\ \A i \in DOMAIN data.bindings :
              /\ data.bindings[i].id \in BindingIds \cup {NoId}
              /\ data.bindings[i].name \in Names /\ data.bindings[i].role \in Roles
<1>1. Enterprise!Tracked = [content: Contents, bindings: Seq(GroupEntry)]
  BY DEF Enterprise!Tracked, GroupEntry
<1>2. data.content \in Contents /\ data.bindings \in Seq(GroupEntry)
  BY <1>1
<1>3. /\ Len(data.bindings) \in Nat /\ DOMAIN data.bindings = 1..Len(data.bindings)
      /\ \A i \in DOMAIN data.bindings : data.bindings[i] \in GroupEntry
  BY <1>2
<1> QED
  BY <1>2, <1>3 DEF GroupEntry

LEMMA GroupSeqType ==
  ASSUME NEW n \in Nat, NEW list, list = [i \in 1..n |-> list[i]],
         \A i \in 1..n : list[i] \in GroupEntry
  PROVE  list \in Seq(GroupEntry)
BY SeqDef

LEMMA GroupBoundType ==
  ASSUME Enterprise!GroupAssumption, NEW bindings \in GroupBindings,
         NEW id \in Enterprise!Bound(bindings)
  PROVE  /\ id \in BindingIds /\ bindings[id] \in Enterprise!Binding
         /\ bindings[id].name \in Names /\ bindings[id].role \in Roles
         /\ bindings[id] = [name |-> bindings[id].name, role |-> bindings[id].role]
BY DEF Enterprise!Bound, GroupBindings, Enterprise!Binding

\* What is found is there now.
LEMMA GroupKnown ==
  ASSUME Enterprise!GroupAssumption, NEW entries \in Seq(GroupEntry),
         NEW bindings \in GroupBindings
  PROVE  /\ Enterprise!Known(entries, bindings) \in Seq(GroupEntry)
         /\ \A n \in DOMAIN Enterprise!Known(entries, bindings) :
              GroupAgrees(Enterprise!Known(entries, bindings)[n], bindings)
<1> DEFINE there == {i \in DOMAIN entries : Enterprise!Matching(entries[i], bindings) # {}}
           Id(i) == CHOOSE id \in Enterprise!Matching(entries[i], bindings) : TRUE
           Entry(id) == [id |-> id, name |-> bindings[id].name, role |-> bindings[id].role]
           size == Cardinality(there)
           known == [n \in 1..size |-> Entry(Id(Enterprise!Nth(there, n)))]
<1>1. Len(entries) \in Nat /\ there \in SUBSET (1..Len(entries))
  OBVIOUS
<1>2. size \in Nat /\ \A n \in 1..size : Enterprise!Nth(there, n) \in there
  BY <1>1, GroupNth
<1>3. \A i \in there : Id(i) \in Enterprise!Bound(bindings)
  BY DEF Enterprise!Matching
<1>4. Enterprise!Known(entries, bindings) = known
  <2> DEFINE At(places) ==
               [n \in 1..Enterprise!Cardinality(places) |-> Entry(Id(Enterprise!Nth(places,
                   n)))]
  <2>1. Enterprise!Known(entries, bindings) = CHOOSE l \in {At(places) : places \in {there}} :
          TRUE
    BY DEF Enterprise!Known
  <2>2. known = At(there)
    BY GroupCounts
  <2> HIDE DEF At, known, there
  <2> QED
    BY <2>1, <2>2
<1>5. \A id \in Enterprise!Bound(bindings) :
        Entry(id) \in GroupEntry /\ GroupAgrees(Entry(id), bindings)
  BY GroupBoundType DEF GroupEntry, GroupAgrees
<1> HIDE DEF there, Id, Entry, size
<1>6. known \in Seq(GroupEntry)
  BY <1>2, <1>3, <1>5, GroupSeqType
<1>7. DOMAIN known = 1..size /\ \A n \in 1..size : GroupAgrees(known[n], bindings)
  BY <1>2, <1>3, <1>5
<1> QED
  BY <1>4, <1>6, <1>7

\* A list of which everything is found.
LEMMA GroupKnownAll ==
  ASSUME Enterprise!GroupAssumption, NEW entries \in Seq(GroupEntry),
         NEW bindings \in GroupBindings,
         \A i \in DOMAIN entries : Enterprise!Matching(entries[i], bindings) # {}
  PROVE  LET known == Enterprise!Known(entries, bindings)
         IN  /\ DOMAIN known = DOMAIN entries
             /\ \A i \in DOMAIN entries :
                  known[i].id = CHOOSE id \in Enterprise!Matching(entries[i], bindings) : TRUE
<1> DEFINE there == {i \in DOMAIN entries : Enterprise!Matching(entries[i], bindings) # {}}
           Id(i) == CHOOSE id \in Enterprise!Matching(entries[i], bindings) : TRUE
           Entry(id) == [id |-> id, name |-> bindings[id].name, role |-> bindings[id].role]
           size == Cardinality(there)
           known == [n \in 1..size |-> Entry(Id(Enterprise!Nth(there, n)))]
<1>1. Len(entries) \in Nat /\ DOMAIN entries = 1..Len(entries)
  OBVIOUS
<1>2. there = 1..Len(entries)
  BY <1>1
<1>3. Enterprise!Known(entries, bindings) = known
  <2> DEFINE At(places) ==
               [n \in 1..Enterprise!Cardinality(places) |-> Entry(Id(Enterprise!Nth(places,
                   n)))]
  <2>1. Enterprise!Known(entries, bindings) = CHOOSE l \in {At(places) : places \in {there}} :
          TRUE
    BY DEF Enterprise!Known
  <2>2. known = At(there)
    BY GroupCounts
  <2> HIDE DEF At, known, there
  <2> QED
    BY <2>1, <2>2
<1>4. \A id : Entry(id).id = id
  OBVIOUS
<1> HIDE DEF there, Id, Entry
<1>5. size = Len(entries) /\ \A n \in 1..Len(entries) : Enterprise!Nth(there, n) = n
  BY <1>1, <1>2, GroupNthAll
<1>6. DOMAIN known = DOMAIN entries /\ \A i \in DOMAIN entries : known[i].id = Id(i)
  BY <1>1, <1>4, <1>5
<1> QED
  BY <1>3, <1>6 DEF Id

\* What replaces the bindings of a group.
LEMMA GroupReplaced ==
  ASSUME Enterprise!GroupAssumption, NEW data \in Enterprise!Tracked,
         NEW ids \in [DOMAIN data.bindings -> BindingIds]
  PROVE  LET after == Enterprise!Replaced(data, ids)
         IN  /\ after \in Enterprise!Group /\ after.content = data.content
             /\ after.bindings \in GroupBindings
             /\ Enterprise!Bound(after.bindings) = {ids[i] : i \in DOMAIN data.bindings}
             /\ \A id \in Enterprise!Bound(after.bindings) :
                  \E last \in DOMAIN data.bindings :
                    /\ ids[last] = id /\ \A j \in DOMAIN data.bindings : ids[j] = id =>
                         j <= last
                    /\ after.bindings[id] =
                         [name |-> data.bindings[last].name, role |-> data.bindings[last].role]
<1> DEFINE Last(id) == CHOOSE i \in DOMAIN ids :
                         ids[i] = id /\ \A j \in DOMAIN ids : ids[j] = id => j <= i
           Value(i) == [name |-> data.bindings[i].name, role |-> data.bindings[i].role]
           new ==
             [id \in BindingIds |-> IF id \notin Enterprise!Range(ids)
                 THEN NoBinding ELSE Value(Last(id))]
<1>1. /\ data.content \in Contents /\ DOMAIN ids = DOMAIN data.bindings
      /\ Len(data.bindings) \in Nat /\ DOMAIN data.bindings = 1..Len(data.bindings)
      /\ \A i \in DOMAIN data.bindings :
           data.bindings[i].name \in Names /\ data.bindings[i].role \in Roles
  BY GroupTracked
<1>2. Enterprise!Range(ids) = {ids[i] : i \in DOMAIN data.bindings}
  BY <1>1 DEF Enterprise!Range
<1>3. ASSUME NEW id \in Enterprise!Range(ids)
      PROVE  /\ Last(id) \in DOMAIN ids /\ ids[Last(id)] = id
             /\ \A j \in DOMAIN ids : ids[j] = id => j <= Last(id)
  <2> DEFINE places == {i \in DOMAIN ids : ids[i] = id}
  <2>1. places \in SUBSET (1..Len(data.bindings)) /\ places # {}
    BY <1>1, <1>3 DEF Enterprise!Range
  <2>2. \E i \in places : \A j \in places : j <= i
    BY <1>1, <2>1, GroupLast
  <2> QED
    BY <2>2
<1>4. Enterprise!Replaced(data, ids) = [content |-> data.content, bindings |-> new]
  BY DEF Enterprise!Replaced
<1>5. \A i \in DOMAIN data.bindings : Value(i) \in Enterprise!Binding
  BY <1>1 DEF Enterprise!Binding
<1> HIDE DEF Last, Value
<1>6. new \in GroupBindings
  BY <1>1, <1>3, <1>5 DEF GroupBindings
<1>7. \A id \in BindingIds : new[id] # NoBinding <=> id \in Enterprise!Range(ids)
  BY <1>1, <1>3, <1>5 DEF Enterprise!GroupAssumption
<1>8. Enterprise!Range(ids) \subseteq BindingIds
  BY <1>1, <1>2
<1>9. Enterprise!Bound(new) = Enterprise!Range(ids)
  BY <1>7, <1>8 DEF Enterprise!Bound
<1>10. \A id \in Enterprise!Range(ids) : new[id] = Value(Last(id))
  BY <1>8
<1> HIDE DEF new
<1>11. [content |-> data.content, bindings |-> new] \in Enterprise!Group
  BY <1>1, <1>6 DEF Enterprise!Group, GroupBindings
<1>12. /\ Enterprise!Replaced(data, ids).bindings = new
       /\ Enterprise!Replaced(data, ids).content = data.content
       /\ Enterprise!Replaced(data, ids) \in Enterprise!Group
  BY <1>4, <1>11
<1>13. ASSUME NEW id \in Enterprise!Bound(new)
       PROVE  \E last \in DOMAIN data.bindings :
                /\ ids[last] = id /\ \A j \in DOMAIN data.bindings : ids[j] = id => j <= last
                /\ new[id] =
                     [name |-> data.bindings[last].name, role |-> data.bindings[last].role]
  BY <1>1, <1>3, <1>9, <1>10, <1>13 DEF Value
<1> QED
  BY <1>2, <1>6, <1>9, <1>12, <1>13

LEMMA GroupShownType ==
  ASSUME Enterprise!GroupAssumption, NEW data \in Enterprise!Tracked,
         NEW group \in Enterprise!Group
  PROVE  /\ Enterprise!Shown(data, group) \in Enterprise!Tracked
         /\ Enterprise!Shown(data, group).content = group.content
         /\ Enterprise!Shown(data, group).bindings
              = Enterprise!Known(data.bindings, group.bindings)
<1>1. group.content \in Contents /\ group.bindings \in GroupBindings
  BY DEF Enterprise!Group, GroupBindings
<1>2. data.bindings \in Seq(GroupEntry)
  BY GroupTracked
<1>3. Enterprise!Known(data.bindings, group.bindings) \in Seq(GroupEntry)
  BY <1>1, <1>2, GroupKnown
<1> QED
  BY <1>1, <1>3 DEF Enterprise!Shown, Enterprise!Tracked, GroupEntry

\* The state after a call has the IDs of the bindings that were sent, and these
\* are what was sent, unless two of them have one ID.
LEMMA GroupDelivers ==
  ASSUME Enterprise!GroupAssumption, NEW data \in Enterprise!Tracked,
         Enterprise!Accepts(data.bindings)
  PROVE  LET after == Enterprise!After(data)
             shown == Enterprise!Shown(data, after)
         IN  /\ after \in Enterprise!Group /\ shown \in Enterprise!Tracked
             /\ ~GroupShares(shown.bindings) =>
                  /\ after.content = data.content /\ shown.content = data.content
                  /\ DOMAIN shown.bindings = DOMAIN data.bindings
                  /\ \A i \in DOMAIN data.bindings :
                       /\ shown.bindings[i].name = data.bindings[i].name
                       /\ shown.bindings[i].role = data.bindings[i].role
                       /\ GroupAgrees(shown.bindings[i], after.bindings)
                  /\ Enterprise!Bound(after.bindings) =
                       {shown.bindings[i].id : i \in DOMAIN data.bindings}
<1> DEFINE entries == data.bindings
           ids == CHOOSE g \in Enterprise!Given(entries) : TRUE
           after == Enterprise!Replaced(data, ids)
           there == after.bindings
           shown == Enterprise!Shown(data, after)
           known == Enterprise!Known(entries, there)
           Id(i) == CHOOSE id \in Enterprise!Matching(entries[i], there) : TRUE
<1>1. /\ entries \in Seq(GroupEntry) /\ DOMAIN entries = 1..Len(entries) /\ Len(entries) \in Nat
      /\ \A i \in DOMAIN entries :
           /\ entries[i].id \in BindingIds \cup {NoId}
           /\ entries[i].name \in Names /\ entries[i].role \in Roles
  BY GroupTracked
<1>2. ids \in Enterprise!Given(entries) /\ \A i \in DOMAIN entries :
        entries[i].id \notin Enterprise!Fresh
  BY DEF Enterprise!Accepts
<1>3. Enterprise!After(data) = after
  BY DEF Enterprise!After
<1> HIDE DEF ids, entries
<1>4. /\ ids \in [DOMAIN entries -> BindingIds]
      /\ \A i, j \in DOMAIN entries :
           /\ entries[i].id # NoId => ids[i] = entries[i].id
           /\ entries[i].id = NoId => ids[i] \in Enterprise!Fresh /\ (i # j => ids[i] # ids[j])
  BY <1>2 DEF Enterprise!Given
<1>5. /\ after \in Enterprise!Group /\ after.content = data.content /\ there \in GroupBindings
      /\ Enterprise!Bound(there) = {ids[i] : i \in DOMAIN entries}
      /\ \A id \in Enterprise!Bound(there) :
           \E last \in DOMAIN entries :
             /\ ids[last] = id /\ \A j \in DOMAIN entries : ids[j] = id => j <= last
             /\ there[id] = [name |-> entries[last].name, role |-> entries[last].role]
  BY <1>4, GroupReplaced DEF entries
<1>6. shown \in Enterprise!Tracked /\ shown.content = after.content /\ shown.bindings = known
  BY <1>5, GroupShownType DEF entries
<1> HIDE DEF after, shown
<1>7. \A i, j \in DOMAIN entries : entries[i].id = NoId /\ ids[i] = ids[j] => i = j
  BY <1>4
<1>8. \A i \in DOMAIN entries : ids[i] \in Enterprise!Matching(entries[i], there)
  <2> TAKE i \in DOMAIN entries
  <2>1. ids[i] \in Enterprise!Bound(there)
    BY <1>5
  <2>2. CASE entries[i].id = NoId
    <3>1. PICK last \in DOMAIN entries :
            /\ ids[last] = ids[i]
            /\ there[ids[i]] = [name |-> entries[last].name, role |-> entries[last].role]
      BY <1>5, <2>1
    <3>2. last = i
      BY <1>7, <2>2, <3>1
    <3> QED
      BY <2>1, <2>2, <3>1, <3>2 DEF Enterprise!Matching
  <2>3. CASE entries[i].id # NoId
    BY <1>4, <2>1, <2>3 DEF Enterprise!Matching
  <2> QED
    BY <2>2, <2>3
<1>9. /\ DOMAIN known = DOMAIN entries
      /\ \A i \in DOMAIN entries : known[i].id = Id(i)
  <2>1. \A i \in DOMAIN entries : Enterprise!Matching(entries[i], there) # {}
    BY <1>8
  <2> HIDE DEF there
  <2> QED
    BY <1>1, <1>5, <2>1, GroupKnownAll
<1>10. \A i \in DOMAIN entries : Id(i) \in Enterprise!Matching(entries[i], there)
  BY <1>8
<1>11. \A i, j \in DOMAIN entries :
         entries[i].id = NoId /\ entries[j].id = NoId /\ entries[i].name = entries[j].name =>
           Id(i) = Id(j)
  <2> SUFFICES ASSUME NEW i \in DOMAIN entries, NEW j \in DOMAIN entries,
                      entries[i].id = NoId, entries[j].id = NoId,
                      entries[i].name = entries[j].name
               PROVE  Id(i) = Id(j)
    OBVIOUS
  <2>1. Enterprise!Matching(entries[i], there) = Enterprise!Matching(entries[j], there)
    BY DEF Enterprise!Matching
  <2> QED
    BY <2>1
<1>12. \A i \in DOMAIN entries : entries[i].id # NoId => Id(i) = ids[i]
  BY <1>4, <1>10 DEF Enterprise!Matching
<1> HIDE DEF known, Id, there
<1>13. \A i \in DOMAIN known : GroupAgrees(known[i], there)
  BY <1>1, <1>5, GroupKnown DEF known
<1>14. ASSUME ~GroupShares(known), NEW i \in DOMAIN entries
       PROVE  /\ Id(i) = ids[i] /\ Id(i) \in Enterprise!Bound(there)
              /\ there[Id(i)] = [name |-> entries[i].name, role |-> entries[i].role]
  <2>1. \A j \in DOMAIN entries : j # i => Id(j) # Id(i)
    BY <1>9, <1>14 DEF GroupShares
  <2>2. /\ Id(i) \in Enterprise!Bound(there)
        /\ entries[i].id = NoId => there[Id(i)].name = entries[i].name
    BY <1>10 DEF Enterprise!Matching
  <2>3. PICK last \in DOMAIN entries :
          /\ ids[last] = Id(i)
          /\ there[Id(i)] = [name |-> entries[last].name, role |-> entries[last].role]
    BY <1>5, <2>2
  <2>4. last = i
    <3>1. CASE entries[last].id # NoId
      BY <1>12, <2>1, <2>3, <3>1
    <3>2. CASE entries[last].id = NoId /\ entries[i].id # NoId
      BY <1>7, <1>12, <2>3, <3>2
    <3>3. CASE entries[last].id = NoId /\ entries[i].id = NoId
      BY <1>11, <2>1, <2>2, <2>3, <3>3
    <3> QED
      BY <3>1, <3>2, <3>3
  <2> QED
    BY <2>2, <2>3, <2>4
<1>15. ASSUME ~GroupShares(known)
       PROVE  /\ \A i \in DOMAIN entries :
                   known[i].name = entries[i].name /\ known[i].role = entries[i].role
              /\ Enterprise!Bound(there) = {known[i].id : i \in DOMAIN entries}
  <2>1. \A i \in DOMAIN entries :
          there[known[i].id] = [name |-> known[i].name, role |-> known[i].role]
    BY <1>9, <1>13 DEF GroupAgrees
  <2>2. \A i \in DOMAIN entries :
          [name |-> known[i].name, role |-> known[i].role] =
          [name |-> entries[i].name, role |-> entries[i].role]
    BY <1>9, <1>14, <1>15, <2>1
  <2>3. \A i \in DOMAIN entries : known[i].id = ids[i]
    BY <1>9, <1>14, <1>15
  <2>4. \A i \in DOMAIN entries :
          known[i].name = entries[i].name /\ known[i].role = entries[i].role
    BY <2>2
  <2> DEFINE known_ids == {known[i].id : i \in DOMAIN entries}
  <2>5. known_ids = {ids[i] : i \in DOMAIN entries}
    BY <2>3
  <2> QED
    BY <1>5, <2>4, <2>5
<1>16. \A i \in DOMAIN entries : GroupAgrees(known[i], there)
  BY <1>9, <1>13
<1>17. /\ shown = Enterprise!Shown(data, Enterprise!After(data)) /\ entries = data.bindings
       /\ there = after.bindings
  BY <1>3 DEF shown, entries, there
<1>18. ~GroupShares(shown.bindings) =>
         /\ after.content = data.content /\ shown.content = data.content
         /\ DOMAIN shown.bindings = DOMAIN entries
         /\ \A i \in DOMAIN entries :
              /\ shown.bindings[i].name = entries[i].name
              /\ shown.bindings[i].role = entries[i].role
              /\ GroupAgrees(shown.bindings[i], after.bindings)
         /\ Enterprise!Bound(after.bindings) = {shown.bindings[i].id : i \in DOMAIN entries}
  <2>1. shown.bindings = known /\ there = after.bindings
    BY <1>6, <1>17
  <2> QED
    BY <1>5, <1>6, <1>9, <1>15, <1>16, <2>1
<1> QED
  BY ONLY <1>3, <1>5, <1>6, <1>17, <1>18

-----------------------------------------------------------------------------
(* State *)

GroupRemotes ==
  [unique: BOOLEAN, orphan: BOOLEAN, listed: BOOLEAN, group: Enterprise!Group \cup {NoGroup}]
GroupPCs == Enterprise!Ended \cup Enterprise!Steps
GroupRuns ==
  [pc: GroupPCs, op: {"none", "create", "update", "delete"},
      data: Enterprise!Tracked \cup {Absent}]

LEMMA GroupTypes ==
  Enterprise!TypeOK <=>
    /\ remote \in GroupRemotes /\ want \in Groups \cup {Absent}
    /\ saved \in Enterprise!Tracked \cup {Absent} /\ run \in GroupRuns
    /\ quiet \in BOOLEAN /\ trouble \in 0..MaxTrouble
BY DEF Enterprise!TypeOK, GroupRemotes, GroupRuns, GroupPCs

LEMMA GroupTypesNext ==
  ASSUME remote' \in GroupRemotes, want' \in Groups \cup {Absent},
         saved' \in Enterprise!Tracked \cup {Absent}, run' \in GroupRuns,
         quiet' \in BOOLEAN, trouble' \in 0..MaxTrouble
  PROVE  Enterprise!TypeOK'
BY DEF Enterprise!TypeOK, GroupRemotes, GroupRuns, GroupPCs

LEMMA GroupTrouble ==
  ASSUME Enterprise!GroupAssumption, Enterprise!TypeOK, Enterprise!Trouble
  PROVE  trouble' \in 0..MaxTrouble
BY DEF Enterprise!GroupAssumption, Enterprise!TypeOK, Enterprise!Trouble

LEMMA GroupWant ==
  ASSUME Enterprise!GroupAssumption, want \in Groups \cup {Absent}, want # Absent
  PROVE  /\ want.content \in Contents /\ Len(want.bindings) \in Nat
         /\ DOMAIN want.bindings = 1..Len(want.bindings)
         /\ \A i \in DOMAIN want.bindings :
              /\ want.bindings[i].name \in Names /\ want.bindings[i].role \in Roles
              /\ want.bindings[i] =
                   [name |-> want.bindings[i].name, role |-> want.bindings[i].role]
<1>1. want \in [content: Contents, bindings: Seq(Enterprise!Binding)]
  BY DEF Enterprise!GroupAssumption, Enterprise!Values
<1>2. /\ want.content \in Contents /\ want.bindings \in Seq(Enterprise!Binding)
  BY <1>1
<1>3. /\ Len(want.bindings) \in Nat /\ DOMAIN want.bindings = 1..Len(want.bindings)
      /\ \A i \in DOMAIN want.bindings : want.bindings[i] \in Enterprise!Binding
  BY <1>2
<1> QED
  BY <1>2, <1>3 DEF Enterprise!Binding

LEMMA GroupPlanned ==
  ASSUME Enterprise!GroupAssumption, Enterprise!TypeOK, want # Absent
  PROVE  /\ Enterprise!Planned \in Enterprise!Tracked /\ Enterprise!Planned # Absent
         /\ Enterprise!Planned.content = want.content
         /\ DOMAIN Enterprise!Planned.bindings = DOMAIN want.bindings
         /\ \A i \in DOMAIN want.bindings :
              /\ Enterprise!Planned.bindings[i].name = want.bindings[i].name
              /\ Enterprise!Planned.bindings[i].role = want.bindings[i].role
<1> DEFINE Kept(i) == IF saved # Absent /\ i \in DOMAIN saved.bindings THEN saved.bindings[i].id
                      ELSE NoId
           Entry(i) == [id |-> Kept(i), name |-> want.bindings[i].name,
                        role |-> want.bindings[i].role]
           list == [i \in DOMAIN want.bindings |-> Entry(i)]
<1>1. /\ want.content \in Contents /\ Len(want.bindings) \in Nat
      /\ DOMAIN want.bindings = 1..Len(want.bindings)
      /\ \A i \in DOMAIN want.bindings :
           want.bindings[i].name \in Names /\ want.bindings[i].role \in Roles
  BY GroupTypes, GroupWant
<1>2. Enterprise!Planned = [content |-> want.content, bindings |-> list]
  BY DEF Enterprise!Planned
<1>3. \A i : Kept(i) \in BindingIds \cup {NoId}
  <2>1. saved # Absent => saved \in Enterprise!Tracked
    BY GroupTypes
  <2> QED
    BY <2>1, GroupTracked
<1> HIDE DEF Kept
<1>4. \A i \in DOMAIN want.bindings :
        /\ Entry(i) \in GroupEntry
        /\ Entry(i).name = want.bindings[i].name /\ Entry(i).role = want.bindings[i].role
  BY <1>1, <1>3 DEF GroupEntry
<1> HIDE DEF Entry
<1>5. list \in Seq(GroupEntry)
  BY <1>1, <1>4, GroupSeqType
<1>6. DOMAIN list = DOMAIN want.bindings /\ \A i \in DOMAIN want.bindings : list[i] = Entry(i)
  OBVIOUS
<1> HIDE DEF list
<1>7. /\ Enterprise!Planned \in Enterprise!Tracked
      /\ Enterprise!Planned.content = want.content /\ Enterprise!Planned.bindings = list
  BY <1>1, <1>2, <1>5 DEF Enterprise!Tracked, GroupEntry
<1>8. Enterprise!Planned # Absent
  BY <1>7 DEF Enterprise!GroupAssumption
<1> QED
  BY <1>4, <1>6, <1>7, <1>8

\* After a call that sends what is planned everything is as configured.
LEMMA GroupCall ==
  ASSUME Enterprise!GroupAssumption, Enterprise!TypeOK, want # Absent,
         Enterprise!Accepts(Enterprise!Planned.bindings),
         remote'.group = Enterprise!After(Enterprise!Planned), saved'
           = Enterprise!Shown(Enterprise!Planned, Enterprise!After(Enterprise!Planned)), want'
             = want
  PROVE  /\ remote'.group \in Enterprise!Group /\ saved' \in Enterprise!Tracked
         /\ ~Enterprise!SharedId' =>
              /\ Enterprise!Reached'
              /\ Enterprise!Bound(remote'.group.bindings) =
                   {saved'.bindings[i].id : i \in DOMAIN want'.bindings}
<1>1. /\ Enterprise!Planned \in Enterprise!Tracked /\ Enterprise!Planned.content = want.content
      /\ DOMAIN Enterprise!Planned.bindings = DOMAIN want.bindings
      /\ \A i \in DOMAIN want.bindings :
           /\ Enterprise!Planned.bindings[i].name = want.bindings[i].name
           /\ Enterprise!Planned.bindings[i].role = want.bindings[i].role
  BY GroupPlanned
<1>2. \A i \in DOMAIN want.bindings :
        want.bindings[i] = [name |-> want.bindings[i].name, role |-> want.bindings[i].role]
  BY GroupTypes, GroupWant
<1>3. /\ remote'.group \in Enterprise!Group /\ saved' \in Enterprise!Tracked
      /\ ~GroupShares(saved'.bindings) =>
           /\ remote'.group.content = want.content /\ saved'.content = want.content
           /\ DOMAIN saved'.bindings = DOMAIN want.bindings
           /\ \A i \in DOMAIN want.bindings :
                /\ saved'.bindings[i].name = want.bindings[i].name
                /\ saved'.bindings[i].role = want.bindings[i].role
                /\ GroupAgrees(saved'.bindings[i], remote'.group.bindings)
           /\ Enterprise!Bound(remote'.group.bindings) =
                {saved'.bindings[i].id : i \in DOMAIN want.bindings}
  <2> DEFINE after == Enterprise!After(Enterprise!Planned)
             shown == Enterprise!Shown(Enterprise!Planned, after)
             plan == Enterprise!Planned
  <2>1. /\ after \in Enterprise!Group /\ shown \in Enterprise!Tracked
        /\ ~GroupShares(shown.bindings) =>
             /\ after.content = plan.content /\ shown.content = plan.content
             /\ DOMAIN shown.bindings = DOMAIN plan.bindings
             /\ \A i \in DOMAIN plan.bindings :
                  /\ shown.bindings[i].name = plan.bindings[i].name
                  /\ shown.bindings[i].role = plan.bindings[i].role
                  /\ GroupAgrees(shown.bindings[i], after.bindings)
             /\ Enterprise!Bound(after.bindings)
                  = {shown.bindings[i].id : i \in DOMAIN plan.bindings}
    BY <1>1, GroupDelivers
  <2>2. remote'.group = after /\ saved' = shown
    OBVIOUS
  <2> HIDE DEF after, shown
  <2> QED
    BY <1>1, <2>1, <2>2
<1>4. saved' # Absent /\ (Enterprise!Exists)'
  BY <1>3 DEF Enterprise!GroupAssumption, Enterprise!Exists
<1>5. Enterprise!SharedId' <=> GroupShares(saved'.bindings)
  BY <1>4 DEF Enterprise!SharedId, GroupShares
<1> QED
  BY <1>2, <1>3, <1>4, <1>5 DEF Enterprise!Reached, Enterprise!InPlan, GroupAgrees

-----------------------------------------------------------------------------
(* The steps *)

LEMMA GroupRemoteType ==
  ASSUME Enterprise!GroupAssumption, Enterprise!TypeOK,
         NEW group \in Enterprise!Group \cup {NoGroup}
  PROVE  LET after == [remote EXCEPT !.group = group]
         IN  /\ after \in GroupRemotes /\ after.group = group
             /\ Enterprise!Orphaned(after) \in GroupRemotes
             /\ Enterprise!Orphaned(remote) \in GroupRemotes
BY GroupTypes DEF GroupRemotes, Enterprise!Orphaned

LEMMA GroupRunType ==
  ASSUME NEW pc \in GroupPCs, NEW op \in {"none", "create", "update", "delete"},
         NEW data \in Enterprise!Tracked \cup {Absent}
  PROVE  /\ Enterprise!Run(pc, op, data) \in GroupRuns
         /\ Enterprise!Run(pc, op, data).pc = pc /\ Enterprise!Run(pc, op, data).op = op
         /\ Enterprise!Run(pc, op, data).data = data
BY DEF Enterprise!Run, GroupRuns

LEMMA GroupGoesType ==
  ASSUME Enterprise!TypeOK, NEW pc \in GroupPCs, Enterprise!Goes(pc)
  PROVE  run' \in GroupRuns /\ run'.pc = pc /\ run'.op = run.op /\ run'.data = run.data
BY GroupTypes DEF Enterprise!Goes, GroupRuns

\* What a call does to the group, whether it is answered or not.
LEMMA GroupCalls ==
  ASSUME Enterprise!GroupAssumption, Enterprise!TypeOK, GroupShape,
         \/ Enterprise!Update \/ Enterprise!Delete
         \/ /\ run.pc = "create" /\ Enterprise!CanCreate
            /\ remote' \in {[remote EXCEPT !.group = Enterprise!After(Enterprise!Planned)],
                           Enterprise!Orphaned([remote EXCEPT !.group =
                               Enterprise!After(Enterprise!Planned)])}
  PROVE  remote' \in GroupRemotes
<1>1. CASE Enterprise!Update
  <2>1. run.data = Enterprise!Planned /\ want # Absent
    BY <1>1 DEF Enterprise!Update, GroupShape
  <2>2. /\ Enterprise!Planned \in Enterprise!Tracked
        /\ Enterprise!Accepts(Enterprise!Planned.bindings)
    BY <1>1, <2>1, GroupPlanned DEF Enterprise!Update, Enterprise!CanUpdate, Enterprise!Sent
  <2>3. Enterprise!After(Enterprise!Planned) \in Enterprise!Group
    BY <2>2, GroupDelivers
  <2> QED
    BY <1>1, <2>1, <2>3, GroupRemoteType DEF Enterprise!Update, Enterprise!Sent
<1>2. CASE Enterprise!Delete
  BY <1>2, GroupRemoteType DEF Enterprise!Delete
<1>3. CASE /\ run.pc = "create" /\ Enterprise!CanCreate
           /\ remote' \in {[remote EXCEPT !.group = Enterprise!After(Enterprise!Planned)],
                          Enterprise!Orphaned([remote EXCEPT !.group =
                              Enterprise!After(Enterprise!Planned)])}
  <2>1. /\ Enterprise!Planned \in Enterprise!Tracked
        /\ Enterprise!Accepts(Enterprise!Planned.bindings)
    BY <1>3, GroupPlanned DEF GroupShape, Enterprise!CanCreate
  <2>2. Enterprise!After(Enterprise!Planned) \in Enterprise!Group
    BY <2>1, GroupDelivers
  <2> QED
    BY <1>3, <2>2, GroupRemoteType
<1> QED
  BY <1>1, <1>2, <1>3

LEMMA GroupFailsSound ==
  ASSUME Enterprise!GroupAssumption, GroupSound,
         Enterprise!Refused \/ Enterprise!Stops \/ Enterprise!Killed
  PROVE  GroupSound'
<1>0. Enterprise!TypeOK /\ GroupShape
  BY DEF GroupSound
<1>1. /\ remote \in GroupRemotes /\ want \in Groups \cup {Absent}
      /\ saved \in Enterprise!Tracked \cup {Absent}
      /\ run.data \in Enterprise!Tracked \cup {Absent}
      /\ quiet \in BOOLEAN /\ trouble \in 0..MaxTrouble
  BY <1>0, GroupTypes DEF GroupRuns
<1>2. /\ Enterprise!Goes("failed") /\ want' = want /\ quiet' = quiet
      /\ saved' \in {saved, run.data}
  BY DEF Enterprise!Refused, Enterprise!Stops, Enterprise!Killed, Enterprise!Fails,
         Enterprise!AfterError
<1>3. trouble' \in 0..MaxTrouble
  BY <1>0, <1>1, GroupTrouble DEF Enterprise!Refused, Enterprise!Stops, Enterprise!Killed
<1>4. remote' \in GroupRemotes
  BY <1>0, <1>1, GroupCalls DEF Enterprise!Refused, Enterprise!Stops, Enterprise!Killed
<1>5. run' \in GroupRuns /\ run'.pc = "failed"
  BY <1>0, <1>2, GroupGoesType DEF GroupPCs, Enterprise!Ended
<1>6. Enterprise!TypeOK'
  BY <1>1, <1>2, <1>3, <1>4, <1>5, GroupTypesNext
<1> QED
  BY <1>5, <1>6 DEF GroupSound, GroupShape, GroupInsight, Enterprise!SuccessIsReal

LEMMA GroupStartSound ==
  ASSUME Enterprise!GroupAssumption, GroupSound, Enterprise!StartApply
  PROVE  GroupSound'
<1>0. Enterprise!TypeOK
  BY DEF GroupSound
<1>1. /\ remote \in GroupRemotes /\ want \in Groups \cup {Absent}
      /\ saved \in Enterprise!Tracked \cup {Absent} /\ trouble \in 0..MaxTrouble
  BY <1>0, GroupTypes
<1>2. UNCHANGED <<remote, want, saved, trouble>> /\ quiet' = TRUE
  BY DEF Enterprise!StartApply
<1>3. \/ saved # Absent /\ run' = Enterprise!Run("group", "none", Absent)
      \/ saved = Absent /\ want # Absent /\ run' = Enterprise!Run("create", "create", Absent)
      \/ saved = Absent /\ want = Absent /\ run' = Enterprise!Run("done", "none", Absent)
  BY DEF Enterprise!StartApply
<1>4. /\ run' \in GroupRuns
      /\ \/ saved # Absent /\ run'.pc = "group"
         \/ saved = Absent /\ want # Absent /\ run'.pc = "create" /\ run'.op = "create"
         \/ saved = Absent /\ want = Absent /\ run'.pc = "done" /\ run'.op = "none"
  <2>1. \A pc \in {"group", "create", "done"}, op \in {"none", "create"} :
          Enterprise!Run(pc, op, Absent) \in GroupRuns /\ Enterprise!Run(pc, op, Absent).pc = pc
            /\ Enterprise!Run(pc, op, Absent).op = op
    BY DEF Enterprise!Run, GroupRuns, GroupPCs, Enterprise!Ended, Enterprise!Steps
  <2> QED
    BY <1>3, <2>1
<1>5. Enterprise!TypeOK'
  BY <1>1, <1>2, <1>4, GroupTypesNext
<1>6. GroupShape' /\ GroupInsight'
  BY <1>2, <1>4 DEF GroupShape, GroupInsight
<1>7. Enterprise!SuccessIsReal'
  BY <1>2, <1>4 DEF Enterprise!SuccessIsReal, Enterprise!Reached
<1> QED
  BY <1>5, <1>6, <1>7 DEF GroupSound

LEMMA GroupReadSound ==
  ASSUME Enterprise!GroupAssumption, GroupSound,
         Enterprise!ReadGroup \/ Enterprise!ReadGroupMissing
  PROVE  GroupSound'
<1>0. Enterprise!TypeOK /\ GroupShape
  BY DEF GroupSound
<1>1. /\ remote \in GroupRemotes /\ want \in Groups \cup {Absent}
      /\ saved \in Enterprise!Tracked /\ saved # Absent /\ quiet \in BOOLEAN
      /\ trouble \in 0..MaxTrouble
  <2>1. saved # Absent
    BY <1>0 DEF Enterprise!ReadGroup, Enterprise!ReadGroupMissing, GroupShape
  <2> QED
    BY <1>0, <2>1, GroupTypes
<1>2. CASE Enterprise!ReadGroup
  <2> DEFINE data == [saved EXCEPT !.content = remote.group.content]
  <2>1. /\ Enterprise!Exists /\ run' = Enterprise!Run("bindings", "none", data)
        /\ UNCHANGED <<remote, want, saved, quiet, trouble>>
    BY <1>2 DEF Enterprise!ReadGroup
  <2>2. remote.group \in Enterprise!Group
    BY <1>1, <2>1 DEF GroupRemotes, Enterprise!Exists
  <2>3. /\ data \in Enterprise!Tracked /\ data.bindings = saved.bindings
        /\ data.content = remote.group.content
    BY <1>1, <2>2 DEF Enterprise!Tracked, Enterprise!Group
  <2> HIDE DEF data
  <2>4. data # Absent
    BY <2>3 DEF Enterprise!GroupAssumption
  <2>5. run' \in GroupRuns /\ run'.pc = "bindings" /\ run'.data = data
    BY <2>1, <2>3 DEF Enterprise!Run, GroupRuns, GroupPCs, Enterprise!Steps
  <2>6. Enterprise!TypeOK'
    BY <1>1, <2>1, <2>5, GroupTypesNext
  <2> QED
    BY <1>1, <2>1, <2>3, <2>4, <2>5, <2>6
    DEF GroupSound, GroupShape, GroupInsight, Enterprise!SuccessIsReal, Enterprise!Exists
<1>3. CASE Enterprise!ReadGroupMissing
  <2>1. /\ saved' = Absent /\ UNCHANGED <<want, quiet, trouble>>
        /\ remote' \in {Enterprise!Orphaned(remote), remote}
        /\ \/ want = Absent /\ run' = Enterprise!Run("done", "none", Absent)
           \/ want # Absent /\ run' = Enterprise!Run("create", "create", Absent)
    BY <1>3 DEF Enterprise!ReadGroupMissing
  <2>2. remote' \in GroupRemotes
    BY <1>0, <1>1, <2>1, GroupRemoteType
  <2>3. /\ run' \in GroupRuns
        /\ \/ want # Absent /\ run'.pc = "create" /\ run'.op = "create"
           \/ want = Absent /\ run'.pc = "done" /\ run'.op = "none"
    BY <2>1 DEF Enterprise!Run, GroupRuns, GroupPCs, Enterprise!Ended, Enterprise!Steps
  <2>4. Enterprise!TypeOK'
    BY <1>1, <2>1, <2>2, <2>3, GroupTypesNext
  <2> QED
    BY <2>1, <2>3, <2>4
    DEF GroupSound, GroupShape, GroupInsight, Enterprise!SuccessIsReal, Enterprise!Reached
<1> QED
  BY <1>2, <1>3

LEMMA GroupBindingsSound ==
  ASSUME Enterprise!GroupAssumption, GroupSound, Enterprise!ReadBindings
  PROVE  GroupSound'
<1>0. Enterprise!TypeOK /\ GroupShape /\ GroupInsight
  BY DEF GroupSound
<1> DEFINE there == IF Enterprise!Exists THEN remote.group.bindings ELSE Enterprise!NoBindings
           known == Enterprise!Known(saved.bindings, there)
<1>1. /\ run.pc = "bindings" /\ saved' = [run.data EXCEPT !.bindings = known]
      /\ run' = Enterprise!Run("plan", "none", Absent)
      /\ UNCHANGED <<remote, want, quiet, trouble>>
  BY DEF Enterprise!ReadBindings
<1>2. /\ remote \in GroupRemotes /\ want \in Groups \cup {Absent}
      /\ saved \in Enterprise!Tracked /\ run.data \in Enterprise!Tracked
      /\ quiet \in BOOLEAN /\ trouble \in 0..MaxTrouble
  BY <1>0, <1>1, GroupTypes DEF GroupShape, GroupRuns
<1>3. there \in GroupBindings
  BY <1>2
  DEF GroupRemotes, Enterprise!Exists, Enterprise!NoBindings, GroupBindings,
      Enterprise!Group
<1>4. saved.bindings \in Seq(GroupEntry)
  BY <1>2, GroupTracked
<1> HIDE DEF there
<1>5. /\ known \in Seq(GroupEntry)
      /\ \A i \in DOMAIN known : GroupAgrees(known[i], there)
  BY <1>3, <1>4, GroupKnown
<1> HIDE DEF known
<1>6. /\ saved' \in Enterprise!Tracked /\ saved'.bindings = known
      /\ saved'.content = run.data.content
  BY <1>1, <1>2, <1>5 DEF Enterprise!Tracked, GroupEntry
<1>7. saved' # Absent
  BY <1>6 DEF Enterprise!GroupAssumption
<1>8. run' \in GroupRuns /\ run'.pc = "plan"
  BY <1>1 DEF Enterprise!Run, GroupRuns, GroupPCs, Enterprise!Steps
<1>9. Enterprise!TypeOK'
  BY <1>1, <1>2, <1>6, <1>8, GroupTypesNext
<1>10. GroupShape'
  BY <1>7, <1>8 DEF GroupShape
<1>11. GroupInsight'
  <2>1. quiet => Enterprise!Exists /\ run.data.content = remote.group.content
    BY <1>0, <1>1 DEF GroupInsight
  <2>2. quiet => there = remote.group.bindings
    BY <2>1 DEF there
  <2> QED
    BY <1>1, <1>5, <1>6, <1>8, <2>1, <2>2 DEF GroupInsight, Enterprise!Exists, GroupAgrees
<1> QED
  BY <1>8, <1>9, <1>10, <1>11 DEF GroupSound, Enterprise!SuccessIsReal

LEMMA GroupPlanSound ==
  ASSUME Enterprise!GroupAssumption, GroupSound, Enterprise!Plan
  PROVE  GroupSound'
<1>0. Enterprise!TypeOK /\ GroupShape /\ GroupInsight
  BY DEF GroupSound
<1>1. /\ run.pc = "plan" /\ UNCHANGED <<remote, want, saved, quiet, trouble>>
      /\ \/ want = Absent /\ run' = Enterprise!Run("delete", "delete", Absent)
         \/ want # Absent /\ Enterprise!InPlan /\ run' = Enterprise!Run("done", "none", Absent)
         \/ want # Absent /\ ~Enterprise!InPlan
           /\ run' = Enterprise!Run("update", "update", Enterprise!Planned)
  BY DEF Enterprise!Plan
<1>2. /\ remote \in GroupRemotes /\ want \in Groups \cup {Absent}
      /\ saved \in Enterprise!Tracked /\ saved # Absent
      /\ quiet \in BOOLEAN /\ trouble \in 0..MaxTrouble
  BY <1>0, <1>1, GroupTypes DEF GroupShape
<1>3. want # Absent => Enterprise!Planned \in Enterprise!Tracked
  BY <1>0, GroupPlanned
<1>4. /\ run' \in GroupRuns
      /\ \/ want = Absent /\ run'.pc = "delete" /\ run'.op = "delete"
         \/ want # Absent /\ Enterprise!InPlan /\ run'.pc = "done" /\ run'.op = "none"
         \/ want # Absent /\ run'.pc = "update"
           /\ run'.op = "update" /\ run'.data = Enterprise!Planned
  <2>1. \A pc \in GroupPCs, op \in {"none", "update", "delete"}, data
          \in Enterprise!Tracked \cup {Absent} :
          /\ Enterprise!Run(pc, op, data) \in GroupRuns /\ Enterprise!Run(pc, op, data).pc = pc
          /\ Enterprise!Run(pc, op, data).op = op /\ Enterprise!Run(pc, op, data).data = data
    BY DEF Enterprise!Run, GroupRuns
  <2>2. {"delete", "done", "update"} \subseteq GroupPCs
    BY DEF GroupPCs, Enterprise!Ended, Enterprise!Steps
  <2> QED
    BY <1>1, <1>3, <2>1, <2>2
<1>5. Enterprise!TypeOK'
  BY <1>1, <1>2, <1>4, GroupTypesNext
<1>6. Enterprise!Planned' = Enterprise!Planned
  BY <1>1 DEF Enterprise!Planned
<1>7. GroupShape' /\ GroupInsight'
  BY <1>1, <1>2, <1>4, <1>6 DEF GroupShape, GroupInsight
<1>8. Enterprise!SuccessIsReal'
  <2> SUFFICES ASSUME quiet, want # Absent, Enterprise!InPlan
      PROVE  Enterprise!Reached
    BY <1>1, <1>4
    DEF Enterprise!SuccessIsReal, Enterprise!Reached, Enterprise!InPlan,
        Enterprise!Exists, Enterprise!SharedId
  <2>1. /\ Enterprise!Exists /\ saved.content = remote.group.content
        /\ \A i \in DOMAIN saved.bindings :
             GroupAgrees(saved.bindings[i], remote.group.bindings)
    BY <1>0, <1>1 DEF GroupInsight
  <2>2. \A i \in DOMAIN want.bindings :
          want.bindings[i] = [name |-> want.bindings[i].name, role |-> want.bindings[i].role]
    BY <1>2, GroupWant
  <2> QED
    BY <1>2, <2>1, <2>2 DEF Enterprise!Reached, Enterprise!InPlan, GroupAgrees
<1> QED
  BY <1>5, <1>7, <1>8 DEF GroupSound

LEMMA GroupCalledSound ==
  ASSUME Enterprise!GroupAssumption, GroupSound, Enterprise!Created \/ Enterprise!Updated
  PROVE  GroupSound'
<1>0. Enterprise!TypeOK /\ GroupShape
  BY DEF GroupSound
<1>1. /\ want # Absent /\ Enterprise!Accepts(Enterprise!Planned.bindings)
      /\ remote' = [remote EXCEPT !.group = Enterprise!After(Enterprise!Planned)]
      /\ saved' = Enterprise!Shown(Enterprise!Planned, Enterprise!After(Enterprise!Planned))
      /\ Enterprise!Goes("done")
      /\ UNCHANGED <<want, quiet, trouble>>
  BY <1>0
  DEF Enterprise!Created, Enterprise!Create, Enterprise!CanCreate, Enterprise!Updated,
      Enterprise!Update, Enterprise!CanUpdate, Enterprise!Sent, GroupShape
<1>2. /\ remote \in GroupRemotes /\ want \in Groups \cup {Absent}
      /\ quiet \in BOOLEAN /\ trouble \in 0..MaxTrouble
  BY <1>0, GroupTypes
<1>3. remote'.group = Enterprise!After(Enterprise!Planned)
  BY <1>1, <1>2 DEF GroupRemotes
<1>4. /\ remote'.group \in Enterprise!Group /\ saved' \in Enterprise!Tracked
      /\ ~Enterprise!SharedId' =>
           /\ Enterprise!Reached'
           /\ Enterprise!Bound(remote'.group.bindings) =
                {saved'.bindings[i].id : i \in DOMAIN want'.bindings}
  BY <1>0, <1>1, <1>3, GroupCall
<1>5. remote' \in GroupRemotes
  BY <1>0, <1>1, <1>3, <1>4, GroupRemoteType
<1>6. run' \in GroupRuns /\ run'.pc = "done"
  BY <1>0, <1>1, GroupGoesType DEF GroupPCs, Enterprise!Ended
<1>7. Enterprise!TypeOK'
  BY <1>1, <1>2, <1>4, <1>5, <1>6, GroupTypesNext
<1>8. Enterprise!SuccessIsReal'
  BY <1>4 DEF Enterprise!SuccessIsReal, Enterprise!Bound
<1> QED
  BY <1>6, <1>7, <1>8 DEF GroupSound, GroupShape, GroupInsight

LEMMA GroupDeletedSound ==
  ASSUME Enterprise!GroupAssumption, GroupSound, Enterprise!Deleted
  PROVE  GroupSound'
<1>0. Enterprise!TypeOK /\ GroupShape
  BY DEF GroupSound
<1>1. /\ run.pc = "delete" /\ Enterprise!Delete /\ saved' = Absent /\ Enterprise!Goes("done")
      /\ UNCHANGED <<want, quiet, trouble>>
  BY DEF Enterprise!Deleted, Enterprise!Delete
<1>2. /\ want = Absent /\ run.op = "delete" /\ want \in Groups \cup {Absent}
      /\ quiet \in BOOLEAN /\ trouble \in 0..MaxTrouble
  BY <1>0, <1>1, GroupTypes DEF GroupShape
<1>3. remote' \in GroupRemotes
  BY <1>0, <1>1, GroupCalls
<1>4. run' \in GroupRuns /\ run'.pc = "done" /\ run'.op = "delete"
  BY <1>0, <1>1, <1>2, GroupGoesType DEF GroupPCs, Enterprise!Ended
<1>5. Enterprise!TypeOK'
  BY <1>1, <1>2, <1>3, <1>4, GroupTypesNext
<1> QED
  BY <1>1, <1>2, <1>4, <1>5
  DEF GroupSound, GroupShape, GroupInsight, Enterprise!SuccessIsReal, Enterprise!Reached

LEMMA GroupConsoleType ==
  ASSUME Enterprise!GroupAssumption, Enterprise!TypeOK, Enterprise!Console
  PROVE  remote' \in GroupRemotes
<1>1. remote \in GroupRemotes
  BY GroupTypes
<1>2. /\ remote.group \in Enterprise!Group /\ remote.group.bindings \in GroupBindings
      /\ remote.group.content \in Contents
  BY <1>1
  DEF Enterprise!Console, Enterprise!Exists, GroupRemotes, Enterprise!Group, GroupBindings
<1> DEFINE With(bindings) == [remote.group EXCEPT !.bindings = bindings]
<1>3. ASSUME NEW id, NEW binding \in Enterprise!Binding \cup {NoBinding},
             remote' = [remote EXCEPT !.group.bindings[id] = binding]
      PROVE  remote' \in GroupRemotes
  <2> DEFINE new == [remote.group.bindings EXCEPT ![id] = binding]
  <2>1. new \in GroupBindings
    BY <1>2 DEF GroupBindings
  <2>2. remote' = [remote EXCEPT !.group = With(new)]
    BY <1>3
  <2> HIDE DEF new
  <2>3. With(new) \in Enterprise!Group
    BY <1>2, <2>1 DEF Enterprise!Group, GroupBindings
  <2> HIDE DEF With
  <2> QED
    BY <2>2, <2>3, GroupRemoteType
<1>4. ASSUME NEW content \in Contents,
             remote' = [remote EXCEPT !.group.content = content]
      PROVE  remote' \in GroupRemotes
  <2> DEFINE new == [remote.group EXCEPT !.content = content]
  <2>1. new \in Enterprise!Group
    BY <1>2, <1>4 DEF Enterprise!Group
  <2>2. remote' = [remote EXCEPT !.group = new]
    BY <1>4
  <2> HIDE DEF new
  <2> QED
    BY <2>1, <2>2, GroupRemoteType
<1>5. CASE remote' = [remote EXCEPT !.group = NoGroup]
  BY <1>5, GroupRemoteType
<1>6. CASE remote' = [remote EXCEPT !.listed = FALSE]
  BY <1>1, <1>6 DEF GroupRemotes
<1> QED
  BY <1>3, <1>4, <1>5, <1>6 DEF Enterprise!Console

LEMMA GroupOutsideSound ==
  ASSUME Enterprise!GroupAssumption, GroupSound, Enterprise!EditConfig \/ Enterprise!Console
  PROVE  GroupSound'
<1>0. Enterprise!TypeOK /\ GroupShape
  BY DEF GroupSound
<1>1. /\ saved' = saved /\ run' = run /\ quiet' = FALSE /\ trouble' \in 0..MaxTrouble
      /\ want' = want \/ run.pc \in Enterprise!Ended
  BY <1>0, GroupTrouble DEF Enterprise!EditConfig, Enterprise!Console
<1>2. /\ remote \in GroupRemotes /\ want \in Groups \cup {Absent}
      /\ saved \in Enterprise!Tracked \cup {Absent} /\ run \in GroupRuns
  BY <1>0, GroupTypes
<1>3. remote' \in GroupRemotes /\ want' \in Groups \cup {Absent}
  BY <1>0, <1>2, GroupConsoleType DEF Enterprise!EditConfig, Enterprise!Console
<1>4. Enterprise!TypeOK'
  BY <1>1, <1>2, <1>3, GroupTypesNext
<1>5. GroupShape'
  <2>1. CASE want' = want
    <3>1. Enterprise!Planned' = Enterprise!Planned
      BY <1>1, <2>1 DEF Enterprise!Planned
    <3> QED
      BY <1>0, <1>1, <2>1, <3>1 DEF GroupShape
  <2>2. CASE run.pc \in Enterprise!Ended
    BY <1>1, <2>2 DEF GroupShape, Enterprise!Ended
  <2> QED
    BY <1>1, <2>1, <2>2
<1> QED
  BY <1>1, <1>4, <1>5 DEF GroupSound, GroupInsight, Enterprise!SuccessIsReal

LEMMA GroupInit ==
  ASSUME Enterprise!GroupAssumption, Enterprise!Init
  PROVE  GroupSound
<1>1. /\ remote \in GroupRemotes /\ want \in Groups /\ saved = Absent
      /\ run = Enterprise!Run("idle", "none", Absent) /\ quiet = TRUE /\ trouble = MaxTrouble
  BY DEF Enterprise!Init, GroupRemotes
<1>2. run \in GroupRuns /\ run.pc = "idle"
  BY <1>1 DEF Enterprise!Run, GroupRuns, GroupPCs, Enterprise!Ended
<1>3. Enterprise!TypeOK
  BY <1>1, <1>2, GroupTypes DEF Enterprise!GroupAssumption
<1> QED
  BY <1>2, <1>3 DEF GroupSound, GroupShape, GroupInsight, Enterprise!SuccessIsReal

LEMMA GroupStep ==
  ASSUME Enterprise!GroupAssumption, GroupSound, [Enterprise!Next]_(Enterprise!vars)
  PROVE  GroupSound'
<1>1. CASE UNCHANGED Enterprise!vars
  <2>1. /\ remote' = remote /\ want' = want /\ saved' = saved /\ run' = run
        /\ quiet' = quiet /\ trouble' = trouble
    BY <1>1 DEF Enterprise!vars
  <2>2. Enterprise!TypeOK' /\ GroupShape'
    BY <2>1 DEF GroupSound, Enterprise!TypeOK, GroupShape, Enterprise!Planned
  <2>3. GroupInsight'
    BY <2>1 DEF GroupSound, GroupInsight, Enterprise!Exists
  <2>4. Enterprise!SuccessIsReal'
    BY <2>1
    DEF GroupSound, Enterprise!SuccessIsReal, Enterprise!SharedId, Enterprise!Reached,
        Enterprise!InPlan, Enterprise!Exists
  <2> QED
    BY <2>2, <2>3, <2>4 DEF GroupSound
<1>2. CASE Enterprise!StartApply
  BY <1>2, GroupStartSound
<1>3. CASE Enterprise!ReadGroup \/ Enterprise!ReadGroupMissing
  BY <1>3, GroupReadSound
<1>4. CASE Enterprise!ReadBindings
  BY <1>4, GroupBindingsSound
<1>5. CASE Enterprise!Plan
  BY <1>5, GroupPlanSound
<1>6. CASE Enterprise!Created \/ Enterprise!Updated
  BY <1>6, GroupCalledSound
<1>7. CASE Enterprise!Deleted
  BY <1>7, GroupDeletedSound
<1>8. CASE Enterprise!Refused \/ Enterprise!Stops \/ Enterprise!Killed
  BY <1>8, GroupFailsSound
<1>9. CASE Enterprise!EditConfig \/ Enterprise!Console
  BY <1>9, GroupOutsideSound
<1> QED
  BY <1>1, <1>2, <1>3, <1>4, <1>5, <1>6, <1>7, <1>8, <1>9
  DEF Enterprise!Next, Enterprise!Terraform

\* The inductive invariant.
THEOREM GroupInvariant ==
  ASSUME Enterprise!GroupAssumption
  PROVE  Enterprise!Spec => []GroupSound
<1>1. Enterprise!Init => GroupSound
  BY GroupInit
<1>2. GroupSound /\ [Enterprise!Next]_(Enterprise!vars) => GroupSound'
  BY GroupStep
<1> QED
  BY <1>1, <1>2, PTL DEF Enterprise!Spec

\* Type correctness of an enterprise group and its bindings.
THEOREM GroupTyping ==
  ASSUME Enterprise!GroupAssumption
  PROVE  Enterprise!Spec => []Enterprise!TypeOK
<1>1. GroupSound => Enterprise!TypeOK
  BY DEF GroupSound
<1> QED
  BY <1>1, GroupInvariant, PTL

\* An undisturbed apply of a group that ends without an error leaves the group
\* with the configured bindings, unless two entries of the state have one ID.
THEOREM GroupSuccess ==
  ASSUME Enterprise!GroupAssumption
  PROVE  Enterprise!Spec => []Enterprise!SuccessIsReal
<1>1. GroupSound => Enterprise!SuccessIsReal
  BY DEF GroupSound
<1> QED
  BY <1>1, GroupInvariant, PTL

-----------------------------------------------------------------------------
(* What is reached stays reached *)

LEMMA GroupReachedStays ==
  ASSUME Enterprise!Reached, remote.listed, UNCHANGED <<remote, want, saved>>
  PROVE  Enterprise!Reached' /\ remote'.listed
BY DEF Enterprise!Reached, Enterprise!Exists, Enterprise!InPlan

\* Of a group that is reached every binding is found, as it is saved.
LEMMA GroupReachedKnown ==
  ASSUME Enterprise!GroupAssumption, Enterprise!TypeOK, Enterprise!Reached, want # Absent
  PROVE  Enterprise!Known(saved.bindings, remote.group.bindings) = saved.bindings
<1> DEFINE entries == saved.bindings
           bindings == remote.group.bindings
           known == Enterprise!Known(entries, bindings)
<1>1. saved # Absent /\ Enterprise!Exists /\ Enterprise!InPlan
  BY DEF Enterprise!Reached
<1>2. saved \in Enterprise!Tracked /\ remote.group \in Enterprise!Group
  BY <1>1 DEF Enterprise!TypeOK, Enterprise!Exists
<1>3. bindings \in GroupBindings
  BY <1>2 DEF Enterprise!Group, GroupBindings
<1>4. /\ entries \in Seq(GroupEntry) /\ DOMAIN entries = 1..Len(entries)
      /\ Len(entries) \in Nat
  BY <1>2, GroupTracked
<1>5. want \in Enterprise!Values
  BY DEF Enterprise!TypeOK, Enterprise!GroupAssumption
<1>6. \A i \in DOMAIN want.bindings : want.bindings[i] \in Enterprise!Binding
  BY <1>5 DEF Enterprise!Values
<1>7. \A i \in DOMAIN entries :
        /\ i \in DOMAIN want.bindings
        /\ entries[i].id \in BindingIds /\ bindings[entries[i].id] = want.bindings[i]
        /\ entries[i].name = want.bindings[i].name /\ entries[i].role = want.bindings[i].role
  BY <1>1 DEF Enterprise!Reached, Enterprise!InPlan
<1>8. \A i \in DOMAIN entries : Enterprise!Matching(entries[i], bindings) = {entries[i].id}
  <2> TAKE i \in DOMAIN entries
  <2>1. entries[i].id # NoId
    BY <1>7 DEF Enterprise!GroupAssumption
  <2>2. entries[i].id \in Enterprise!Bound(bindings)
    BY <1>6, <1>7 DEF Enterprise!Bound, Enterprise!GroupAssumption
  <2> QED
    BY <2>1, <2>2 DEF Enterprise!Matching
<1>9. \A id : (CHOOSE one \in {id} : TRUE) = id
  OBVIOUS
<1> HIDE DEF entries, bindings
<1>10. DOMAIN known = DOMAIN entries /\ \A i \in DOMAIN entries : known[i].id = entries[i].id
  BY <1>3, <1>4, <1>8, <1>9, GroupKnownAll
<1>11. /\ known \in Seq(GroupEntry)
       /\ \A i \in DOMAIN entries : GroupAgrees(known[i], bindings)
  BY <1>3, <1>4, <1>10, GroupKnown
<1> HIDE DEF known
<1>12. \A i \in DOMAIN entries : known[i] \in GroupEntry /\ entries[i] \in GroupEntry
  BY <1>4, <1>10, <1>11
<1>13. \A i \in DOMAIN entries :
         known[i].name = entries[i].name /\ known[i].role = entries[i].role
  <2> TAKE i \in DOMAIN entries
  <2>1. want.bindings[i] = [name |-> known[i].name, role |-> known[i].role]
    BY <1>7, <1>10, <1>11 DEF GroupAgrees
  <2>2. want.bindings[i].name = known[i].name /\ want.bindings[i].role = known[i].role
    BY <2>1
  <2> QED
    BY <1>7, <2>2
<1>14. \A i \in DOMAIN entries : known[i] = entries[i]
  BY <1>10, <1>12, <1>13 DEF GroupEntry
<1>15. known = entries
  BY <1>4, <1>10, <1>11, <1>14
<1> QED
  BY <1>15 DEF known, entries, bindings

\* A group that is reached is read as it is saved, and nothing is planned.
LEMMA GroupRests ==
  ASSUME Enterprise!GroupAssumption, Enterprise!TypeOK, Enterprise!AtRest,
         [Enterprise!Next]_(Enterprise!vars), trouble' = trouble
  PROVE  Enterprise!AtRest'
<1> DEFINE rest == {Enterprise!Run("group", "none", Absent),
                    Enterprise!Run("bindings", "none", saved),
                    Enterprise!Run("plan", "none", Absent)}
<1>1. ~Enterprise!Trouble
  BY DEF Enterprise!Trouble, Enterprise!TypeOK, Enterprise!GroupAssumption
<1>2. /\ Enterprise!Reached /\ remote.listed
      /\ run.pc \in Enterprise!Ended \/ (want # Absent /\ run \in rest)
  BY DEF Enterprise!AtRest
<1>3. \A pc, op, data : /\ Enterprise!Run(pc, op, data).pc = pc
                        /\ Enterprise!Run(pc, op, data).data = data
  BY DEF Enterprise!Run
<1>4. /\ run.pc \in Enterprise!Ended \cup {"group", "bindings", "plan"}
      /\ run.pc \in {"group", "bindings", "plan"} => want # Absent
      /\ run.pc = "bindings" => run.data = saved
  BY <1>2, <1>3 DEF Enterprise!Ended
<1>5. want # Absent =>
        /\ saved # Absent /\ Enterprise!Exists /\ Enterprise!InPlan
        /\ remote.group.content = want.content /\ saved.content = want.content
        /\ saved \in Enterprise!Tracked
  BY <1>2 DEF Enterprise!Reached, Enterprise!InPlan, Enterprise!TypeOK
<1>6. ASSUME want # Absent, run' \in rest, UNCHANGED <<remote, want, saved>>
      PROVE  Enterprise!AtRest'
  BY <1>2, <1>6, GroupReachedStays DEF Enterprise!AtRest, Enterprise!Run
<1>7. ASSUME run'.pc \in Enterprise!Ended, UNCHANGED <<remote, want, saved>>
      PROVE  Enterprise!AtRest'
  BY <1>2, <1>7, GroupReachedStays DEF Enterprise!AtRest
<1>8. CASE Enterprise!StartApply
  <2>1. UNCHANGED <<remote, want, saved>>
    BY <1>8 DEF Enterprise!StartApply
  <2>2. CASE want # Absent
    <3>1. run' = Enterprise!Run("group", "none", Absent)
      BY <1>5, <1>8, <2>2 DEF Enterprise!StartApply
    <3> QED
      BY <1>6, <2>1, <2>2, <3>1
  <2>3. CASE want = Absent
    <3>1. saved = Absent
      BY <1>2, <2>3 DEF Enterprise!Reached
    <3>2. run' = Enterprise!Run("done", "none", Absent)
      BY <1>8, <2>3, <3>1 DEF Enterprise!StartApply
    <3> QED
      BY <1>3, <1>7, <2>1, <3>2 DEF Enterprise!Ended
  <2> QED
    BY <2>2, <2>3
<1>9. CASE Enterprise!ReadGroup
  <2>1. want # Absent /\ UNCHANGED <<remote, want, saved>>
    BY <1>4, <1>9 DEF Enterprise!ReadGroup
  <2>2. [saved EXCEPT !.content = remote.group.content] = saved
    BY <1>5, <2>1 DEF Enterprise!Tracked
  <2>3. run' = Enterprise!Run("bindings", "none", saved)
    BY <1>9, <2>2 DEF Enterprise!ReadGroup
  <2> QED
    BY <1>6, <2>1, <2>3
<1>10. CASE Enterprise!ReadGroupMissing
  BY <1>2, <1>4, <1>5, <1>10 DEF Enterprise!ReadGroupMissing
<1>11. CASE Enterprise!ReadBindings
  <2>1. want # Absent /\ run.data = saved /\ UNCHANGED <<remote, want>>
    BY <1>4, <1>11 DEF Enterprise!ReadBindings
  <2>2. saved' = [saved EXCEPT !.bindings =
                    Enterprise!Known(saved.bindings, remote.group.bindings)]
    BY <1>5, <1>11, <2>1 DEF Enterprise!ReadBindings
  <2>3. Enterprise!Known(saved.bindings, remote.group.bindings) = saved.bindings
    BY <1>2, <2>1, GroupReachedKnown
  <2>4. saved' = saved
    BY <1>5, <2>1, <2>2, <2>3 DEF Enterprise!Tracked
  <2>5. run' = Enterprise!Run("plan", "none", Absent)
    BY <1>11 DEF Enterprise!ReadBindings
  <2> QED
    BY <1>6, <2>1, <2>4, <2>5
<1>12. CASE Enterprise!Plan
  <2>1. want # Absent /\ UNCHANGED <<remote, want, saved>>
    BY <1>4, <1>12 DEF Enterprise!Plan
  <2>2. run' = Enterprise!Run("done", "none", Absent)
    BY <1>5, <1>12, <2>1 DEF Enterprise!Plan
  <2> QED
    BY <1>3, <1>7, <2>1, <2>2 DEF Enterprise!Ended
<1>13. CASE UNCHANGED Enterprise!vars
  BY <1>2, <1>6, <1>7, <1>13 DEF Enterprise!vars
<1>14. ASSUME Enterprise!Next
       PROVE  \/ Enterprise!StartApply \/ Enterprise!ReadGroup \/ Enterprise!ReadGroupMissing
              \/ Enterprise!ReadBindings \/ Enterprise!Plan
  <2>1. run.pc \notin {"create", "update", "delete"}
    BY <1>4 DEF Enterprise!Ended
  <2> QED
    BY <1>1, <1>14, <2>1
    DEF Enterprise!Next, Enterprise!Terraform, Enterprise!Created, Enterprise!Create,
        Enterprise!Updated, Enterprise!Update, Enterprise!Deleted, Enterprise!Delete,
        Enterprise!Refused, Enterprise!Stops, Enterprise!Killed, Enterprise!EditConfig,
        Enterprise!Console
<1> QED
  BY <1>8, <1>9, <1>10, <1>11, <1>12, <1>13, <1>14
=============================================================================
