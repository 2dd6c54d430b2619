------------------------- MODULE ResourceLifecycle -------------------------
(***************************************************************************)
(* The life of one plain resource: an object at CAST AI which Terraform    *)
(* creates, reads back, changes in place or by replacement, and deletes,   *)
(* with at most two calls per operation.  What differs between resources   *)
(* is their profile (ResourceProfiles); the kind of resource is chosen     *)
(* initially, and with it what the API does where the code relies on it.   *)
(*                                                                         *)
(* The attributes of a resource are abstracted to a required value (main)  *)
(* and the presence of optional ones (extra); the state may also show the  *)
(* optional ones as an empty block (blank), which is neither.              *)
(***************************************************************************)
EXTENDS Naturals, ResourceProfiles

CONSTANTS
  Kinds,       \* the profiles of the resources
  Ids,         \* IDs of objects; those without an object are free
  Mains,       \* values of the required attributes
  Nil,         \* no ID, no value
  MaxTrouble   \* bound on the faults, interventions and edits

ASSUME KindsAssumption == Kinds \subseteq Profile
ASSUME IdsAssumption == Ids # {}
ASSUME NilAssumption == Nil \notin Ids /\ Nil \notin Mains
ASSUME TroubleAssumption == MaxTrouble \in Nat

VARIABLES
  kind,      \* the profile of the resource
  unique,    \* CAST AI has one object of a name at most
  partial,   \* CAST AI keeps what an update does not send
  objects,   \* the objects with the configured name
  want,      \* the configuration
  saved,     \* the Terraform state
  run,       \* what Terraform is doing, and the ID it has found meanwhile
  trouble    \* how much trouble is still to come

setting == <<kind, unique, partial>>
vars == <<kind, unique, partial, objects, want, saved, run, trouble>>

-----------------------------------------------------------------------------
(* State *)

\* An object belongs to this resource once the resource was told its ID
\* ("here"); before, its ID is known to nobody.  Those of others, and those
\* deliberately left behind, are "other".  A locked object is the default one
\* of its cluster, or built in.
Object ==
  [state: {"none", "live", "going"}, main: Mains \cup {Nil}, extra: BOOLEAN,
   owner: {"here", "unknown", "other"}, locked: BOOLEAN]

NoObject ==
  [state |-> "none", main |-> Nil, extra |-> FALSE, owner |-> "other", locked |-> FALSE]

Live(id) == objects[id].state = "live"
Gone(id) == objects[id].state = "none"

Configuration == [main: Mains \cup {Nil}, extra: BOOLEAN]
Unwanted == [main |-> Nil, extra |-> FALSE]
Extras == IF kind.optional THEN BOOLEAN ELSE {FALSE}
Configurable == [main: Mains, extra: Extras]

Saved ==
  [id: Ids \cup {Nil}, main: Mains \cup {Nil}, extra: BOOLEAN, blank: BOOLEAN,
   locked: BOOLEAN, tainted: BOOLEAN]
NotSaved ==
  [id |-> Nil, main |-> Nil, extra |-> FALSE, blank |-> FALSE, locked |-> FALSE,
   tainted |-> FALSE]

\* The planned values, in a resource that has just got its ID.
Created(id, tainted) ==
  [id |-> id, main |-> want.main, extra |-> want.extra, blank |-> FALSE,
   locked |-> FALSE, tainted |-> tainted]

Updated == [saved EXCEPT !.main = want.main, !.extra = want.extra, !.blank = FALSE]

Ended == {"idle", "done", "failed"}
Steps == {"refresh", "plan", "list", "post", "find", "readNew", "adopt",
          "update", "readUpdated", "check", "delete", "poll"}

Goes(op) == run' = [op |-> op, id |-> Nil]
Ends(how) == Goes(how)

TypeOK ==
  /\ kind \in Kinds
  /\ unique \in BOOLEAN
  /\ partial \in BOOLEAN
  /\ objects \in [Ids -> Object]
  /\ \A id \in Ids : Gone(id) => objects[id] = NoObject
  /\ want \in Configuration
  /\ want.main = Nil => want = Unwanted
  /\ saved \in Saved
  /\ saved.id = Nil => saved = NotSaved
  /\ run \in [op: Steps \cup Ended, id: Ids \cup {Nil}]
  /\ run.id = Nil <=> run.op \notin {"readNew", "adopt"}
  /\ trouble \in 0..MaxTrouble

Foreign(main, extra, locked) ==
  [state |-> "live", main |-> main, extra |-> extra, owner |-> "other",
   locked |-> locked]

\* Whether an object of this kind may be one that cannot be deleted.
Lockable == IF kind.delete \in {"checks", "checksLoosely", "disables"}
            THEN BOOLEAN ELSE {FALSE}

Foreigners == {Foreign(main, extra, locked) :
                 main \in Mains, extra \in Extras, locked \in Lockable}

Init ==
  /\ kind \in Kinds
  /\ unique \in (IF kind.create = "upsert" THEN {TRUE} ELSE BOOLEAN)
  /\ partial \in (IF kind.sendsAll THEN {FALSE} ELSE BOOLEAN)
  /\ want \in Configurable
  /\ objects = [id \in Ids |-> NoObject]
  /\ saved = NotSaved
  /\ run = [op |-> "idle", id |-> Nil]
  /\ trouble = MaxTrouble

Trouble ==
  /\ trouble > 0
  /\ trouble' = trouble - 1

-----------------------------------------------------------------------------
(* Refresh and plan *)

\* Mutant: every creation takes over what has the name.
CreateBegins_Adopts == "list"

\* Where a creation and a deletion begin.
CreateBegins == IF kind.create = "adopt" THEN "list" ELSE "post"
DeleteBegins == IF kind.delete \in {"checks", "checksLoosely"} THEN "check" ELSE "delete"

StartApply ==
  /\ run.op \in Ended
  /\ IF saved.id # Nil THEN Goes("refresh")
     ELSE IF want # Unwanted THEN Goes(CreateBegins) ELSE Ends("done")
  /\ UNCHANGED <<setting, objects, want, saved, trouble>>

\* Mutant: the required attributes are not set.
Read_SkipsMain(base, object) ==
  [base EXCEPT !.extra = object.extra \/ (@ /\ ~kind.readsAll),
               !.blank = kind.blank /\ ~object.extra,
               !.locked = object.locked /\ kind.delete = "disables"]

\* Mutant: what the answer leaves out is taken out of the state.
Read_Clears(base, object) ==
  [base EXCEPT !.main = IF kind.readMain THEN object.main ELSE Nil,
               !.extra = object.extra,
               !.blank = kind.blank /\ ~object.extra,
               !.locked = object.locked /\ kind.delete = "disables"]

\* What a Read makes of the state it starts from.
Read(base, object) ==
  [base EXCEPT !.main = IF kind.readMain THEN object.main ELSE @,
               !.extra = object.extra \/ (@ /\ ~kind.readsAll),
               !.blank = kind.blank /\ ~object.extra,
               !.locked = object.locked /\ kind.delete = "disables"]

Refresh ==
  /\ run.op = "refresh"
  /\ ~Gone(saved.id)
  /\ saved' = Read(saved, objects[saved.id])
  /\ Goes("plan")
  /\ UNCHANGED <<setting, objects, want, trouble>>

RefreshFindsNothing ==
  /\ run.op = "refresh"
  /\ Gone(saved.id)
  /\ \/ /\ kind.missing = "forget"
        /\ saved' = NotSaved
        /\ IF want # Unwanted THEN Goes(CreateBegins) ELSE Ends("done")
     \/ /\ kind.missing = "empty"
        /\ saved' = [saved EXCEPT !.main = Nil, !.extra = FALSE]
        /\ Goes("plan")
     \/ /\ kind.missing = "error"
        /\ UNCHANGED saved
        /\ Ends("failed")
  /\ UNCHANGED <<setting, objects, want, trouble>>

MustReplace ==
  \/ saved.tainted
  \/ "main" \in kind.replaces /\ saved.main # want.main
  \/ "extra" \in kind.replaces /\ saved.extra # want.extra

Plan ==
  /\ run.op = "plan"
  /\ IF want = Unwanted \/ MustReplace THEN Goes(DeleteBegins)
     ELSE IF saved = Updated THEN Ends("done")
     ELSE Goes("update")
  /\ UNCHANGED <<setting, objects, want, saved, trouble>>

-----------------------------------------------------------------------------
(* Create *)

\* Mutant: Create sets the ID last, after Read.
AfterError_LateId ==
  IF run.op \in {"update", "readUpdated"} /\ kind.failed = "planned" THEN Updated ELSE saved

\* What is saved when an operation returns an error.  SDKv2 saves the planned
\* values of a failed update and, tainted, those of a create that failed after
\* SetId; the framework saves what the handler has set.
AfterError ==
  IF run.op \in {"update", "readUpdated"} /\ kind.failed = "planned" THEN Updated
  ELSE IF run.op \in {"readNew", "adopt"} THEN Created(run.id, TRUE)
  ELSE saved

Refused ==
  /\ saved' = AfterError
  /\ Ends("failed")
  /\ UNCHANGED <<setting, objects, want, trouble>>

\* Create and Update look at the configuration before they call CAST AI.
Incomplete == kind.needsExtra /\ ~want.extra

NotAttempted ==
  /\ run.op \in {"post", "update"}
  /\ Incomplete
  /\ Refused

\* Mutant: the update of an adopted object does not know its ID.
List_WithoutId ==
  /\ run.op = "list"
  /\ \/ (\E id \in Ids : Live(id)) /\ Goes("adopt")
     \/ (\A id \in Ids : Gone(id)) /\ Goes("post")
  /\ UNCHANGED <<setting, objects, want, saved, trouble>>

\* Looks for an object to adopt.
List ==
  /\ run.op = "list"
  /\ \/ \E id \in Ids : Live(id) /\ run' = [op |-> "adopt", id |-> id]
     \/ (\A id \in Ids : Gone(id)) /\ Goes("post")
  /\ UNCHANGED <<setting, objects, want, saved, trouble>>

\* The object a POST makes or, for an upsert, overwrites; IDs are used again
\* only when nobody knows them.
Free(id) == Gone(id) /\ id # saved.id
Taken == \E id \in Ids : ~Gone(id)
PostTarget ==
  IF kind.create = "upsert" /\ Taken THEN CHOOSE id \in Ids : ~Gone(id)
  ELSE CHOOSE id \in Ids : Free(id)

Postable ==
  /\ ~Incomplete
  /\ \/ kind.create = "upsert"
     \/ (\E id \in Ids : Free(id)) /\ ~(unique /\ Taken)

\* The optional attributes that take effect.
Effective == want.extra /\ ~kind.shadows

Made(owner) ==
  [state |-> "live", main |-> want.main, extra |-> Effective, owner |-> owner,
   locked |-> FALSE]

\* An answer brings the ID; creation by name does not look for it there.
Post ==
  /\ run.op = "post"
  /\ Postable
  /\ LET id == PostTarget
         made == Made(IF kind.create = "byName" THEN "unknown" ELSE "here")
     IN
     /\ objects' = [objects EXCEPT ![id] = made]
     /\ IF kind.create = "byName" THEN Goes("find") /\ UNCHANGED saved
        ELSE IF kind.readsBack
          THEN run' = [op |-> "readNew", id |-> id] /\ UNCHANGED saved
          ELSE Ends("done") /\ saved' = Read(Created(id, FALSE), made)
  /\ UNCHANGED <<setting, want, trouble>>

PostRefused ==
  /\ run.op = "post"
  /\ kind.create # "upsert" /\ unique /\ Taken
  /\ Refused

\* The first object with the name: ours, if there is no other.
Find ==
  /\ run.op = "find"
  /\ \E id \in Ids :
       /\ Live(id)
       /\ objects' = [objects EXCEPT ![id].owner = IF @ = "unknown" THEN "here" ELSE @]
       /\ run' = [op |-> "readNew", id |-> id]
  /\ UNCHANGED <<setting, want, saved, trouble>>

FindsNothing ==
  /\ run.op = "find"
  /\ \A id \in Ids : Gone(id)
  /\ Refused

ReadNew ==
  /\ run.op = "readNew"
  /\ ~Gone(run.id)
  /\ saved' = Read(Created(run.id, FALSE), objects[run.id])
  /\ Ends("done")
  /\ UNCHANGED <<setting, objects, want, trouble>>

ReadNewFindsNothing ==
  /\ run.op = "readNew"
  /\ Gone(run.id)
  /\ IF kind.newGone = "forget" THEN UNCHANGED saved ELSE saved' = AfterError
  /\ Ends("failed")
  /\ UNCHANGED <<setting, objects, want, trouble>>

-----------------------------------------------------------------------------
(* Update *)

\* What an update makes of an object.
Written(object) ==
  [object EXCEPT !.main = want.main,
                 !.extra = Effective \/ (@ /\ partial /\ ~kind.sendsAll),
                 !.owner = IF kind.create \in {"adopt", "upsert"} THEN "here" ELSE @]

\* An upsert also makes the object that is gone.
Puts ==
  /\ run.op = "update"
  /\ ~Incomplete
  /\ Live(saved.id) \/ kind.create = "upsert"
  /\ objects' = [objects EXCEPT ![saved.id] =
                   IF Live(saved.id) THEN Written(@) ELSE Made("here")]

Update ==
  /\ Puts
  /\ IF kind.readsBack THEN Goes("readUpdated") /\ UNCHANGED saved
     ELSE Ends("done") /\ saved' = Read(Updated, objects'[saved.id])
  /\ UNCHANGED <<setting, want, trouble>>

ReadUpdated ==
  /\ run.op = "readUpdated"
  /\ ~Gone(saved.id)
  /\ saved' = Read(Updated, objects[saved.id])
  /\ Ends("done")
  /\ UNCHANGED <<setting, objects, want, trouble>>

\* Terraform takes an update that forgets the resource for a failure, and keeps
\* what it had.
ReadUpdatedFindsNothing ==
  /\ run.op = "readUpdated"
  /\ Gone(saved.id)
  /\ IF kind.missing = "forget" THEN UNCHANGED saved ELSE saved' = AfterError
  /\ Ends("failed")
  /\ UNCHANGED <<setting, objects, want, trouble>>

\* The update of an adopted object is a part of its creation.
Adopts ==
  /\ run.op = "adopt"
  /\ Live(run.id)
  /\ objects' = [objects EXCEPT ![run.id] = Written(@)]

Adopt ==
  /\ Adopts
  /\ run' = [run EXCEPT !.op = "readNew"]
  /\ UNCHANGED <<setting, want, saved, trouble>>

WriteRefused ==
  /\ \/ run.op = "update" /\ kind.create # "upsert" /\ ~Live(saved.id)
     \/ run.op = "adopt" /\ ~Live(run.id)
  /\ Refused

-----------------------------------------------------------------------------
(* Delete *)

\* A replacement goes on with the creation.
Forget ==
  /\ saved' = NotSaved
  /\ IF want # Unwanted THEN Goes(CreateBegins) ELSE Ends("done")

\* The default object is left where it is, the others are deleted.
Check ==
  /\ run.op = "check"
  /\ IF Gone(saved.id) THEN Forget /\ UNCHANGED objects
     ELSE IF objects[saved.id].locked
       THEN Forget /\ objects' = [objects EXCEPT ![saved.id].owner = "other"]
     ELSE Goes("delete") /\ UNCHANGED <<objects, saved>>
  /\ UNCHANGED <<setting, want, trouble>>

Disables == kind.delete = "disables" /\ saved.locked
Deletable(object) == object.state # "none" /\ ~object.locked

\* What follows an accepted DELETE.
Deleted == IF kind.delete = "polls" THEN Goes("poll") /\ UNCHANGED saved ELSE Forget

Remains(object) ==
  IF kind.delete = "polls" THEN [object EXCEPT !.state = "going"] ELSE NoObject

Delete ==
  /\ run.op = "delete"
  /\ ~Disables
  /\ Deletable(objects[saved.id])
  /\ objects' = [objects EXCEPT ![saved.id] = Remains(@)]
  /\ Deleted
  /\ UNCHANGED <<setting, want, trouble>>

Disable ==
  /\ run.op = "delete"
  /\ Disables
  /\ ~Gone(saved.id)
  /\ objects' = [objects EXCEPT ![saved.id].owner = "other"]
  /\ Forget
  /\ UNCHANGED <<setting, want, trouble>>

\* Nothing to delete, which some take for done; writing an empty list works.
DeleteFindsNothing ==
  /\ run.op = "delete"
  /\ Gone(saved.id)
  /\ kind.deleteGone \/ kind.delete = "unchecked"
  /\ Forget
  /\ UNCHANGED <<setting, objects, want, trouble>>

DeleteRefused ==
  /\ run.op = "delete"
  /\ \/ Gone(saved.id) /\ ~kind.deleteGone /\ kind.delete # "unchecked"
     \/ objects[saved.id].locked /\ ~Disables
  /\ Refused

\* The deadline is two seconds.
Poll ==
  /\ run.op = "poll"
  /\ IF Gone(saved.id) THEN Forget
     ELSE Ends("failed") /\ UNCHANGED saved
  /\ UNCHANGED <<setting, objects, want, trouble>>

-----------------------------------------------------------------------------
(* Faults *)

Ignored ==
  \/ run.op = "list"
  \/ run.op = "check" /\ kind.delete = "checksLoosely"
  \/ run.op = "delete" /\ kind.delete = "unchecked"

\* A call fails without an effect, or a Read on the way fails.
CallFails ==
  /\ Trouble
  /\ run.op \in Steps \ {"plan", "list"}
  /\ ~(run.op = "check" /\ kind.delete = "checksLoosely")
  /\ saved' = AfterError
  /\ Ends("failed")
  /\ UNCHANGED <<setting, objects, want>>

\* The code goes on after some errors as if there were none: a listing that
\* failed found nothing, a check that failed found no default, and the error
\* status of a deletion is not looked at.
ErrorIgnored ==
  /\ Trouble
  /\ Ignored
  /\ IF run.op = "delete" THEN Forget
     ELSE Goes(IF run.op = "list" THEN "post" ELSE "delete") /\ UNCHANGED saved
  /\ UNCHANGED <<setting, objects, want>>

\* The process is killed between two calls: an ID it knew may be forgotten.
Crash ==
  /\ Trouble
  /\ run.op \in Steps
  /\ objects' = [id \in Ids |-> IF id = run.id /\ objects[id].owner = "here"
                                THEN [objects[id] EXCEPT !.owner = "unknown"]
                                ELSE objects[id]]
  /\ Ends("failed")
  /\ UNCHANGED <<setting, want, saved>>

\* A call is carried out, and its answer does not arrive.
PostAnswerLost ==
  /\ Trouble
  /\ run.op = "post"
  /\ Postable
  /\ objects' = [objects EXCEPT ![PostTarget] = Made("unknown")]
  /\ Ends("failed")
  /\ UNCHANGED <<setting, want, saved>>

WriteAnswerLost ==
  /\ Trouble
  /\ Puts \/ Adopts
  /\ saved' = AfterError
  /\ Ends("failed")
  /\ UNCHANGED <<setting, want>>

DeleteAnswerLost ==
  /\ Trouble
  /\ run.op = "delete"
  /\ ~Disables
  /\ Deletable(objects[saved.id])
  /\ objects' = [objects EXCEPT ![saved.id] = Remains(@)]
  /\ Ends("failed")
  /\ UNCHANGED <<setting, want, saved>>

-----------------------------------------------------------------------------
(* Everybody else *)

\* CAST AI finishes a deletion it has accepted.
Vanish ==
  /\ \E id \in Ids :
       /\ objects[id].state = "going"
       /\ objects' = [objects EXCEPT ![id] = NoObject]
  /\ UNCHANGED <<setting, want, saved, run, trouble>>

\* terraform import of an object somebody hands over, and the Read after it.
Import ==
  /\ Trouble
  /\ run.op \in Ended
  /\ kind.imports
  /\ saved = NotSaved
  /\ \E id \in Ids :
       /\ Live(id)
       /\ objects' = [objects EXCEPT ![id].owner = "here"]
       /\ saved' = [id |-> id, main |-> objects[id].main, extra |-> objects[id].extra,
                    blank |-> kind.blank /\ ~objects[id].extra,
                    locked |-> objects[id].locked /\ kind.delete = "disables",
                    tainted |-> FALSE]
  /\ UNCHANGED <<setting, want, run>>

EditConfig ==
  /\ Trouble
  /\ run.op \in Ended
  /\ want' \in (Configurable \cup {Unwanted}) \ {want}
  /\ UNCHANGED <<setting, objects, saved, run>>

\* In the console, by other tools or by CAST AI itself, an object of the same
\* name appears, and objects are changed, made the default one and deleted.
Appears ==
  /\ ~(unique /\ Taken)
  /\ \E id \in Ids : Free(id) /\ id # run.id
  /\ LET id == CHOOSE id \in Ids : Free(id) /\ id # run.id
     IN \E object \in Foreigners : objects' = [objects EXCEPT ![id] = object]

Changes ==
  \E id \in Ids, main \in Mains, extra \in Extras :
    /\ Live(id)
    /\ <<main, extra>> # <<objects[id].main, objects[id].extra>>
    /\ objects' = [objects EXCEPT ![id].main = main, ![id].extra = extra]

ChangesDefault ==
  \E id \in Ids :
    /\ Live(id)
    /\ kind.delete \in {"checks", "checksLoosely"}
    /\ objects' = [objects EXCEPT ![id].locked = ~@]

Disappears ==
  \E id \in Ids :
    /\ Live(id)
    /\ objects' = [objects EXCEPT ![id] = NoObject]

Console ==
  /\ Trouble
  /\ Appears \/ Changes \/ ChangesDefault \/ Disappears
  /\ UNCHANGED <<setting, want, saved, run>>

-----------------------------------------------------------------------------
Terraform ==
  \/ Refresh \/ RefreshFindsNothing \/ Plan
  \/ List \/ NotAttempted \/ Post \/ PostRefused \/ Find \/ FindsNothing
  \/ ReadNew \/ ReadNewFindsNothing
  \/ Update \/ ReadUpdated \/ ReadUpdatedFindsNothing \/ Adopt \/ WriteRefused
  \/ Check \/ Delete \/ Disable \/ DeleteFindsNothing \/ DeleteRefused \/ Poll

Faults ==
  \/ CallFails \/ ErrorIgnored \/ Crash
  \/ PostAnswerLost \/ WriteAnswerLost \/ DeleteAnswerLost

Next ==
  \/ StartApply \/ Terraform \/ Faults
  \/ Vanish \/ Import \/ EditConfig \/ Console

Spec == Init /\ [][Next]_vars

\* Terraform runs to its end, the user applies again and again, and CAST AI
\* finishes deletions.  Faults, edits, imports and the console are not fair.
FairSpec == Spec /\ WF_vars(StartApply) /\ WF_vars(Terraform) /\ WF_vars(Vanish)
-----------------------------------------------------------------------------
(* Properties *)

\* An object whose ID the resource was told stays known, to the state or to
\* the operation at work, until it is gone or deliberately left: whatever
\* fails, a create does not leave it behind and a delete or a Read does not
\* forget it.  Only the delete that looks at no status may.
CreatedIsKept ==
  \A id \in Ids :
    ~Gone(id) /\ objects[id].owner = "here" =>
      id \in {saved.id, run.id} \/ kind.delete = "unchecked"

\* A resource that creates its object and takes the ID from the answer never
\* changes, disables or deletes an object that is not its own.
HandsOff ==
  [][\A id \in Ids :
       kind.create = "answer" /\ run' # run /\ objects[id].owner = "other" /\ Live(id)
         => objects'[id] = objects[id]]_vars

\* The configuration, the state and CAST AI agree: the next plan is empty.
Reached ==
  IF want = Unwanted THEN saved.id = Nil
  ELSE /\ saved.id # Nil
       /\ saved = Updated
       /\ ~saved.tainted
       /\ Live(saved.id)
       /\ objects[saved.id].main = want.main
       /\ objects[saved.id].extra = want.extra

\* And no run has begun to change anything.
AtRest == Reached /\ run.op \in Ended \cup {"refresh", "plan"}

\* Read shows an empty block where nothing is configured: a difference on
\* every plan, which no update removes.
Blanked == kind.blank /\ ~want.extra

\* Without faults, edits and the console, a configuration that is reached stays
\* reached, and an apply of it finds nothing to do: what Read makes of the
\* object is what is planned, except for an empty block.
StaysReached == [][AtRest /\ trouble' = trouble => AtRest' \/ Blanked]_vars

\* The name is in use: by another object, or by the one a create without an
\* answer has made.
NameTaken == saved.id = Nil /\ unique /\ Taken /\ kind.create \in {"answer", "byName"}

\* Read fails on the object that is gone, so that no plan is made.
Unreadable == kind.missing = "error" /\ saved.id # Nil /\ Gone(saved.id)

\* Read leaves a configured optional attribute as it was when the object has
\* none, and the required ones of an onboarding: the drift is not seen.
Unseen ==
  /\ saved.id # Nil
  /\ saved = Updated
  /\ Live(saved.id)
  /\ \/ ~kind.readsAll /\ want.extra /\ ~objects[saved.id].extra
     \/ ~kind.readMain /\ objects[saved.id].main # want.main

\* An update does not send the optional attribute that is no longer
\* configured, and CAST AI keeps it.
Unremovable == partial /\ saved.id # Nil /\ ~want.extra /\ objects[saved.id].extra

\* The object is as it can be made, and each plan finds the same difference:
\* an empty block, or optional attributes that another one overrides.
Perpetual ==
  /\ saved.id # Nil
  /\ Live(saved.id)
  /\ objects[saved.id].main = want.main
  /\ objects[saved.id].extra = Effective
  /\ Blanked \/ (kind.shadows /\ want.extra)

\* Once faults, edits and the console are quiet, repeated applies reach the
\* configuration and plan nothing more, or end in one of six dead ends:
\* an object Read fails on, drift it does not see, a name in use, an attribute
\* that cannot be removed, a difference on each plan, a refused configuration.
Convergence ==
  <>[]\/ Reached
      \/ Unreadable
      \/ /\ want # Unwanted
         /\ NameTaken \/ Unseen \/ Unremovable \/ Perpetual \/ Incomplete

\* "Hibernation schedule not found, removing from state", "Rebalancing schedule
\* not found, removing from state": a Read that finds nothing removes the
\* resource from the state.
MissingIsForgotten ==
  [][run.op = "refresh" /\ Gone(saved.id) /\ trouble' = trouble /\ run' # run
       => saved' = NotSaved]_vars
=============================================================================
