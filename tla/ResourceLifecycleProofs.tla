---------------------- MODULE ResourceLifecycleProofs ----------------------
(***************************************************************************)
(* The safety properties of ResourceLifecycle, for every set of profiles,  *)
(* IDs and values and any amount of trouble.                               *)
(*                                                                         *)
(* CreatedIsKept is not inductive: a failed creation saves the ID it has   *)
(* over whatever is in the state, which is harmless only because nothing   *)
(* is there while a resource is created.  Purpose says so.  HandsOff needs *)
(* Own: what the state or the operation refers to is the resource's.       *)
(* StaysReached follows from what Read makes of an object that is as       *)
(* configured (ReadReached): what is planned, unless the resource is one   *)
(* that shows what it has not as an empty block.                           *)
(***************************************************************************)
EXTENDS ResourceLifecycle, TLAPS

Creating == {"list", "post", "find", "readNew", "adopt"}
Managing == {"refresh", "plan", "update", "readUpdated", "check", "delete", "poll"}

Purpose ==
  /\ run.op \in Creating => saved = NotSaved
  /\ run.op \in Managing => saved.id # Nil
  /\ run.op = "list" => kind.create = "adopt"
  /\ run.op = "find" => kind.create = "byName"

Own ==
  kind.create = "answer" =>
    \A id \in Ids : id \in {saved.id, run.id} /\ Live(id) => objects[id].owner # "other"

Sound == TypeOK /\ Purpose /\ CreatedIsKept /\ Own

-----------------------------------------------------------------------------
(* The records the actions build *)

LEMMA InitSound == Init => Sound
<1> SUFFICES ASSUME Init PROVE Sound
  OBVIOUS
<1>1. NotSaved \in Saved /\ NotSaved.id = Nil /\ NoObject \in Object
      /\ NoObject.state = "none"
  BY DEF NotSaved, Saved, NoObject, Object
<1>2. want \in Configuration /\ want.main # Nil
  BY NilAssumption DEF Init, Configurable, Configuration, Extras
<1>3. unique \in BOOLEAN /\ partial \in BOOLEAN
  BY DEF Init
<1>4. TypeOK
  BY <1>1, <1>2, <1>3, TroubleAssumption DEF Init, TypeOK, Gone, Ended
<1> QED
  BY <1>1, <1>4 DEF Init, Sound, Purpose, Creating, Managing, CreatedIsKept, Own, Live, Gone

LEMMA KindType == ASSUME TypeOK PROVE kind \in Profile
BY KindsAssumption DEF TypeOK

LEMMA CreatedType ==
  ASSUME TypeOK, NEW id \in Ids, NEW tainted \in BOOLEAN
  PROVE  Created(id, tainted) \in Saved /\ Created(id, tainted).id = id
BY DEF TypeOK, Configuration, Created, Saved

LEMMA UpdatedType ==
  ASSUME TypeOK
  PROVE  Updated \in Saved /\ Updated.id = saved.id
BY DEF TypeOK, Configuration, Updated, Saved

LEMMA ReadType ==
  ASSUME TypeOK, NEW base \in Saved, NEW object \in Object
  PROVE  Read(base, object) \in Saved /\ Read(base, object).id = base.id
<1> DEFINE main == IF kind.readMain THEN object.main ELSE base.main
           extra == object.extra \/ (base.extra /\ ~kind.readsAll)
           blank == kind.blank /\ ~object.extra
           locked == object.locked /\ kind.delete = "disables"
<1>1. main \in Mains \cup {Nil}
  BY DEF Saved, Object
<1>2. extra \in BOOLEAN /\ blank \in BOOLEAN
  BY Zenon
<1>3. locked \in BOOLEAN
  BY Zenon
<1>4. Read(base, object) = [base EXCEPT !.main = main, !.extra = extra,
                                        !.blank = blank, !.locked = locked]
  BY Zenon DEF Read
<1> HIDE DEF main, extra, blank, locked
<1> QED
  BY <1>1, <1>2, <1>3, <1>4 DEF Saved

LEMMA AfterErrorType ==
  ASSUME TypeOK, Purpose
  PROVE  /\ AfterError \in Saved
         /\ AfterError.id = Nil => AfterError = NotSaved
         /\ run.op \in {"readNew", "adopt"} => AfterError.id = run.id
         /\ run.op \notin {"readNew", "adopt"} => AfterError.id = saved.id
<1>1. CASE run.op \in {"update", "readUpdated"} /\ kind.failed = "planned"
  BY <1>1, UpdatedType, NilAssumption DEF AfterError, Purpose, Managing
<1>2. CASE run.op \in {"readNew", "adopt"}
  <2>1. run.id \in Ids
    BY <1>2 DEF TypeOK
  <2> QED
    BY <1>2, <2>1, CreatedType, NilAssumption DEF AfterError
<1>3. CASE /\ ~(run.op \in {"update", "readUpdated"} /\ kind.failed = "planned")
           /\ run.op \notin {"readNew", "adopt"}
  BY <1>3 DEF AfterError, TypeOK
<1> QED
  BY <1>1, <1>2, <1>3

LEMMA MadeType ==
  ASSUME TypeOK, NEW owner \in {"here", "unknown", "other"}
  PROVE  /\ Made(owner) \in Object
         /\ Made(owner).state = "live"
         /\ Made(owner).owner = owner
<1>1. Effective \in BOOLEAN
  BY Zenon DEF Effective
<1> QED
  BY <1>1 DEF TypeOK, Configuration, Made, Object

LEMMA WrittenType ==
  ASSUME TypeOK, NEW object \in Object
  PROVE  /\ Written(object) \in Object
         /\ Written(object).state = object.state
         /\ Written(object).owner \in {object.owner, "here"}
         /\ kind.create = "answer" => Written(object).owner = object.owner
<1>1. want.main \in Mains \cup {Nil} /\ object.extra \in BOOLEAN
      /\ partial \in BOOLEAN /\ kind.sendsAll \in BOOLEAN
  BY KindType DEF TypeOK, Configuration, Object, Profile
<1>2. Effective \in BOOLEAN
  BY Zenon DEF Effective
<1>3. (Effective \/ (object.extra /\ partial /\ ~kind.sendsAll)) \in BOOLEAN
  BY Zenon
<1> QED
  BY <1>1, <1>3 DEF TypeOK, Configuration, Written, Object

LEMMA PostTargetType ==
  ASSUME TypeOK, Postable, saved = NotSaved
  PROVE  /\ PostTarget \in Ids
         /\ kind.create # "upsert" => Gone(PostTarget)
<1>1. CASE kind.create = "upsert" /\ Taken
  BY <1>1 DEF PostTarget, Taken
<1>2. CASE kind.create = "upsert" /\ ~Taken
  <2>1. \E id \in Ids : Free(id)
    BY <1>2, IdsAssumption, NilAssumption DEF Taken, Free, NotSaved
  <2> QED
    BY <1>2, <2>1 DEF PostTarget
<1>3. CASE kind.create # "upsert"
  BY <1>3 DEF Postable, PostTarget, Free
<1> QED
  BY <1>1, <1>2, <1>3

-----------------------------------------------------------------------------
(* Two kinds of steps: those that leave the objects alone, and those that
   change one of them *)

SavedTyped == saved \in Saved /\ (saved.id = Nil => saved = NotSaved)
WantTyped == want \in Configuration /\ (want.main = Nil => want = Unwanted)
RunTyped ==
  /\ run \in [op: Steps \cup Ended, id: Ids \cup {Nil}]
  /\ run.id = Nil <=> run.op \notin {"readNew", "adopt"}
TroubleTyped == trouble \in 0..MaxTrouble

Known == {saved.id, run.id}

LEMMA TroubleType == ASSUME TypeOK, Trouble PROVE TroubleTyped'
BY TroubleAssumption DEF TypeOK, Trouble, TroubleTyped

\* The resource loses sight of nothing that is there.
LEMMA QuietStep ==
  ASSUME Sound, UNCHANGED <<setting, objects>>,
         WantTyped', SavedTyped', RunTyped', TroubleTyped', Purpose',
         Known' \subseteq Known \cup {Nil},
         \A id \in Known \cap Ids :
           ~Gone(id) => id \in Known' \/ kind.delete = "unchecked"
  PROVE  Sound'
<1>1. TypeOK'
  BY DEF Sound, TypeOK, WantTyped, SavedTyped, RunTyped, TroubleTyped, setting, Gone
<1>2. CreatedIsKept'
  BY DEF Sound, CreatedIsKept, Known, Gone, setting
<1>3. Own'
  BY NilAssumption DEF Sound, Own, Known, Live, setting
<1> QED
  BY <1>1, <1>2, <1>3 DEF Sound

LEMMA ObjectStep ==
  ASSUME Sound, UNCHANGED <<setting, want>>,
         SavedTyped', RunTyped', TroubleTyped', Purpose',
         NEW id \in Ids, NEW object \in Object,
         object.state = "none" => object = NoObject,
         objects' = [objects EXCEPT ![id] = object],
         \A other \in Ids \ {id} : other \in Known <=> other \in Known',
         object.state # "none" /\ object.owner = "here"
           => id \in Known' \/ kind.delete = "unchecked",
         kind.create = "answer" /\ object.state = "live" /\ id \in Known'
           => object.owner # "other"
  PROVE  Sound'
<1>1. /\ objects' \in [Ids -> Object]
      /\ objects'[id] = object
      /\ \A other \in Ids \ {id} : objects'[other] = objects[other]
  BY DEF Sound, TypeOK
<1>2. TypeOK'
  BY <1>1 DEF Sound, TypeOK, SavedTyped, RunTyped, TroubleTyped, setting, Gone
<1>3. CreatedIsKept'
  BY <1>1 DEF Sound, CreatedIsKept, Known, Gone, setting
<1>4. Own'
  BY <1>1 DEF Sound, Own, Known, Live, setting
<1> QED
  BY <1>2, <1>3, <1>4 DEF Sound

\* A step to an operation without an ID.
LEMMA GoesType ==
  ASSUME NEW op \in (Steps \cup Ended) \ {"readNew", "adopt"}, Goes(op)
  PROVE  RunTyped' /\ run' = [op |-> op, id |-> Nil]
BY DEF Goes, RunTyped

\* A step to an operation on an object that is not yet in the state.
LEMMA GoesToType ==
  ASSUME NEW op \in {"readNew", "adopt"}, NEW id \in Ids, run' = [op |-> op, id |-> id]
  PROVE  RunTyped'
BY NilAssumption DEF RunTyped, Steps

LEMMA NotSavedType == NotSaved \in Saved /\ NotSaved.id = Nil
BY DEF NotSaved, Saved

LEMMA BeginsType ==
  /\ CreateBegins \in {"list", "post"}
  /\ CreateBegins = "list" => kind.create = "adopt"
  /\ DeleteBegins \in {"check", "delete"}
BY DEF CreateBegins, DeleteBegins

LEMMA ForgetType ==
  ASSUME Forget, UNCHANGED setting
  PROVE  SavedTyped' /\ RunTyped' /\ Purpose' /\ saved'.id = Nil /\ run'.id = Nil
<1>1. PICK op \in {"list", "post", "done"} :
        Goes(op) /\ (op = "list" => kind.create = "adopt")
  BY BeginsType DEF Forget, Ends, Goes
<1>2. RunTyped' /\ run' = [op |-> op, id |-> Nil]
  BY <1>1, GoesType DEF Steps, Ended
<1> QED
  BY <1>1, <1>2, NotSavedType
     DEF Forget, SavedTyped, Purpose, Creating, Managing, setting

LEMMA EndsType ==
  ASSUME NEW how \in Ended, Ends(how)
  PROVE  RunTyped' /\ Purpose' /\ run'.id = Nil
<1>1. RunTyped' /\ run' = [op |-> how, id |-> Nil]
  BY GoesType DEF Ends, Ended
<1> QED
  BY <1>1 DEF Purpose, Creating, Managing, Ended

\* What an error leaves.
LEMMA ErrorSaved ==
  ASSUME Sound, saved' = AfterError, Ends("failed")
  PROVE  /\ SavedTyped' /\ RunTyped' /\ Purpose'
         /\ Known' \subseteq Known \cup {Nil}
         /\ \A id \in Ids : id \in Known <=> id \in Known'
<1>1. RunTyped' /\ Purpose' /\ run'.id = Nil
  BY EndsType DEF Ended
<1>2. SavedTyped'
  BY AfterErrorType DEF Sound, SavedTyped
<1>3. CASE run.op \in {"readNew", "adopt"}
  <2>1. saved'.id = run.id /\ saved.id = Nil
    BY <1>3, AfterErrorType, NotSavedType DEF Sound, Purpose, Creating
  <2> QED
    BY <1>1, <1>2, <2>1, NilAssumption DEF Known
<1>4. CASE run.op \notin {"readNew", "adopt"}
  <2>1. saved'.id = saved.id /\ run.id = Nil
    BY <1>4, AfterErrorType DEF Sound, TypeOK
  <2> QED
    BY <1>1, <1>2, <2>1, NilAssumption DEF Known
<1> QED
  BY <1>3, <1>4

LEMMA RefusedSound == ASSUME Sound, Refused PROVE Sound'
<1>1. WantTyped' /\ TroubleTyped'
  BY DEF Sound, Refused, TypeOK, WantTyped, TroubleTyped
<1> QED
  BY <1>1, ErrorSaved, QuietStep DEF Refused

-----------------------------------------------------------------------------
(* Steps that leave the objects alone *)

LEMMA QuietSound ==
  ASSUME Sound,
         \/ StartApply \/ Refresh \/ RefreshFindsNothing \/ Plan \/ List
         \/ PostRefused \/ FindsNothing \/ ReadNew \/ ReadNewFindsNothing
         \/ ReadUpdated \/ ReadUpdatedFindsNothing \/ WriteRefused
         \/ DeleteFindsNothing \/ DeleteRefused \/ Poll \/ EditConfig \/ NotAttempted
         \/ CallFails \/ ErrorIgnored
  PROVE  Sound'
<1> USE DEF Sound
<1>0. /\ WantTyped /\ SavedTyped /\ RunTyped /\ TroubleTyped
      /\ kind \in Profile
  BY KindType DEF TypeOK, WantTyped, SavedTyped, RunTyped, TroubleTyped
<1>1. CASE StartApply
  <2>1. PICK op \in {"refresh", "list", "post", "done"} :
          /\ Goes(op)
          /\ op = "refresh" => saved.id # Nil
          /\ op \in {"list", "post"} => saved.id = Nil
          /\ op = "list" => kind.create = "adopt"
    BY <1>1, BeginsType DEF StartApply, Ends, Goes
  <2>2. RunTyped' /\ run' = [op |-> op, id |-> Nil] /\ run.id = Nil
    BY <1>0, <1>1, <2>1, GoesType DEF Steps, Ended, StartApply, RunTyped
  <2>3. Purpose'
    BY <1>0, <1>1, <2>1, <2>2
       DEF StartApply, Purpose, Creating, Managing, setting, SavedTyped
  <2>4. WantTyped' /\ SavedTyped' /\ TroubleTyped' /\ UNCHANGED <<setting, objects>>
    BY <1>0, <1>1 DEF StartApply, WantTyped, SavedTyped, TroubleTyped
  <2> QED
    BY <1>1, <2>2, <2>3, <2>4, QuietStep DEF StartApply, Known
<1>2. CASE Refresh
  <2>1. saved.id \in Ids /\ objects[saved.id] \in Object /\ run.id = Nil
    BY <1>0, <1>2 DEF Refresh, Purpose, Managing, SavedTyped, Saved, TypeOK, RunTyped
  <2>2. saved' \in Saved /\ saved'.id = saved.id
    BY <1>0, <1>2, <2>1, ReadType DEF Refresh, SavedTyped
  <2>3. RunTyped' /\ run' = [op |-> "plan", id |-> Nil]
    BY <1>2, GoesType DEF Refresh, Steps, Ended
  <2>4. Purpose' /\ SavedTyped' /\ WantTyped' /\ TroubleTyped'
    BY <1>0, <1>2, <2>1, <2>2, <2>3, NilAssumption
       DEF Refresh, Purpose, Creating, Managing, SavedTyped, WantTyped, TroubleTyped
  <2> QED
    BY <1>2, <2>1, <2>2, <2>3, <2>4, QuietStep DEF Refresh, Known
<1>3. CASE RefreshFindsNothing
  <2>1. saved.id \in Ids /\ run.id = Nil /\ UNCHANGED <<setting, objects>>
        /\ WantTyped' /\ TroubleTyped' /\ Gone(saved.id)
    BY <1>0, <1>3 DEF RefreshFindsNothing, Purpose, Managing, SavedTyped, Saved,
                      RunTyped, WantTyped, TroubleTyped
  <2>2. CASE Forget
    BY <2>1, <2>2, ForgetType, QuietStep DEF Known
  <2>3. CASE /\ saved' = [saved EXCEPT !.main = Nil, !.extra = FALSE]
             /\ Goes("plan")
    <3>1. RunTyped' /\ run' = [op |-> "plan", id |-> Nil]
      BY <2>3, GoesType DEF Steps, Ended
    <3>2. saved' \in Saved /\ saved'.id = saved.id
      BY <1>0, <2>3 DEF SavedTyped, Saved
    <3>3. Purpose' /\ SavedTyped'
      BY <2>1, <3>1, <3>2, NilAssumption DEF Purpose, Creating, Managing, SavedTyped
    <3> QED
      BY <2>1, <3>1, <3>2, <3>3, QuietStep DEF Known
  <2>4. CASE UNCHANGED saved /\ Ends("failed")
    <3>1. RunTyped' /\ Purpose' /\ run'.id = Nil /\ SavedTyped'
      BY <1>0, <2>4, EndsType DEF Ended, SavedTyped
    <3> QED
      BY <2>1, <2>4, <3>1, QuietStep DEF Known
  <2> QED
    BY <1>3, <2>2, <2>3, <2>4 DEF RefreshFindsNothing, Forget
<1>4. CASE Plan
  <2>1. PICK op \in {"check", "delete", "update", "done"} : Goes(op)
    BY <1>4, BeginsType DEF Plan, Ends
  <2>2. RunTyped' /\ run' = [op |-> op, id |-> Nil] /\ run.id = Nil /\ saved.id # Nil
    BY <1>0, <1>4, <2>1, GoesType DEF Steps, Ended, Plan, RunTyped, Purpose, Managing
  <2>3. Purpose' /\ WantTyped' /\ SavedTyped' /\ TroubleTyped'
    BY <1>0, <1>4, <2>1, <2>2
       DEF Plan, Purpose, Creating, Managing, WantTyped, SavedTyped, TroubleTyped
  <2> QED
    BY <1>4, <2>2, <2>3, QuietStep DEF Plan, Known
<1>5. CASE List
  <2>1. saved = NotSaved /\ kind.create = "adopt" /\ run.id = Nil
        /\ UNCHANGED <<setting, objects, saved>>
        /\ WantTyped' /\ SavedTyped' /\ TroubleTyped'
    BY <1>0, <1>5 DEF List, Purpose, Creating, RunTyped, WantTyped, SavedTyped, TroubleTyped
  <2>2. ASSUME NEW id \in Ids, run' = [op |-> "adopt", id |-> id]
        PROVE  Sound'
    <3>1. RunTyped'
      BY <2>2, GoesToType
    <3>2. TypeOK'
      BY <2>1, <3>1 DEF TypeOK, WantTyped, SavedTyped, RunTyped, TroubleTyped, setting, Gone
    <3>3. Purpose' /\ CreatedIsKept' /\ Own'
      BY <2>1, <2>2, NotSavedType, NilAssumption
         DEF Purpose, Creating, Managing, CreatedIsKept, Own, setting, Gone
    <3> QED
      BY <3>2, <3>3
  <2>3. CASE Goes("post")
    <3>1. RunTyped' /\ run' = [op |-> "post", id |-> Nil]
      BY <2>3, GoesType DEF Steps, Ended
    <3>2. Purpose'
      BY <2>1, <3>1 DEF Purpose, Creating, Managing
    <3> QED
      BY <2>1, <3>1, <3>2, QuietStep DEF Known
  <2> QED
    BY <1>5, <2>2, <2>3 DEF List
<1>6. CASE NotAttempted \/ PostRefused \/ FindsNothing \/ WriteRefused \/ DeleteRefused
  BY <1>6, RefusedSound
     DEF NotAttempted, PostRefused, FindsNothing, WriteRefused, DeleteRefused
<1>7. CASE ReadNew
  <2>1. run.id \in Ids /\ objects[run.id] \in Object /\ saved.id = Nil
    BY <1>0, <1>7, NotSavedType DEF ReadNew, Purpose, Creating, RunTyped, TypeOK
  <2>2. saved' \in Saved /\ saved'.id = run.id
    BY <1>7, <2>1, CreatedType, ReadType DEF ReadNew
  <2>3. RunTyped' /\ Purpose' /\ run'.id = Nil
    BY <1>7, EndsType DEF ReadNew, Ended
  <2>4. SavedTyped' /\ WantTyped' /\ TroubleTyped'
    BY <1>0, <1>7, <2>1, <2>2, NilAssumption
       DEF ReadNew, SavedTyped, WantTyped, TroubleTyped
  <2> QED
    BY <1>7, <2>1, <2>2, <2>3, <2>4, NilAssumption, QuietStep DEF ReadNew, Known
<1>8. CASE ReadNewFindsNothing
  <2>1. saved.id = Nil /\ Gone(run.id) /\ Ends("failed")
        /\ UNCHANGED <<setting, objects>> /\ WantTyped' /\ TroubleTyped'
    BY <1>0, <1>8, NotSavedType
       DEF ReadNewFindsNothing, Purpose, Creating, WantTyped, TroubleTyped
  <2>2. CASE UNCHANGED saved
    <3>1. RunTyped' /\ Purpose' /\ run'.id = Nil /\ SavedTyped'
      BY <1>0, <2>1, <2>2, EndsType DEF Ended, SavedTyped
    <3> QED
      BY <2>1, <2>2, <3>1, NilAssumption, QuietStep DEF Known
  <2>3. CASE saved' = AfterError
    BY <2>1, <2>3, ErrorSaved, QuietStep
  <2> QED
    BY <1>8, <2>2, <2>3 DEF ReadNewFindsNothing
<1>9. CASE ReadUpdated
  <2>1. saved.id \in Ids /\ objects[saved.id] \in Object /\ run.id = Nil
    BY <1>0, <1>9 DEF ReadUpdated, Purpose, Managing, SavedTyped, Saved, TypeOK, RunTyped
  <2>2. saved' \in Saved /\ saved'.id = saved.id
    BY <1>9, <2>1, UpdatedType, ReadType DEF ReadUpdated
  <2>3. RunTyped' /\ Purpose' /\ run'.id = Nil
    BY <1>9, EndsType DEF ReadUpdated, Ended
  <2>4. SavedTyped' /\ WantTyped' /\ TroubleTyped'
    BY <1>0, <1>9, <2>1, <2>2, NilAssumption
       DEF ReadUpdated, SavedTyped, WantTyped, TroubleTyped
  <2> QED
    BY <1>9, <2>1, <2>2, <2>3, <2>4, QuietStep DEF ReadUpdated, Known
<1>10. CASE ReadUpdatedFindsNothing
  <2>1. run.id = Nil /\ Gone(saved.id) /\ Ends("failed")
        /\ UNCHANGED <<setting, objects>> /\ WantTyped' /\ TroubleTyped'
    BY <1>0, <1>10 DEF ReadUpdatedFindsNothing, RunTyped, WantTyped, TroubleTyped
  <2>2. CASE UNCHANGED saved
    <3>1. RunTyped' /\ Purpose' /\ run'.id = Nil /\ SavedTyped'
      BY <1>0, <2>1, <2>2, EndsType DEF Ended, SavedTyped
    <3> QED
      BY <2>1, <2>2, <3>1, QuietStep DEF Known
  <2>3. CASE saved' = AfterError
    BY <2>1, <2>3, ErrorSaved, QuietStep
  <2> QED
    BY <1>10, <2>2, <2>3 DEF ReadUpdatedFindsNothing
<1>11. CASE DeleteFindsNothing
  <2>1. run.id = Nil /\ Gone(saved.id) /\ WantTyped' /\ TroubleTyped'
    BY <1>0, <1>11 DEF DeleteFindsNothing, RunTyped, WantTyped, TroubleTyped
  <2> QED
    BY <1>11, <2>1, NilAssumption, ForgetType, QuietStep DEF DeleteFindsNothing, Known
<1>12. CASE Poll
  <2>1. run.id = Nil /\ UNCHANGED <<setting, objects>> /\ WantTyped' /\ TroubleTyped'
    BY <1>0, <1>12 DEF Poll, RunTyped, WantTyped, TroubleTyped
  <2>2. CASE Gone(saved.id) /\ Forget
    BY <2>1, <2>2, NilAssumption, ForgetType, QuietStep DEF Known
  <2>3. CASE Ends("failed") /\ UNCHANGED saved
    <3>1. RunTyped' /\ Purpose' /\ run'.id = Nil /\ SavedTyped'
      BY <1>0, <2>3, EndsType DEF Ended, SavedTyped
    <3> QED
      BY <2>1, <2>3, <3>1, QuietStep DEF Known
  <2> QED
    BY <1>12, <2>2, <2>3 DEF Poll
<1>13. CASE EditConfig
  <2>1. WantTyped'
    <3>1. want' \in Configurable \/ want' = Unwanted
      BY <1>13 DEF EditConfig
    <3>2. Extras \subseteq BOOLEAN
      BY DEF Extras
    <3>3. CASE want' \in Configurable
      BY <3>2, <3>3, NilAssumption DEF WantTyped, Configurable, Configuration
    <3>4. CASE want' = Unwanted
      BY <3>4 DEF WantTyped, Configuration, Unwanted
    <3> QED
      BY <3>1, <3>3, <3>4
  <2>2. /\ SavedTyped' /\ RunTyped' /\ TroubleTyped' /\ Purpose'
        /\ UNCHANGED <<setting, objects>>
    BY <1>0, <1>13, TroubleType
       DEF EditConfig, SavedTyped, RunTyped, Purpose, setting
  <2> QED
    BY <1>13, <2>1, <2>2, QuietStep DEF EditConfig, Known
<1>14. CASE CallFails
  <2>1. WantTyped' /\ TroubleTyped'
    BY <1>0, <1>14, TroubleType DEF CallFails, WantTyped
  <2> QED
    BY <1>14, <2>1, ErrorSaved, QuietStep DEF CallFails
<1>15. CASE ErrorIgnored
  <2>1. run.id = Nil /\ UNCHANGED <<setting, objects>> /\ WantTyped' /\ TroubleTyped'
    BY <1>0, <1>15, TroubleType DEF ErrorIgnored, Ignored, RunTyped, WantTyped
  <2>2. CASE Forget /\ kind.delete = "unchecked"
    BY <2>1, <2>2, NilAssumption, ForgetType, QuietStep DEF Known
  <2>3. CASE UNCHANGED saved /\ (\/ run.op = "list" /\ Goes("post")
                                 \/ run.op = "check" /\ Goes("delete"))
    <3>1. ASSUME NEW op \in {"post", "delete"}, Goes(op),
                 op = "post" => run.op = "list",
                 op = "delete" => run.op = "check"
          PROVE  Sound'
      <4>1. RunTyped' /\ run' = [op |-> op, id |-> Nil]
        BY <3>1, GoesType DEF Steps, Ended
      <4>2. Purpose' /\ SavedTyped'
        BY <1>0, <2>3, <3>1, <4>1 DEF Purpose, Creating, Managing, SavedTyped
      <4> QED
        BY <2>1, <2>3, <4>1, <4>2, QuietStep DEF Known
    <3> QED
      BY <2>3, <3>1
  <2> QED
    BY <1>15, <2>2, <2>3 DEF ErrorIgnored, Ignored
<1> QED
  BY <1>1, <1>2, <1>3, <1>4, <1>5, <1>6, <1>7, <1>8, <1>9, <1>10, <1>11, <1>12,
     <1>13, <1>14, <1>15

-----------------------------------------------------------------------------
(* Steps that change an object *)

LEMMA OwnerType ==
  ASSUME NEW object \in Object, NEW owner \in {"here", "unknown", "other"}
  PROVE  [object EXCEPT !.owner = owner] \in Object
BY DEF Object

\* What a deletion leaves of an object.
LEMMA RemainsType ==
  ASSUME TypeOK, NEW object \in Object
  PROVE  /\ Remains(object) \in Object
         /\ Remains(object).state = "none" => Remains(object) = NoObject
         /\ Remains(object).state # "live"
         /\ kind.delete # "polls" => Remains(object).state = "none"
BY DEF Remains, Object, NoObject

\* What an update, or an upsert of an object that is gone, makes.
LEMMA PutsType ==
  ASSUME Sound, Puts
  PROVE  \E object \in Object :
           /\ objects' = [objects EXCEPT ![saved.id] = object]
           /\ object.state = "live"
           /\ kind.create = "answer" => object.owner # "other"
<1>0. saved.id \in Ids /\ objects[saved.id] \in Object
  BY DEF Sound, TypeOK, Purpose, Managing, Puts, Saved
<1>1. CASE Live(saved.id)
  <2>1. objects[saved.id].owner # "other" \/ kind.create # "answer"
    BY <1>0, <1>1 DEF Sound, Own
  <2>2. Written(objects[saved.id]) \in Object
    BY <1>0, WrittenType DEF Sound
  <2> WITNESS Written(objects[saved.id]) \in Object
  <2> QED
    BY <1>0, <1>1, <2>1, WrittenType DEF Sound, Puts, Live
<1>2. CASE ~Live(saved.id)
  BY <1>2, MadeType DEF Sound, Puts
<1> QED
  BY <1>1, <1>2

LEMMA AdoptsType ==
  ASSUME Sound, Adopts
  PROVE  \E object \in Object :
           /\ objects' = [objects EXCEPT ![run.id] = object]
           /\ object.state = "live"
           /\ kind.create = "answer" => object.owner # "other"
<1>0. run.id \in Ids /\ objects[run.id] \in Object
  BY DEF Sound, TypeOK, Adopts
<1>1. objects[run.id].owner # "other" \/ kind.create # "answer"
  BY <1>0 DEF Sound, Own, Adopts
<1>2. Written(objects[run.id]) \in Object
  BY <1>0, WrittenType DEF Sound
<1> WITNESS Written(objects[run.id]) \in Object
<1> QED
  BY <1>0, <1>1, WrittenType DEF Sound, Adopts, Live

LEMMA ObjectSound ==
  ASSUME Sound,
         \/ Post \/ Find \/ Update \/ Adopt \/ Check \/ Delete \/ Disable
         \/ Crash \/ PostAnswerLost \/ WriteAnswerLost \/ DeleteAnswerLost
         \/ Vanish \/ Import \/ Console
  PROVE  Sound'
<1> USE DEF Sound
<1>0. /\ WantTyped /\ SavedTyped /\ RunTyped /\ TroubleTyped
      /\ kind \in Profile
  BY KindType DEF TypeOK, WantTyped, SavedTyped, RunTyped, TroubleTyped
<1>1. CASE Post
  <2> DEFINE id == PostTarget
             made == Made(IF kind.create = "byName" THEN "unknown" ELSE "here")
  <2>1. saved = NotSaved /\ saved.id = Nil /\ run.id = Nil
    BY <1>0, <1>1, NotSavedType DEF Post, Purpose, Creating, RunTyped
  <2>2. /\ id \in Ids /\ made \in Object /\ made.state = "live"
        /\ made.owner = IF kind.create = "byName" THEN "unknown" ELSE "here"
    BY <1>1, <2>1, PostTargetType, MadeType DEF Post
  <2>3. /\ objects' = [objects EXCEPT ![id] = made]
        /\ TroubleTyped' /\ UNCHANGED <<setting, want>>
    BY <1>0, <1>1 DEF Post, TroubleTyped
  <2> HIDE DEF id, made
  <2>4. CASE kind.create = "byName" /\ Goes("find") /\ UNCHANGED saved
    <3>1. RunTyped' /\ run' = [op |-> "find", id |-> Nil]
      BY <2>4, GoesType DEF Steps, Ended
    <3>2. Purpose' /\ SavedTyped'
      BY <1>0, <2>1, <2>3, <2>4, <3>1 DEF Purpose, Creating, Managing, SavedTyped, setting
    <3> QED
      BY <2>1, <2>2, <2>3, <2>4, <3>1, <3>2, ObjectStep DEF Known
  <2>5. CASE /\ kind.create # "byName"
             /\ run' = [op |-> "readNew", id |-> id] /\ UNCHANGED saved
    <3>1. RunTyped'
      BY <2>2, <2>5, GoesToType
    <3>2. Purpose' /\ SavedTyped'
      BY <1>0, <2>1, <2>5 DEF Purpose, Creating, Managing, SavedTyped
    <3>3. Known' = {Nil, id} /\ Known = {Nil}
      BY <2>1, <2>5 DEF Known
    <3> QED
      BY <2>2, <2>3, <2>5, <3>1, <3>2, <3>3, NilAssumption, ObjectStep
  <2>6. CASE /\ kind.create # "byName"
             /\ Ends("done") /\ saved' = Read(Created(id, FALSE), made)
    <3>1. RunTyped' /\ Purpose' /\ run'.id = Nil
      BY <2>6, EndsType DEF Ended
    <3>2. saved' \in Saved /\ saved'.id = id
      BY <2>2, <2>6, CreatedType, ReadType
    <3>3. SavedTyped'
      BY <2>2, <3>2, NilAssumption DEF SavedTyped
    <3>4. Known' = {Nil, id} /\ Known = {Nil}
      BY <2>1, <3>1, <3>2 DEF Known
    <3> QED
      BY <2>2, <2>3, <2>6, <3>1, <3>3, <3>4, NilAssumption, ObjectStep
  <2> QED
    BY <1>1, <2>4, <2>5, <2>6 DEF Post, id, made
<1>2. CASE Find
  <2>1. saved.id = Nil /\ run.id = Nil /\ kind.create = "byName"
        /\ SavedTyped' /\ TroubleTyped' /\ UNCHANGED <<setting, want>>
    BY <1>0, <1>2, NotSavedType
       DEF Find, Purpose, Creating, RunTyped, SavedTyped, TroubleTyped
  <2>2. PICK id \in Ids :
          /\ objects' = [objects EXCEPT ![id].owner = IF @ = "unknown" THEN "here" ELSE @]
          /\ run' = [op |-> "readNew", id |-> id]
    BY <1>2 DEF Find
  <2> DEFINE owner == IF objects[id].owner = "unknown" THEN "here" ELSE objects[id].owner
             object == [objects[id] EXCEPT !.owner = owner]
  <2>3. objects[id] \in Object /\ Live(id)
    BY <1>2, <2>2 DEF Find, TypeOK
  <2>4. owner \in {"here", "unknown", "other"} /\ object.owner = owner
        /\ objects' = [objects EXCEPT ![id] = object]
    BY <2>2, <2>3 DEF TypeOK, Object
  <2>5. object \in Object /\ object.state = "live"
    BY <2>3, <2>4, OwnerType DEF Live, Object
  <2>6. RunTyped'
    BY <2>2, GoesToType
  <2>7. Purpose' /\ Known' = {Nil, id} /\ Known = {Nil}
    BY <1>2, <2>1, <2>2 DEF Find, Purpose, Creating, Managing, Known
  <2> HIDE DEF owner, object
  <2> QED
    BY <2>1, <2>4, <2>5, <2>6, <2>7, NilAssumption, ObjectStep
<1>3. CASE Update
  <2>1. saved.id \in Ids /\ run.id = Nil
    BY <1>0, <1>3 DEF Update, Puts, Purpose, Managing, SavedTyped, Saved, RunTyped
  <2>2. PICK object \in Object :
          /\ objects' = [objects EXCEPT ![saved.id] = object]
          /\ object.state = "live"
          /\ kind.create = "answer" => object.owner # "other"
    BY <1>3, PutsType DEF Update
  <2>3. objects'[saved.id] \in Object
    BY <2>1, <2>2 DEF TypeOK
  <2>4. /\ SavedTyped' /\ RunTyped' /\ Purpose'
        /\ saved'.id = saved.id /\ run'.id = Nil
    <3>1. CASE Goes("readUpdated") /\ UNCHANGED saved
      <4>1. RunTyped' /\ run' = [op |-> "readUpdated", id |-> Nil]
        BY <3>1, GoesType DEF Steps, Ended
      <4> QED
        BY <1>0, <2>1, <3>1, <4>1, NilAssumption
           DEF Purpose, Creating, Managing, SavedTyped
    <3>2. CASE Ends("done") /\ saved' = Read(Updated, objects'[saved.id])
      <4>1. saved' \in Saved /\ saved'.id = saved.id
        BY <2>3, <3>2, UpdatedType, ReadType
      <4> QED
        BY <2>1, <3>2, <4>1, NilAssumption, EndsType DEF Ended, SavedTyped
    <3> QED
      BY <1>3, <3>1, <3>2 DEF Update
  <2>5. TroubleTyped' /\ UNCHANGED <<setting, want>>
    BY <1>0, <1>3 DEF Update, TroubleTyped
  <2> QED
    BY <2>1, <2>2, <2>4, <2>5, ObjectStep DEF Known
<1>4. CASE Adopt
  <2>1. PICK object \in Object :
          /\ objects' = [objects EXCEPT ![run.id] = object]
          /\ object.state = "live"
          /\ kind.create = "answer" => object.owner # "other"
    BY <1>4, AdoptsType DEF Adopt
  <2>2. run.id \in Ids /\ saved = NotSaved /\ run' = [op |-> "readNew", id |-> run.id]
    BY <1>0, <1>4 DEF Adopt, Adopts, Purpose, Creating, TypeOK, Steps, Ended
  <2>3. RunTyped'
    BY <2>2, GoesToType
  <2>4. /\ Purpose' /\ SavedTyped' /\ TroubleTyped' /\ UNCHANGED <<setting, want>>
        /\ Known' = Known
    BY <1>0, <1>4, <2>2
       DEF Adopt, Purpose, Creating, Managing, SavedTyped, TroubleTyped, Known
  <2> QED
    BY <2>1, <2>2, <2>3, <2>4, ObjectStep DEF Known
<1>5. CASE Check
  <2>1. saved.id \in Ids /\ objects[saved.id] \in Object /\ run.id = Nil
    BY <1>0, <1>5 DEF Check, Purpose, Managing, SavedTyped, Saved, TypeOK, RunTyped
  <2>2. WantTyped' /\ TroubleTyped' /\ UNCHANGED <<setting, want>>
    BY <1>0, <1>5 DEF Check, WantTyped, TroubleTyped
  <2>3. CASE Gone(saved.id) /\ Forget /\ UNCHANGED objects
    BY <2>1, <2>2, <2>3, NilAssumption, ForgetType, QuietStep DEF Known
  <2>4. CASE Forget /\ objects' = [objects EXCEPT ![saved.id].owner = "other"]
             /\ ~Gone(saved.id)
    <3> DEFINE object == [objects[saved.id] EXCEPT !.owner = "other"]
    <3>1. /\ object \in Object /\ object.owner = "other" /\ object.state # "none"
          /\ objects' = [objects EXCEPT ![saved.id] = object]
      BY <2>1, <2>4, OwnerType DEF Object, Gone, TypeOK
    <3>2. SavedTyped' /\ RunTyped' /\ Purpose' /\ Known' = {Nil} /\ Known = {Nil, saved.id}
      BY <2>1, <2>2, <2>4, ForgetType DEF Known
    <3> HIDE DEF object
    <3> QED
      BY <2>1, <2>2, <3>1, <3>2, NilAssumption, ObjectStep
  <2>5. CASE Goes("delete") /\ UNCHANGED <<objects, saved>>
    <3>1. RunTyped' /\ run' = [op |-> "delete", id |-> Nil]
      BY <2>5, GoesType DEF Steps, Ended
    <3>2. Purpose' /\ SavedTyped'
      BY <1>0, <2>1, <2>5, <3>1, NilAssumption DEF Purpose, Creating, Managing, SavedTyped
    <3> QED
      BY <2>1, <2>2, <2>5, <3>1, <3>2, QuietStep DEF Known
  <2> QED
    BY <1>5, <2>3, <2>4, <2>5 DEF Check
<1>6. ASSUME run.op = "delete", saved' \in {saved, NotSaved},
             SavedTyped', RunTyped', TroubleTyped', Purpose', run'.id = Nil,
             UNCHANGED <<setting, want>>,
             NEW object \in Object,
             object.state = "none" => object = NoObject,
             objects' = [objects EXCEPT ![saved.id] = object],
             saved' = NotSaved => object.state = "none" \/ object.owner = "other",
             object.state # "live"
      PROVE  Sound'
  <2>1. saved.id \in Ids /\ run.id = Nil /\ saved'.id \in {saved.id, Nil}
    BY <1>0, <1>6, NotSavedType DEF Purpose, Managing, SavedTyped, Saved, RunTyped
  <2>2. \A other \in Ids \ {saved.id} : other \in Known <=> other \in Known'
    BY <1>6, <2>1, NilAssumption DEF Known
  <2>3. object.state # "none" /\ object.owner = "here" => saved.id \in Known'
    BY <1>6, <2>1 DEF Known
  <2> QED
    BY <1>6, <2>1, <2>2, <2>3, ObjectStep
<1>7. CASE Delete
  <2> DEFINE object == Remains(objects[saved.id])
  <2>1. saved.id \in Ids /\ objects[saved.id] \in Object /\ run.op = "delete"
    BY <1>0, <1>7 DEF Delete, Purpose, Managing, SavedTyped, Saved, TypeOK
  <2>2. /\ object \in Object
        /\ object.state = "none" => object = NoObject
        /\ object.state # "live"
        /\ kind.delete # "polls" => object.state = "none"
    BY <2>1, RemainsType
  <2>3. /\ objects' = [objects EXCEPT ![saved.id] = object]
        /\ TroubleTyped' /\ UNCHANGED <<setting, want>>
    BY <1>0, <1>7 DEF Delete, TroubleTyped
  <2> HIDE DEF object
  <2>4. CASE kind.delete = "polls" /\ Goes("poll") /\ UNCHANGED saved
    <3>1. RunTyped' /\ run' = [op |-> "poll", id |-> Nil]
      BY <2>4, GoesType DEF Steps, Ended
    <3>2. SavedTyped' /\ Purpose' /\ saved' # NotSaved
      BY <1>0, <2>1, <2>4, <3>1, NilAssumption, NotSavedType
         DEF Purpose, Creating, Managing, SavedTyped
    <3> QED
      BY <1>6, <2>1, <2>2, <2>3, <2>4, <3>1, <3>2
  <2>5. CASE kind.delete # "polls" /\ Forget
    <3>1. SavedTyped' /\ RunTyped' /\ Purpose' /\ run'.id = Nil /\ saved' = NotSaved
      BY <2>3, <2>5, ForgetType DEF Forget
    <3> QED
      BY <1>6, <2>1, <2>2, <2>3, <2>5, <3>1
  <2> QED
    BY <1>7, <2>4, <2>5 DEF Delete, Deleted
<1>8. CASE Disable
  <2> DEFINE object == [objects[saved.id] EXCEPT !.owner = "other"]
  <2>1. saved.id \in Ids /\ objects[saved.id] \in Object /\ run.id = Nil
    BY <1>0, <1>8 DEF Disable, Purpose, Managing, SavedTyped, Saved, TypeOK, RunTyped
  <2>2. /\ object \in Object /\ object.owner = "other" /\ object.state # "none"
        /\ objects' = [objects EXCEPT ![saved.id] = object]
        /\ TroubleTyped' /\ UNCHANGED <<setting, want>>
    BY <1>0, <1>8, <2>1, OwnerType DEF Disable, Object, Gone, TypeOK, TroubleTyped
  <2>3. SavedTyped' /\ RunTyped' /\ Purpose' /\ Known' = {Nil} /\ Known = {Nil, saved.id}
    BY <1>8, <2>1, <2>2, ForgetType DEF Disable, Known
  <2> HIDE DEF object
  <2> QED
    BY <2>1, <2>2, <2>3, NilAssumption, ObjectStep
<1>9. CASE Crash
  <2>1. /\ SavedTyped' /\ WantTyped' /\ TroubleTyped' /\ UNCHANGED <<setting, want, saved>>
        /\ RunTyped' /\ Purpose' /\ run'.id = Nil
    BY <1>0, <1>9, EndsType, TroubleType DEF Crash, SavedTyped, WantTyped, Ended
  <2>2. CASE run.id = Nil
    <3>1. objects' = objects
      BY <1>9, <2>2, NilAssumption DEF Crash, TypeOK
    <3> QED
      BY <2>1, <2>2, <3>1, QuietStep DEF Known
  <2>3. CASE run.id # Nil
    <3> DEFINE object == IF objects[run.id].owner = "here"
                         THEN [objects[run.id] EXCEPT !.owner = "unknown"]
                         ELSE objects[run.id]
    <3>1. run.id \in Ids /\ objects[run.id] \in Object /\ saved.id = Nil
      BY <1>0, <2>3, NotSavedType DEF RunTyped, TypeOK, Purpose, Creating
    <3>2. object \in Object /\ object.owner # "here"
      BY <3>1, OwnerType DEF Object
    <3>3. objects' = [objects EXCEPT ![run.id] = object]
      BY <1>9, <3>1 DEF Crash, TypeOK
    <3>4. object.state = "none" => object = NoObject
      <4> SUFFICES ASSUME object.state = "none" PROVE object = NoObject
        OBVIOUS
      <4>1. objects[run.id].state = "none"
        BY <3>1 DEF Object
      <4>2. objects[run.id] = NoObject
        BY <3>1, <4>1 DEF TypeOK, Gone
      <4> QED
        BY <4>2 DEF NoObject
    <3>5. Known' = {Nil} /\ Known = {Nil, run.id}
      BY <2>1, <3>1 DEF Known
    <3> HIDE DEF object
    <3> QED
      BY <2>1, <3>1, <3>2, <3>3, <3>4, <3>5, NilAssumption, ObjectStep
  <2> QED
    BY <2>2, <2>3
<1>10. CASE PostAnswerLost
  <2>1. saved = NotSaved /\ saved.id = Nil /\ run.id = Nil
    BY <1>0, <1>10, NotSavedType DEF PostAnswerLost, Purpose, Creating, RunTyped
  <2>2. /\ PostTarget \in Ids /\ Made("unknown") \in Object
        /\ Made("unknown").state = "live" /\ Made("unknown").owner = "unknown"
    BY <1>10, <2>1, PostTargetType, MadeType DEF PostAnswerLost
  <2>3. /\ objects' = [objects EXCEPT ![PostTarget] = Made("unknown")]
        /\ SavedTyped' /\ TroubleTyped' /\ UNCHANGED <<setting, want, saved>>
        /\ RunTyped' /\ Purpose' /\ run'.id = Nil
    BY <1>0, <1>10, EndsType, TroubleType DEF PostAnswerLost, SavedTyped, Ended
  <2> QED
    BY <2>1, <2>2, <2>3, ObjectStep DEF Known
<1>11. CASE WriteAnswerLost
  <2>1. /\ SavedTyped' /\ RunTyped' /\ Purpose' /\ TroubleTyped'
        /\ \A id \in Ids : id \in Known <=> id \in Known'
        /\ UNCHANGED <<setting, want>>
    BY <1>0, <1>11, ErrorSaved, TroubleType DEF WriteAnswerLost
  <2>2. PICK id \in Known \cap Ids, object \in Object :
          /\ objects' = [objects EXCEPT ![id] = object]
          /\ object.state = "live"
          /\ kind.create = "answer" => object.owner # "other"
    <3>1. CASE Puts
      <4>1. saved.id \in Known \cap Ids
        BY <1>0, <3>1 DEF Puts, Purpose, Managing, SavedTyped, Saved, Known
      <4> QED
        BY <3>1, <4>1, PutsType
    <3>2. CASE Adopts
      <4>1. run.id \in Known \cap Ids
        BY <1>0, <3>2 DEF Adopts, RunTyped, Known
      <4> QED
        BY <3>2, <4>1, AdoptsType
    <3> QED
      BY <1>11, <3>1, <3>2 DEF WriteAnswerLost
  <2> QED
    BY <2>1, <2>2, ObjectStep
<1>12. CASE DeleteAnswerLost
  <2> DEFINE object == Remains(objects[saved.id])
  <2>1. saved.id \in Ids /\ objects[saved.id] \in Object /\ saved # NotSaved
    BY <1>0, <1>12, NotSavedType
       DEF DeleteAnswerLost, Purpose, Managing, SavedTyped, Saved, TypeOK
  <2>2. /\ object \in Object
        /\ object.state = "none" => object = NoObject
        /\ object.state # "live"
    BY <2>1, RemainsType
  <2>3. /\ objects' = [objects EXCEPT ![saved.id] = object] /\ run.op = "delete"
        /\ SavedTyped' /\ TroubleTyped' /\ UNCHANGED <<setting, want, saved>>
        /\ RunTyped' /\ Purpose' /\ run'.id = Nil
    BY <1>0, <1>12, EndsType, TroubleType DEF DeleteAnswerLost, SavedTyped, Ended
  <2> HIDE DEF object
  <2> QED
    BY <1>6, <2>1, <2>2, <2>3
<1>13. ASSUME NEW id \in Ids, NEW object \in Object,
              object.state = "none" => object = NoObject,
              objects' = [objects EXCEPT ![id] = object],
              UNCHANGED <<setting, want, saved, run>>, TroubleTyped',
              object.state # "none" => object.owner = objects[id].owner,
              object.state # "none" <=> objects[id].state # "none",
              object.state = "live" => objects[id].state = "live"
       PROVE  Sound'
  <2>1. SavedTyped' /\ RunTyped' /\ Purpose' /\ Known' = Known
    BY <1>0, <1>13 DEF SavedTyped, RunTyped, Purpose, Known, setting
  <2>2. object.state # "none" /\ object.owner = "here"
          => id \in Known' \/ kind.delete = "unchecked"
    BY <1>13, <2>1 DEF CreatedIsKept, Known, Gone
  <2>3. kind.create = "answer" /\ object.state = "live" /\ id \in Known'
          => object.owner # "other"
    BY <1>13, <2>1 DEF Own, Known, Live
  <2> QED
    BY <1>13, <2>1, <2>2, <2>3, ObjectStep
<1>14. ASSUME NEW id \in Ids, NEW object \in Object,
              object.state = "none" => object = NoObject,
              objects' = [objects EXCEPT ![id] = object],
              UNCHANGED <<setting, want, saved, run>>, TroubleTyped',
              object.state # "none" => object.owner = "other" /\ id \notin Known
       PROVE  Sound'
  <2>1. SavedTyped' /\ RunTyped' /\ Purpose' /\ Known' = Known
    BY <1>0, <1>14 DEF SavedTyped, RunTyped, Purpose, Known, setting
  <2> QED
    BY <1>14, <2>1, ObjectStep
<1>15. CASE Vanish
  <2>1. NoObject \in Object /\ NoObject.state = "none"
    BY DEF NoObject, Object
  <2> QED
    BY <1>0, <1>14, <1>15, <2>1 DEF Vanish, TroubleTyped
<1>16. CASE Import
  <2>1. saved.id = Nil /\ run.id = Nil /\ TroubleTyped'
        /\ UNCHANGED <<setting, want, run>>
    BY <1>0, <1>16, NotSavedType, TroubleType DEF Import, RunTyped, Ended
  <2>2. PICK id \in Ids :
          /\ Live(id)
          /\ objects' = [objects EXCEPT ![id].owner = "here"]
          /\ saved' = [id |-> id, main |-> objects[id].main, extra |-> objects[id].extra,
                       blank |-> kind.blank /\ ~objects[id].extra,
                       locked |-> objects[id].locked /\ kind.delete = "disables",
                       tainted |-> FALSE]
    BY <1>16 DEF Import
  <2> DEFINE object == [objects[id] EXCEPT !.owner = "here"]
             blank == kind.blank /\ ~objects[id].extra
             locked == objects[id].locked /\ kind.delete = "disables"
  <2>3. objects[id] \in Object
    BY DEF TypeOK
  <2>4. /\ object \in Object /\ object.owner = "here" /\ object.state = "live"
        /\ objects' = [objects EXCEPT ![id] = object]
    BY <2>2, <2>3, OwnerType DEF Object, Live, TypeOK
  <2>5. locked \in BOOLEAN /\ blank \in BOOLEAN
    BY Zenon
  <2> HIDE DEF object, locked, blank
  <2>6. saved' \in Saved /\ saved'.id = id
    <3>1. saved' = [id |-> id, main |-> objects[id].main, extra |-> objects[id].extra,
                    blank |-> blank, locked |-> locked, tainted |-> FALSE]
      BY <2>2 DEF locked, blank
    <3> QED
      BY <2>3, <2>5, <3>1 DEF Saved, Object
  <2>7. SavedTyped' /\ RunTyped' /\ Purpose' /\ Known' = {id, Nil} /\ Known = {Nil}
    BY <1>0, <1>16, <2>1, <2>6, NilAssumption
       DEF Import, SavedTyped, RunTyped, Purpose, Creating, Managing, Known, Ended
  <2> QED
    BY <2>1, <2>4, <2>7, NilAssumption, ObjectStep
<1>17. CASE Console
  <2>1. TroubleTyped' /\ UNCHANGED <<setting, want, saved, run>>
    BY <1>17, TroubleType DEF Console
  <2>2. CASE Appears
    <3> DEFINE id == CHOOSE id \in Ids : Free(id) /\ id # run.id
    <3>1. id \in Ids /\ Free(id) /\ id # run.id
      BY <2>2 DEF Appears
    <3>2. PICK object \in Foreigners : objects' = [objects EXCEPT ![id] = object]
      BY <2>2 DEF Appears
    <3> HIDE DEF id
    <3>3. object \in Object /\ object.owner = "other" /\ object.state = "live"
      <4>1. PICK main \in Mains, extra \in Extras, locked \in Lockable :
              object = Foreign(main, extra, locked)
        BY <3>2 DEF Foreigners
      <4>2. extra \in BOOLEAN /\ locked \in BOOLEAN
        BY DEF Extras, Lockable
      <4> QED
        BY <4>1, <4>2 DEF Foreign, Object
    <3> QED
      BY <1>14, <2>1, <3>1, <3>2, <3>3 DEF Free, Known
  <2>3. CASE Changes
    <3>1. PICK id \in Ids, main \in Mains, extra \in Extras :
            /\ Live(id)
            /\ objects' = [objects EXCEPT ![id].main = main, ![id].extra = extra]
      BY <2>3 DEF Changes
    <3> DEFINE object == [objects[id] EXCEPT !.main = main, !.extra = extra]
    <3>2. extra \in BOOLEAN /\ objects[id] \in Object
      BY DEF Extras, TypeOK
    <3>3. /\ object \in Object /\ object.owner = objects[id].owner
          /\ object.state = objects[id].state /\ object.state = "live"
      BY <3>1, <3>2 DEF Object, Live
    <3>4. objects' = [objects EXCEPT ![id] = object]
      BY <3>1 DEF TypeOK
    <3> HIDE DEF object
    <3> QED
      BY <1>13, <2>1, <3>3, <3>4
  <2>4. CASE ChangesDefault
    <3>1. PICK id \in Ids :
            Live(id) /\ objects' = [objects EXCEPT ![id].locked = ~@]
      BY <2>4 DEF ChangesDefault
    <3> DEFINE object == [objects[id] EXCEPT !.locked = ~objects[id].locked]
    <3>2. objects[id] \in Object
      BY DEF TypeOK
    <3>3. /\ object \in Object /\ object.owner = objects[id].owner
          /\ object.state = objects[id].state /\ object.state = "live"
      BY <3>1, <3>2 DEF Object, Live
    <3>4. objects' = [objects EXCEPT ![id] = object]
      BY <3>1 DEF TypeOK
    <3> HIDE DEF object
    <3> QED
      BY <1>13, <2>1, <3>3, <3>4
  <2>5. CASE Disappears
    <3>1. NoObject \in Object /\ NoObject.state = "none"
      BY DEF NoObject, Object
    <3> QED
      BY <1>14, <2>1, <2>5, <3>1 DEF Disappears
  <2> QED
    BY <1>17, <2>2, <2>3, <2>4, <2>5 DEF Console
<1> QED
  BY <1>1, <1>2, <1>3, <1>4, <1>5, <1>7, <1>8, <1>9, <1>10, <1>11, <1>12, <1>15,
     <1>16, <1>17

LEMMA StepSound == ASSUME Sound, [Next]_vars PROVE Sound'
<1>1. CASE UNCHANGED vars
  BY <1>1 DEF Sound, vars, setting, TypeOK, Purpose, CreatedIsKept, Own, Gone, Live
<1>2. CASE Next
  BY <1>2, QuietSound, ObjectSound DEF Next, Terraform, Faults
<1> QED
  BY <1>1, <1>2

LEMMA AlwaysSound == Spec => []Sound
BY InitSound, StepSound, PTL DEF Spec

-----------------------------------------------------------------------------
(* Theorems *)

\* Every variable keeps its type: in particular nothing is in the state
\* without an ID, and an operation has an ID of its own only while a created
\* object is not yet in the state.
THEOREM Typing == Spec => []TypeOK
<1>1. Sound => TypeOK
  BY DEF Sound
<1> QED
  BY <1>1, AlwaysSound, PTL

\* An object whose ID the resource was told is not lost, whatever fails.
THEOREM Kept == Spec => []CreatedIsKept
<1>1. Sound => CreatedIsKept
  BY DEF Sound
<1> QED
  BY <1>1, AlwaysSound, PTL

\* Objects of others are out of reach of a resource that takes the ID of its
\* own from the answer to its creation.
THEOREM Apart == Spec => HandsOff
<1>1. ASSUME Sound, [Next]_vars, NEW id \in Ids, kind.create = "answer", run' # run,
             objects[id].owner = "other", Live(id)
      PROVE  objects'[id] = objects[id]
  <2>0. objects \in [Ids -> Object] /\ id \notin {saved.id, run.id}
    BY <1>1 DEF Sound, TypeOK, Own
  <2>1. CASE Post \/ PostAnswerLost
    <3>1. saved = NotSaved /\ Postable
      BY <1>1, <2>1 DEF Post, PostAnswerLost, Sound, Purpose, Creating
    <3>2. Gone(PostTarget)
      BY <1>1, <3>1, PostTargetType DEF Sound
    <3> QED
      BY <1>1, <2>0, <2>1, <3>2 DEF Post, PostAnswerLost, Gone, Live
  <2>2. CASE Find
    BY <1>1, <2>2 DEF Find, Sound, Purpose
  <2>3. CASE Update \/ WriteAnswerLost \/ Adopt
    BY <1>1, <2>0, <2>3 DEF Update, WriteAnswerLost, Adopt, Adopts, Puts
  <2>4. CASE Check \/ Delete \/ Disable \/ DeleteAnswerLost
    BY <1>1, <2>0, <2>4 DEF Check, Delete, Disable, DeleteAnswerLost
  <2>5. CASE Crash
    BY <1>1, <2>0, <2>5 DEF Crash
  <2>6. CASE Import \/ Console \/ Vanish \/ EditConfig \/ UNCHANGED vars
    BY <1>1, <2>6 DEF Import, Console, Vanish, EditConfig, vars
  <2>7. CASE \/ StartApply \/ Refresh \/ RefreshFindsNothing \/ Plan \/ List
             \/ PostRefused \/ FindsNothing \/ ReadNew \/ ReadNewFindsNothing
             \/ ReadUpdated \/ ReadUpdatedFindsNothing \/ WriteRefused
             \/ DeleteFindsNothing \/ DeleteRefused \/ Poll \/ NotAttempted
             \/ CallFails \/ ErrorIgnored
    BY <1>1, <2>7
       DEF StartApply, Refresh, RefreshFindsNothing, Plan, List, PostRefused,
           FindsNothing, ReadNew, ReadNewFindsNothing, ReadUpdated,
           ReadUpdatedFindsNothing, WriteRefused, DeleteFindsNothing,
           DeleteRefused, Poll, NotAttempted, CallFails, ErrorIgnored, Refused
  <2> QED
    BY <1>1, <2>1, <2>2, <2>3, <2>4, <2>5, <2>6, <2>7 DEF Next, Terraform, Faults
<1>2. ASSUME Sound, [Next]_vars
      PROVE  \A id \in Ids :
               kind.create = "answer" /\ run' # run /\ objects[id].owner = "other" /\ Live(id)
                 => objects'[id] = objects[id]
  BY <1>1, <1>2
<1> QED
  BY <1>2, AlwaysSound, PTL DEF Spec, HandsOff

-----------------------------------------------------------------------------
(* A configuration that is reached *)

\* The state is as planned if the attributes are.
LEMMA SameValues ==
  ASSUME saved \in Saved
  PROVE  saved = Updated <=>
           saved.main = want.main /\ saved.extra = want.extra /\ saved.blank = FALSE
<1>1. ASSUME saved = Updated
      PROVE  saved.main = want.main /\ saved.extra = want.extra /\ saved.blank = FALSE
  BY <1>1 DEF Saved, Updated
<1>2. ASSUME saved.main = want.main, saved.extra = want.extra, saved.blank = FALSE
      PROVE  saved = Updated
  <2>1. [saved EXCEPT !.main = saved.main, !.extra = saved.extra, !.blank = saved.blank]
          = saved
    BY DEF Saved
  <2> QED BY <1>2, <2>1 DEF Updated
<1> QED BY <1>1, <1>2

\* Reading an object that is as planned shows what is planned.
LEMMA ReadReached ==
  ASSUME TypeOK, NEW object \in Object, saved.main = want.main, saved.extra = want.extra,
         object.main = want.main, object.extra = want.extra, ~Blanked
  PROVE  LET read == Read(saved, object)
         IN  /\ read \in Saved /\ read.id = saved.id /\ read.tainted = saved.tainted
             /\ read.main = want.main /\ read.extra = want.extra
             /\ read.blank = FALSE
<1>1. Read(saved, object) \in Saved /\ Read(saved, object).id = saved.id
  BY ReadType DEF TypeOK
<1>2. kind.readsAll \in BOOLEAN /\ kind.readMain \in BOOLEAN
  BY KindType DEF Profile
<1>3. Read(saved, object).tainted = saved.tainted
  BY DEF Read, TypeOK, Saved
<1>4. Read(saved, object).main = want.main
  BY DEF Read, TypeOK, Saved
<1>5. saved.extra \in BOOLEAN BY DEF TypeOK, Saved
<1>6. Read(saved, object).extra = (object.extra \/ (saved.extra /\ ~kind.readsAll))
  BY DEF Read, TypeOK, Saved
<1>7. (object.extra \/ (saved.extra /\ ~kind.readsAll)) = want.extra
  BY <1>2, <1>5
<1>8. Read(saved, object).blank = (kind.blank /\ ~object.extra)
  BY DEF Read, TypeOK, Saved
<1>9. (kind.blank /\ ~object.extra) = FALSE
  BY DEF Blanked
<1> QED BY <1>1, <1>3, <1>4, <1>6, <1>7, <1>8, <1>9

There ==
  /\ saved.id \in Ids /\ ~saved.tainted /\ Live(saved.id)
  /\ saved.main = want.main /\ saved.extra = want.extra /\ saved.blank = FALSE
  /\ objects[saved.id].main = want.main /\ objects[saved.id].extra = want.extra

LEMMA ReachedMeans ==
  Sound => (Reached <=> IF want = Unwanted THEN saved.id = Nil ELSE There)
<1> SUFFICES ASSUME Sound
             PROVE  Reached <=> IF want = Unwanted THEN saved.id = Nil ELSE There
  OBVIOUS
<1>1. saved \in Saved /\ want.main \in Mains \cup {Nil} /\ want.extra \in BOOLEAN
  BY DEF Sound, TypeOK, Configuration
<1>2. saved.id \in Ids \cup {Nil} BY <1>1 DEF Saved
<1>3. saved = Updated <=>
        saved.main = want.main /\ saved.extra = want.extra /\ saved.blank = FALSE
  BY <1>1, SameValues
<1> QED BY <1>2, <1>3, NilAssumption DEF Reached, There

\* A configuration that is reached stays so, and applies of it find nothing to
\* do, except where Read shows an empty block that is not configured.
THEOREM Lasting == Spec => StaysReached
<1>1. ASSUME Sound, Sound', [Next]_vars, AtRest, trouble' = trouble, ~Blanked
      PROVE  AtRest'
  <2> USE DEF There
  <2>0. /\ objects \in [Ids -> Object] /\ trouble \in Nat /\ TypeOK
        /\ run.op \in Managing => saved.id # Nil
    BY <1>1, TroubleAssumption DEF Sound, TypeOK, Purpose
  <2>a. ~Trouble BY <1>1, <2>0 DEF Trouble
  <2>b. run.op \in Ended \cup {"refresh", "plan"} BY <1>1 DEF AtRest
  <2>c. IF want = Unwanted THEN saved.id = Nil ELSE There
    BY <1>1, ReachedMeans DEF AtRest
  <2>d. ASSUME (IF want = Unwanted THEN saved.id = Nil ELSE There)' PROVE Reached'
    <3>1. (Sound => (Reached <=> IF want = Unwanted THEN saved.id = Nil ELSE There))'
      BY ReachedMeans, PTL
    <3> QED BY <1>1, <2>d, <3>1
  <2>1. CASE StartApply
    <3>1. UNCHANGED <<objects, want, saved>> BY <2>1 DEF StartApply
    <3>2. Reached' BY <2>c, <2>d, <3>1 DEF Live
    <3>3. want # Unwanted => saved.id # Nil BY <2>c, NilAssumption
    <3>4. run'.op \in {"refresh", "done"}
      BY <2>1, <3>3 DEF StartApply, Goes, Ends
    <3> QED BY <3>2, <3>4 DEF AtRest, Ended
  <2>2. CASE Refresh
    <3>1. saved.id # Nil BY <2>0, <2>2 DEF Refresh, Managing
    <3>2. want # Unwanted /\ There BY <2>c, <3>1
    <3>3. UNCHANGED <<objects, want>> /\ saved' = Read(saved, objects[saved.id])
      BY <2>2 DEF Refresh
    <3>4. objects[saved.id] \in Object BY <2>0, <3>2
    <3>5. /\ saved'.id = saved.id /\ saved'.tainted = saved.tainted
          /\ saved'.main = want.main /\ saved'.extra = want.extra
          /\ saved'.blank = FALSE
      BY <1>1, <2>0, <3>2, <3>3, <3>4, ReadReached
    <3>6. Reached' BY <2>d, <3>2, <3>3, <3>5 DEF Live
    <3>7. run'.op = "plan" BY <2>2 DEF Refresh, Goes
    <3> QED BY <3>6, <3>7 DEF AtRest
  <2>3. CASE Plan
    <3>1. saved.id # Nil BY <2>0, <2>3 DEF Plan, Managing
    <3>2. want # Unwanted /\ There BY <2>c, <3>1
    <3>3. ~MustReplace BY <3>2 DEF MustReplace
    <3>4. saved = Updated BY <1>1, <3>2 DEF AtRest, Reached
    <3>5. run'.op = "done" /\ UNCHANGED <<objects, want, saved>>
      BY <2>3, <3>2, <3>3, <3>4 DEF Plan, Ends, Goes
    <3>6. Reached' BY <2>c, <2>d, <3>5 DEF Live
    <3> QED BY <3>5, <3>6 DEF AtRest, Ended
  <2>4. CASE RefreshFindsNothing
    <3>1. saved.id # Nil BY <2>0, <2>4 DEF RefreshFindsNothing, Managing
    <3> QED BY <2>c, <2>4, <3>1 DEF RefreshFindsNothing, Gone, Live
  <2>5. CASE Vanish
    <3>1. PICK id \in Ids : /\ objects[id].state = "going"
                            /\ objects' = [objects EXCEPT ![id] = NoObject]
      BY <2>5 DEF Vanish
    <3>2. UNCHANGED <<want, saved, run>> BY <2>5 DEF Vanish
    <3>3. There => id # saved.id BY <3>1 DEF Live
    <3>4. There => objects'[saved.id] = objects[saved.id] BY <2>0, <3>1, <3>3
    <3>5. Reached' BY <2>c, <2>d, <3>2, <3>4 DEF Live
    <3> QED BY <2>b, <3>2, <3>5 DEF AtRest
  <2>6. CASE UNCHANGED vars
    <3>1. UNCHANGED <<objects, want, saved, run>> BY <2>6 DEF vars
    <3>2. Reached' BY <2>c, <2>d, <3>1 DEF Live
    <3> QED BY <2>b, <3>1, <3>2 DEF AtRest
  <2>7. /\ ~List /\ ~Post /\ ~PostRefused /\ ~Find /\ ~FindsNothing /\ ~ReadNew
        /\ ~ReadNewFindsNothing /\ ~Update /\ ~ReadUpdated /\ ~ReadUpdatedFindsNothing
        /\ ~Adopt /\ ~WriteRefused /\ ~Check /\ ~Delete /\ ~Disable
        /\ ~DeleteFindsNothing /\ ~DeleteRefused /\ ~Poll /\ ~NotAttempted
    BY <2>b DEF Ended, List, Post, PostRefused, Find, FindsNothing, ReadNew,
       ReadNewFindsNothing, Update, Puts, ReadUpdated, ReadUpdatedFindsNothing,
       Adopt, Adopts, WriteRefused, Check, Delete, Disable, DeleteFindsNothing,
       DeleteRefused, Poll, NotAttempted
  <2>8. ~Faults /\ ~Import /\ ~EditConfig /\ ~Console
    BY <2>a DEF Faults, CallFails, ErrorIgnored, Crash, PostAnswerLost,
       WriteAnswerLost, DeleteAnswerLost, Import, EditConfig, Console
  <2> QED BY <1>1, <2>1, <2>2, <2>3, <2>4, <2>5, <2>6, <2>7, <2>8 DEF Next, Terraform
<1>2. Sound /\ Sound' /\ [Next]_vars
        => [AtRest /\ trouble' = trouble => AtRest' \/ Blanked]_vars
  BY <1>1
<1> QED BY <1>2, AlwaysSound, PTL DEF Spec, StaysReached
=============================================================================
