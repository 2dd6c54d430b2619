--------------------------- MODULE EnterpriseGroup ---------------------------
(***************************************************************************)
(* castai_enterprise_group (castai/resource_enterprise_group.go): a group  *)
(* of users together with its role bindings.  The bindings CAST AI answers *)
(* are matched with those of the state or the plan, by ID, or by name as   *)
(* long as there is no ID; the rest, made by others, are left out of the   *)
(* state.  Computed IDs of a list are kept by position, so that an update  *)
(* may send the ID of one binding with the name of another.                *)
(*                                                                         *)
(* CAST AI replaces all bindings of a group with those of an update.       *)
(***************************************************************************)
EXTENDS Naturals, Sequences, FiniteSets, Functions

CONSTANTS
  Ids, Names, Roles,
  Contents,         \* name, description and members of the group
  Configurations,   \* what users configure
  NoId,             \* a binding CAST AI has not answered yet
  NoBinding,        \* nothing has this ID
  NoGroup,          \* there is no group the state could mean
  Absent,           \* the resource is not in the configuration
  MaxTrouble        \* bound on the faults, interventions and edits

\* role: with its scopes.
Binding == [name: Names, role: Roles]
Values == [content: Contents, bindings: Seq(Binding)]
Tracked == [content: Contents, bindings: Seq([id: Ids \cup {NoId}, name: Names, role: Roles])]
Group == [content: Contents, bindings: [Ids -> Binding \cup {NoBinding}]]

\* What the parameters have to be.
GroupAssumption ==
  /\ Configurations \subseteq Values
  /\ NoId \notin Ids
  /\ NoBinding \notin Binding
  /\ NoGroup \notin Group
  /\ Absent \notin Configurations \cup Tracked
  /\ MaxTrouble \in Nat

VARIABLES
  remote,    \* CAST AI: the group, whether the first page of groups has it,
             \* whether there is a group nobody knows, and refuses to make a
             \* second group, or binding, of a name
  want,      \* the configuration
  saved,     \* the Terraform state
  run,       \* what Terraform is doing, and what it has read or planned
  quiet,     \* since the run began nobody else has changed anything
  trouble    \* how much trouble is still to come

vars == <<remote, want, saved, run, quiet, trouble>>

-----------------------------------------------------------------------------
(* State *)

Ended == {"idle", "done", "failed"}
Steps == {"group", "bindings", "plan", "create", "update", "delete"}
Run(pc, op, data) == [pc |-> pc, op |-> op, data |-> data]
Goes(pc) == run' = [run EXCEPT !.pc = pc]

TypeOK ==
  /\ remote \in [unique: BOOLEAN, orphan: BOOLEAN, listed: BOOLEAN,
                 group: Group \cup {NoGroup}]
  /\ want \in Configurations \cup {Absent}
  /\ saved \in Tracked \cup {Absent}
  /\ run \in [pc: Ended \cup Steps, op: {"none", "create", "update", "delete"},
              data: Tracked \cup {Absent}]
  /\ quiet \in BOOLEAN
  /\ trouble \in 0..MaxTrouble

Init ==
  /\ remote \in [unique: BOOLEAN, orphan: {FALSE}, listed: {TRUE}, group: {NoGroup}]
  /\ want \in Configurations
  /\ saved = Absent
  /\ run = Run("idle", "none", Absent)
  /\ quiet = TRUE
  /\ trouble = MaxTrouble

Trouble ==
  /\ trouble > 0
  /\ trouble' = trouble - 1

Exists == remote.group # NoGroup
NoBindings == [id \in Ids |-> NoBinding]

\* The IDs of bindings that are there.
Bound(bindings) == {id \in Ids : bindings[id] # NoBinding}
Fresh == Ids \ (IF Exists THEN Bound(remote.group.bindings) ELSE {})

-----------------------------------------------------------------------------
(* Between the lists *)

\* The binding an entry of the state or the plan means.
Matching(entry, bindings) ==
  IF entry.id = NoId THEN {id \in Bound(bindings) : bindings[id].name = entry.name}
  ELSE {entry.id} \cap Bound(bindings)

\* The nth of some places in a list.
Nth(places, n) == CHOOSE i \in places : Cardinality({j \in places : j <= i}) = n

\* The entries whose binding is there, in their order, with what is there now.
\* (The places are bound to a name so that TLC finds them once.)
Known(entries, bindings) ==
  LET there == {i \in DOMAIN entries : Matching(entries[i], bindings) # {}}
      Id(i) == CHOOSE id \in Matching(entries[i], bindings) : TRUE
      At(places) == [n \in 1..Cardinality(places) |->
        LET id == Id(Nth(places, n))
        IN  [id |-> id, name |-> bindings[id].name, role |-> bindings[id].role]]
  IN  CHOOSE known \in {At(places) : places \in {there}} : TRUE

Shown(data, group) ==
  [content |-> group.content, bindings |-> Known(data.bindings, group.bindings)]

\* The planned list: as configured, with the IDs the state has at the places.
Planned ==
  [content |-> want.content,
   bindings |->
     [i \in DOMAIN want.bindings |->
        [id |-> IF saved # Absent /\ i \in DOMAIN saved.bindings THEN saved.bindings[i].id
                ELSE NoId,
         name |-> want.bindings[i].name, role |-> want.bindings[i].role]]]

InPlan ==
  /\ saved.content = want.content
  /\ DOMAIN saved.bindings = DOMAIN want.bindings
  /\ \A i \in DOMAIN want.bindings :
       /\ saved.bindings[i].name = want.bindings[i].name
       /\ saved.bindings[i].role = want.bindings[i].role

-----------------------------------------------------------------------------
(* What the calls do at CAST AI *)

\* Two bindings of one name.
Twins(entries) ==
  \E i, j \in DOMAIN entries : i # j /\ entries[i].name = entries[j].name

\* Bindings sent with an ID keep it, the others get a new one.
Given(entries) ==
  {ids \in [DOMAIN entries -> Ids] : \A i, j \in DOMAIN entries :
     /\ entries[i].id # NoId => ids[i] = entries[i].id
     /\ entries[i].id = NoId => ids[i] \in Fresh /\ (i # j => ids[i] # ids[j])}

\* Of two entries with one ID the last one counts.
Replaced(data, ids) ==
  [content |-> data.content,
   bindings |->
     [id \in Ids |->
        IF id \notin Range(ids) THEN NoBinding
        ELSE LET last == CHOOSE i \in DOMAIN ids :
                           ids[i] = id /\ \A j \in DOMAIN ids : ids[j] = id => j <= i
             IN  [name |-> data.bindings[last].name, role |-> data.bindings[last].role]]]

\* IDs CAST AI does not know are refused.
Accepts(entries) ==
  /\ remote.unique => ~Twins(entries)
  /\ \A i \in DOMAIN entries : entries[i].id \notin Fresh
  /\ Given(entries) # {}

After(data) == Replaced(data, CHOOSE ids \in Given(data.bindings) : TRUE)

\* A group made before and not known to the state may be in the way.
CanCreate == (remote.unique => ~remote.orphan) /\ Accepts(Planned.bindings)

Create ==
  /\ run.pc = "create"
  /\ CanCreate
  /\ remote' = [remote EXCEPT !.group = After(Planned)]

\* Mutant: the bindings are sent without the IDs they have.
Sent_NoIds ==
  [run.data EXCEPT !.bindings =
     [i \in DOMAIN run.data.bindings |-> [run.data.bindings[i] EXCEPT !.id = NoId]]]

Sent == run.data

CanUpdate == Exists /\ Accepts(Sent.bindings)

Update ==
  /\ run.pc = "update"
  /\ CanUpdate
  /\ remote' = [remote EXCEPT !.group = After(Sent)]

Delete ==
  /\ run.pc = "delete"
  /\ Exists
  /\ remote' = [remote EXCEPT !.group = NoGroup]

\* The group is there, and no state means it any more.
Orphaned(after) == [after EXCEPT !.group = NoGroup, !.orphan = TRUE]

-----------------------------------------------------------------------------
(* Refresh and plan *)

StartApply ==
  /\ run.pc \in Ended
  /\ run' = IF saved # Absent THEN Run("group", "none", Absent)
            ELSE IF want # Absent THEN Run("create", "create", Absent)
            ELSE Run("done", "none", Absent)
  /\ quiet' = TRUE
  /\ UNCHANGED <<remote, want, saved, trouble>>

\* Two lists, one after the other: of the groups and of the bindings.
ReadGroup ==
  /\ run.pc = "group"
  /\ Exists /\ remote.listed
  /\ run' = Run("bindings", "none", [saved EXCEPT !.content = remote.group.content])
  /\ UNCHANGED <<remote, want, saved, quiet, trouble>>

\* Of the list of groups there is only the first page.
ReadGroupMissing ==
  /\ run.pc = "group"
  /\ ~(Exists /\ remote.listed)
  /\ saved' = Absent
  /\ run' = IF want = Absent THEN Run("done", "none", Absent)
            ELSE Run("create", "create", Absent)
  /\ remote' = IF Exists THEN Orphaned(remote) ELSE remote
  /\ UNCHANGED <<want, quiet, trouble>>

\* There are no bindings of a group that has gone meanwhile.
ReadBindings ==
  /\ run.pc = "bindings"
  /\ LET there == IF Exists THEN remote.group.bindings ELSE NoBindings
     IN  saved' = [run.data EXCEPT !.bindings = Known(saved.bindings, there)]
  /\ run' = Run("plan", "none", Absent)
  /\ UNCHANGED <<remote, want, quiet, trouble>>

Plan ==
  /\ run.pc = "plan"
  /\ run' = IF want = Absent THEN Run("delete", "delete", Absent)
            ELSE IF InPlan THEN Run("done", "none", Absent)
            ELSE Run("update", "update", Planned)
  /\ UNCHANGED <<remote, want, saved, quiet, trouble>>

-----------------------------------------------------------------------------
(* Create, update, delete *)

\* The answer is saved; it is not read again.
Created ==
  /\ Create
  /\ saved' = Shown(Planned, After(Planned))
  /\ Goes("done")
  /\ UNCHANGED <<want, quiet, trouble>>

Updated ==
  /\ Update
  /\ saved' = Shown(run.data, After(Sent))
  /\ Goes("done")
  /\ UNCHANGED <<want, quiet, trouble>>

Deleted ==
  /\ Delete
  /\ saved' = Absent
  /\ Goes("done")
  /\ UNCHANGED <<want, quiet, trouble>>

\* SDKv2 saves the planned values of an update that fails.
AfterError == IF run.op = "update" THEN run.data ELSE saved

Fails ==
  /\ saved' = AfterError
  /\ Goes("failed")

Refused ==
  /\ \/ run.pc = "create" /\ ~CanCreate
     \/ run.pc = "update" /\ ~CanUpdate
     \/ run.pc = "delete" /\ ~Exists
  /\ Fails
  /\ UNCHANGED <<remote, want, quiet, trouble>>

\* A call fails, or its answer is lost or lacks what it should have.
Stops ==
  /\ run.pc \in Steps
  /\ Trouble
  /\ \/ UNCHANGED remote
     \/ Update \/ Delete
     \/ run.pc = "create" /\ CanCreate
          /\ remote' = Orphaned([remote EXCEPT !.group = After(Planned)])
  /\ Fails
  /\ UNCHANGED <<want, quiet>>

\* The process dies after a call and before the state is written.
Killed ==
  /\ Trouble
  /\ \/ Update \/ Delete
     \/ run.pc = "create" /\ CanCreate
          /\ remote' = Orphaned([remote EXCEPT !.group = After(Planned)])
  /\ Goes("failed")
  /\ UNCHANGED <<want, saved, quiet>>

-----------------------------------------------------------------------------
(* Everybody else: there is no importer *)

EditConfig ==
  /\ Trouble
  /\ run.pc \in Ended
  /\ want' \in (Configurations \cup {Absent}) \ {want}
  /\ quiet' = FALSE
  /\ UNCHANGED <<remote, saved, run>>

\* The group is changed or deleted; a binding is made, changed or deleted; so
\* many groups are made that this one is on another page.
Console ==
  /\ Trouble
  /\ Exists
  /\ \/ remote' = [remote EXCEPT !.group = NoGroup]
     \/ \E content \in Contents : remote' = [remote EXCEPT !.group.content = content]
     \/ \E id \in Bound(remote.group.bindings), binding \in Binding \cup {NoBinding} :
          remote' = [remote EXCEPT !.group.bindings[id] = binding]
     \/ \E id \in Fresh, binding \in Binding :
          /\ \A other \in Fresh : id <= other
          /\ remote' = [remote EXCEPT !.group.bindings[id] = binding]
     \/ remote' = [remote EXCEPT !.listed = FALSE]
  /\ quiet' = FALSE
  /\ UNCHANGED <<want, saved, run>>

-----------------------------------------------------------------------------
Terraform ==
  \/ ReadGroup \/ ReadGroupMissing \/ ReadBindings \/ Plan
  \/ Created \/ Updated \/ Deleted \/ Refused

Next ==
  \/ StartApply \/ Terraform
  \/ Stops \/ Killed
  \/ EditConfig \/ Console

Spec == Init /\ [][Next]_vars

\* Terraform runs to its end and the user applies again and again.
FairSpec == Spec /\ WF_vars(StartApply) /\ WF_vars(Terraform)

-----------------------------------------------------------------------------
(* Properties *)

\* The group and each configured binding are as configured, and the state has
\* the ID of each.
Reached ==
  IF want = Absent THEN saved = Absent
  ELSE /\ saved # Absent /\ Exists
       /\ InPlan
       /\ remote.group.content = want.content
       /\ \A i \in DOMAIN want.bindings :
            /\ saved.bindings[i].id \in Ids
            /\ remote.group.bindings[saved.bindings[i].id] = want.bindings[i]

\* It is reached, and no run has begun to change anything.
AtRest ==
  /\ Reached /\ remote.listed
  /\ \/ run.pc \in Ended
     \/ /\ want # Absent
        /\ run \in {Run("group", "none", Absent), Run("bindings", "none", saved),
                   Run("plan", "none", Absent)}

\* Two entries of the state have one ID: they had one name when they were made.
SharedId ==
  saved # Absent /\ \E i, j \in DOMAIN saved.bindings :
    i # j /\ saved.bindings[i].id = saved.bindings[j].id

\* An apply that ends without an error, nobody having interfered, ends with the
\* group and its bindings as configured, also one that had nothing to do; and
\* an update leaves no other binding.  Excepted are bindings that share an ID.
SuccessIsReal ==
  run.pc = "done" /\ quiet /\ ~SharedId =>
    /\ Reached
    /\ run.op = "update" =>
         Bound(remote.group.bindings) = {saved.bindings[i].id : i \in DOMAIN want.bindings}

\* Bindings that share an ID share it in every later update, also when they
\* have got names of their own; a group nobody knows has the name; the group is
\* not found among the many there are, and made again and again.
Stuck ==
  \/ SharedId
  \/ want # Absent /\ Twins(want.bindings)
  \/ remote.unique /\ remote.orphan
  \/ ~remote.listed

\* Where repeated applies come to rest.
Settled == Reached \/ Stuck

\* After the trouble, repeated applies reach the configured group, whatever was
\* renamed, made or deleted among its bindings, but for the dead ends.
Convergence == <>[]Settled
=============================================================================
