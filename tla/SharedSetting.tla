--------------------------- MODULE SharedSetting ---------------------------
(***************************************************************************)
(* The resources that set the one value a cluster or an organization has:  *)
(*                                                                         *)
(*   node          castai_node_configuration_default                       *)
(*   edge          castai_edge_configuration_default                       *)
(*   order         castai_workload_scaling_policy_order                    *)
(*   reservations  castai_reservations                                     *)
(*                                                                         *)
(* Several workspaces may have one each, and the console is there too:     *)
(* whoever writes last wins, and the others see it at their next refresh.  *)
(* A value is the ID of the configuration marked as default, the order of  *)
(* all policies of the cluster, or the list of all reservations.           *)
(***************************************************************************)
EXTENDS Naturals

CONSTANTS
  Spaces,      \* the workspaces, each with one such resource
  Kinds,       \* the kinds of resources
  Settings,    \* the values that are configured
  Foreign,     \* a value nobody configures
  Empty,       \* no policies, no reservations; in a state: no ID
  Absent,      \* the resource is not in the configuration
  MaxTrouble   \* bound on the faults, interventions and edits

\* What the parameters have to be.
SettingAssumption ==
  /\ Kinds \subseteq {"node", "edge", "order", "reservations"}
  /\ Foreign \notin Settings
  /\ Empty \notin Settings \cup {Foreign}
  /\ Absent \notin Settings \cup {Foreign, Empty}
  /\ MaxTrouble \in Nat

VARIABLES
  remote,    \* the kind, the value at CAST AI, and those that cannot be set
             \* any more: a configuration or a policy was deleted
  want,      \* the configuration of each workspace
  saved,     \* the Terraform state of each
  run,       \* what Terraform is doing in each
  quiet,     \* since the run of a workspace began nobody else wrote the value
  trouble    \* how much trouble is still to come

vars == <<remote, want, saved, run, quiet, trouble>>

-----------------------------------------------------------------------------
(* State *)

AllValues == Settings \cup {Foreign, Empty}

\* Reservations that were imported come without the file.
NotSaved == [status |-> "none", value |-> Empty]
Saved(status, value) == [status |-> status, value |-> value]

Ended == {"idle", "done", "failed"}
Steps == {"refresh", "plan", "put", "read", "clear"}
Run(pc, op) == [pc |-> pc, op |-> op]
Goes(s, pc, op) == run' = [run EXCEPT ![s] = Run(pc, op)]
Saves(s, status, value) == saved' = [saved EXCEPT ![s] = Saved(status, value)]

TypeOK ==
  /\ remote \in [kind: Kinds, value: AllValues, gone: SUBSET Settings]
  /\ want \in [Spaces -> Settings \cup {Absent}]
  /\ saved \in [Spaces ->
       {NotSaved} \cup [status: {"ok", "tainted", "imported"}, value: AllValues]]
  /\ run \in [Spaces -> [pc: Ended \cup Steps, op: {"none", "create", "update", "delete"}]]
  /\ \A s \in Spaces : run[s].op = "update" => saved[s] # NotSaved
  /\ quiet \in [Spaces -> BOOLEAN]
  /\ trouble \in 0..MaxTrouble

Marker == remote.kind \in {"node", "edge"}

Init ==
  /\ \E kind \in Kinds :
       remote = [kind |-> kind, value |-> Foreign, gone |-> {}]
  /\ want \in [Spaces -> Settings]
  /\ saved = [s \in Spaces |-> NotSaved]
  /\ run = [s \in Spaces |-> Run("idle", "none")]
  /\ quiet = [s \in Spaces |-> TRUE]
  /\ trouble = MaxTrouble

Trouble ==
  /\ trouble > 0
  /\ trouble' = trouble - 1

-----------------------------------------------------------------------------
(* What the calls do at CAST AI *)

Accepted(s) == want[s] \notin remote.gone

\* Writing disturbs the others.
Writes(s, value) ==
  /\ remote' = [remote EXCEPT !.value = value]
  /\ quiet' = [t \in Spaces |-> quiet[t] /\ t = s]

Put(s) ==
  /\ run[s].pc = "put"
  /\ Accepted(s)
  /\ Writes(s, want[s])

\* The reservations are deleted by writing an empty list.
Clear(s) ==
  /\ run[s].pc = "clear"
  /\ Writes(s, Empty)

-----------------------------------------------------------------------------
(* Read *)

\* Mutant: a marker is read as it was saved.
ReadValue_Saved(id) == IF Marker THEN id ELSE remote.value

\* "If configuration is no longer default, we should trigger state change."
ReadValue(id) ==
  IF remote.kind # "node" THEN remote.value
  ELSE IF id = remote.value THEN id ELSE Empty

\* The Read of what is not new removes it from the state.
Forgotten(id) ==
  \/ remote.kind = "node" /\ id \in remote.gone
  \/ remote.kind = "edge" /\ id # remote.value
  \/ remote.kind = "order" /\ remote.value = Empty

StartApply(s) ==
  /\ run[s].pc \in Ended
  /\ IF saved[s] # NotSaved THEN Goes(s, "refresh", "none")
     ELSE IF want[s] # Absent THEN Goes(s, "put", "create")
     ELSE Goes(s, "done", "none")
  /\ quiet' = [quiet EXCEPT ![s] = TRUE]
  /\ UNCHANGED <<remote, want, saved, trouble>>

Refresh(s) ==
  /\ run[s].pc = "refresh"
  /\ ~Forgotten(saved[s].value)
  /\ Saves(s, saved[s].status, ReadValue(saved[s].value))
  /\ Goes(s, "plan", "none")
  /\ UNCHANGED <<remote, want, quiet, trouble>>

\* Mutant: what is not there any more, or not the default, is an error.
RefreshForgets_Fails(s) ==
  /\ run[s].pc = "refresh"
  /\ Forgotten(saved[s].value) \/ (remote.kind = "node" /\ saved[s].value = Empty)
  /\ Goes(s, "failed", "none")
  /\ UNCHANGED <<remote, want, saved, quiet, trouble>>

\* A marker without an ID asks for one all the same: it may be told there is
\* none.
RefreshForgets(s) ==
  /\ run[s].pc = "refresh"
  /\ Forgotten(saved[s].value) \/ (remote.kind = "node" /\ saved[s].value = Empty)
  /\ saved' = [saved EXCEPT ![s] = NotSaved]
  /\ IF want[s] = Absent THEN Goes(s, "done", "none") ELSE Goes(s, "put", "create")
  /\ UNCHANGED <<remote, want, quiet, trouble>>

-----------------------------------------------------------------------------
(* Plan and delete *)

\* Mutant: what was applied is planned again.
InSync_Never(s) == FALSE

InSync(s) ==
  saved[s].value = want[s] /\ saved[s].status = "ok"

\* A marker that has changed is replaced.
Destroys(s) ==
  want[s] = Absent \/ saved[s].status = "tainted" \/ (Marker /\ ~InSync(s))

\* Deleting a marker or an order does nothing at CAST AI.
Plan(s) ==
  /\ run[s].pc = "plan"
  /\ IF Destroys(s)
     THEN /\ Goes(s, IF remote.kind = "reservations" THEN "clear"
                     ELSE IF want[s] = Absent THEN "done" ELSE "put",
                  IF remote.kind = "reservations" \/ want[s] = Absent
                     THEN "delete" ELSE "create")
          /\ saved' = IF remote.kind = "reservations" THEN saved
                      ELSE [saved EXCEPT ![s] = NotSaved]
     ELSE /\ IF InSync(s) THEN Goes(s, "done", "none") ELSE Goes(s, "put", "update")
          /\ UNCHANGED saved
  /\ UNCHANGED <<remote, want, quiet, trouble>>

DeleteReservations(s) ==
  /\ Clear(s)
  /\ saved' = [saved EXCEPT ![s] = NotSaved]
  /\ IF want[s] = Absent THEN Goes(s, "done", "delete") ELSE Goes(s, "put", "create")
  /\ UNCHANGED <<want, trouble>>

-----------------------------------------------------------------------------
(* Create and update *)

\* The edge marker is saved without being read.
Set(s) ==
  /\ Put(s)
  /\ IF remote.kind = "edge"
     THEN Saves(s, "ok", want[s]) /\ Goes(s, "done", run[s].op)
     ELSE UNCHANGED saved /\ Goes(s, "read", run[s].op)
  /\ UNCHANGED <<want, trouble>>

\* A node configuration that was deleted in the meantime is an error; an order
\* that is empty is one if it was updated, as the Read removes it then.
ReadFails(s) ==
  \/ remote.kind = "node" /\ want[s] \in remote.gone
  \/ remote.kind = "order" /\ remote.value = Empty /\ run[s].op = "update"

ReadBack(s) ==
  /\ run[s].pc = "read"
  /\ ~ReadFails(s)
  /\ Saves(s, "ok", ReadValue(want[s]))
  /\ Goes(s, "done", run[s].op)
  /\ UNCHANGED <<remote, want, quiet, trouble>>

\* SDKv2 saves the planned values of an update that fails, and as tainted a
\* resource whose create fails after SetId.
AfterError(s) ==
  IF run[s].op = "update" THEN Saved("ok", want[s])
  ELSE IF run[s].op = "create" /\ run[s].pc = "read" THEN Saved("tainted", want[s])
  ELSE saved[s]

Fails(s) ==
  /\ saved' = [saved EXCEPT ![s] = AfterError(s)]
  /\ Goes(s, "failed", "none")

Refused(s) ==
  /\ run[s].pc = "put" /\ ~Accepted(s)
  /\ Fails(s)
  /\ UNCHANGED <<remote, want, quiet, trouble>>

ReadRefused(s) ==
  /\ run[s].pc = "read" /\ ReadFails(s)
  /\ IF remote.kind = "order"
     THEN UNCHANGED saved /\ Goes(s, "failed", "none")
     ELSE Fails(s)
  /\ UNCHANGED <<remote, want, quiet, trouble>>

\* A call fails or its answer is lost, or the process dies.
Stops(s) ==
  /\ run[s].pc \in Steps
  /\ Trouble
  /\ \/ UNCHANGED <<remote, quiet>>
     \/ Put(s)
     \/ Clear(s)
  /\ saved' \in {saved, [saved EXCEPT ![s] = AfterError(s)]}
  /\ Goes(s, "failed", "none")
  /\ UNCHANGED want

-----------------------------------------------------------------------------
(* Everybody else *)

\* terraform import; a node marker has no importer.  An edge marker is
\* imported if it is the default, an order if there are policies.
Import(s) ==
  /\ Trouble
  /\ remote.kind # "node"
  /\ remote.value = Empty => remote.kind = "reservations"
  /\ run[s].pc \in Ended
  /\ saved[s] = NotSaved
  /\ Saves(s, IF remote.kind = "reservations" THEN "imported" ELSE "ok", remote.value)
  /\ UNCHANGED <<remote, want, run, quiet>>

EditConfig(s) ==
  /\ Trouble
  /\ run[s].pc \in Ended
  /\ \E w \in (Settings \cup {Absent}) \ {want[s]} : want' = [want EXCEPT ![s] = w]
  /\ quiet' = [quiet EXCEPT ![s] = FALSE]
  /\ UNCHANGED <<remote, saved, run>>

\* In the console another value is set.
Console ==
  /\ Trouble
  /\ \E value \in AllValues \ (remote.gone \cup {remote.value}) :
       /\ value = Empty => ~Marker
       /\ remote' = [remote EXCEPT !.value = value]
  /\ quiet' = [s \in Spaces |-> FALSE]
  /\ UNCHANGED <<want, saved, run>>

\* A configuration that is not the default, or a policy, is deleted.
Removal ==
  /\ Trouble
  /\ remote.kind # "reservations"
  /\ \E value \in Settings \ remote.gone :
       /\ Marker => value # remote.value
       /\ remote' = [remote EXCEPT !.gone = @ \cup {value},
                                   !.value = IF @ = value THEN Foreign ELSE @]
  /\ quiet' = [s \in Spaces |-> FALSE]
  /\ UNCHANGED <<want, saved, run>>

-----------------------------------------------------------------------------
Terraform(s) ==
  \/ Refresh(s) \/ RefreshForgets(s) \/ Plan(s) \/ DeleteReservations(s)
  \/ Set(s) \/ ReadBack(s) \/ Refused(s) \/ ReadRefused(s)

Next ==
  \/ \E s \in Spaces :
       \/ StartApply(s) \/ Terraform(s)
       \/ Stops(s) \/ Import(s) \/ EditConfig(s)
  \/ Console \/ Removal

Spec == Init /\ [][Next]_vars

\* In every workspace Terraform runs to its end and is applied again and again.
FairSpec ==
  /\ Spec
  /\ \A s \in Spaces : WF_vars(StartApply(s)) /\ WF_vars(Terraform(s))

-----------------------------------------------------------------------------
(* Properties *)

\* An apply that ends without an error, the value having been left alone since
\* it began, ends with the configured value at CAST AI and in the state: also
\* one that found nothing to do, whoever wrote since the apply before.
SuccessIsReal ==
  \A s \in Spaces : run[s].pc = "done" /\ quiet[s] /\ want[s] # Absent =>
    remote.value = want[s] /\ saved[s] = Saved("ok", want[s])

\* The workspace has what it configures, or cannot have it.
HasItsTurn(s) == want[s] \in remote.gone \cup {Absent, remote.value}

\* Workspaces that want different values take it from each other for ever:
\* whose value can be set sees it set again and again.
EachInTurn == \A s \in Spaces : []<>HasItsTurn(s)

Contended == \E s, t \in Spaces : want[s] # want[t] /\ Absent \notin {want[s], want[t]}

Reached(s) ==
  IF want[s] = Absent THEN saved[s] = NotSaved
  ELSE remote.value = want[s] /\ saved[s] = Saved("ok", want[s])

\* Every workspace has reached what it configures, none has begun to change
\* anything, and the value can be set.
AtRest ==
  \A s \in Spaces :
    /\ Reached(s)
    /\ \/ run[s].pc \in Ended
       \/ want[s] # Absent /\ run[s] \in {Run("refresh", "none"), Run("plan", "none")}
    /\ Accepted(s)

\* Where repeated applies come to rest.
Settled ==
  \/ Contended
  \/ \E s \in Spaces : want[s] \in remote.gone
  \/ \A s \in Spaces : Reached(s)

\* After the trouble, workspaces that agree reach what they have configured and
\* stay there: none takes the value of the other for drift.
Convergence == <>[]Settled
=============================================================================
