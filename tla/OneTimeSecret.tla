--------------------------- MODULE OneTimeSecret ---------------------------
(***************************************************************************)
(* Secrets that CAST AI gives once and that are in the Terraform state     *)
(* from then on:                                                           *)
(*                                                                         *)
(*   key   castai_service_account_key: its token is in the answer that     *)
(*         creates it (castai/resource_service_account_key.go)             *)
(*   sync  castai_sso_connection: the token to synchronise groups with is  *)
(*         in the answer to the call that switches synchronisation on      *)
(*         (castai/resource_sso_connection.go)                             *)
(*                                                                         *)
(* A token is the number of the answer it was in.                          *)
(***************************************************************************)
EXTENDS Naturals

CONSTANTS
  Settings,    \* names, domains, expiry
  LeavesOut,   \* pairs of them: the second is without the first one's domains
  Connectors,  \* to the identity provider of a connection
  NoConnector, \* what a key has
  Absent,      \* the resource is not in the configuration
  NoObject,    \* there is no such key or connection
  MaxTrouble   \* bound on the faults, interventions and edits

\* on: the key is active, the connection synchronised.
Values ==
  [settings: Settings, connector: Connectors \cup {NoConnector}, on: BOOLEAN]

\* What the parameters have to be.
SecretAssumption ==
  /\ Absent \notin Values
  /\ LeavesOut \subseteq Settings \X Settings
  /\ NoObject \notin [values: Values, token: Nat]
  /\ MaxTrouble \in Nat

VARIABLES
  remote,    \* CAST AI: the object made last, how many tokens it gave,
             \* whether there is an object nobody knows, and refuses another
  want,      \* the configuration
  saved,     \* the Terraform state
  run,       \* what Terraform is doing, and the token it was given
  quiet,     \* since the run began nobody else has changed anything
  trouble    \* how much trouble is still to come

vars == <<remote, want, saved, run, quiet, trouble>>

-----------------------------------------------------------------------------
(* State *)

NotSaved == [status |-> "none", values |-> Absent, token |-> 0]
Saved(status, values, token) ==
  [status |-> status, values |-> values, token |-> token]

Ended == {"idle", "done", "failed"}
Steps == {"refresh", "plan", "post", "put", "switch", "read", "delete"}
Run(pc, op, token) == [pc |-> pc, op |-> op, token |-> token]
Goes(pc) == run' = [run EXCEPT !.pc = pc]

TypeOK ==
  /\ remote \in [kind: {"key", "sync"}, unique: BOOLEAN, orphan: BOOLEAN, given: Nat,
                 object: [values: Values, token: Nat] \cup {NoObject}]
  /\ want \in Values \cup {Absent}
  /\ saved \in {NotSaved} \cup [status: {"ok", "tainted"}, values: Values, token: Nat]
  /\ run \in [pc: Ended \cup Steps, op: {"none", "create", "update", "delete"}, token: Nat]
  /\ saved.token <= remote.given
  /\ quiet \in BOOLEAN
  /\ trouble \in 0..MaxTrouble

\* What can be configured: a connection has one connector.
Configurable == {v \in Values : remote.kind = "key" <=> v.connector = NoConnector}

Init ==
  /\ remote \in [kind: {"key", "sync"}, unique: BOOLEAN, orphan: {FALSE},
                 given: {0}, object: {NoObject}]
  /\ want \in Configurable
  /\ saved = NotSaved
  /\ run = Run("idle", "none", 0)
  /\ quiet = TRUE
  /\ trouble = MaxTrouble

Trouble ==
  /\ trouble > 0
  /\ trouble' = trouble - 1

Exists == remote.object # NoObject

-----------------------------------------------------------------------------
(* What the calls do at CAST AI *)

Accepts == remote.unique => ~remote.orphan

\* The next token, given with a key, or when synchronisation is switched on.
Makes(values) ==
  IF remote.kind = "key"
  THEN [remote EXCEPT !.given = @ + 1,
                      !.object = [values |-> values, token |-> remote.given + 1]]
  ELSE [remote EXCEPT !.object = [values |-> [values EXCEPT !.on = FALSE], token |-> 0]]

Switches(on) ==
  IF remote.kind = "sync" /\ on
  THEN [remote EXCEPT !.given = @ + 1, !.object.values.on = TRUE,
                      !.object.token = remote.given + 1]
  ELSE [remote EXCEPT !.object.values.on = on]

\* An object whose ID is not saved stays behind.
Orphaned(after) == [after EXCEPT !.object = NoObject, !.orphan = TRUE]

Post ==
  /\ run.pc = "post"
  /\ Accepts
  /\ remote' = Makes(want)

\* No domains are not sent, and those that are there stay.
Sent ==
  IF <<remote.object.values.settings, want.settings>> \in LeavesOut
  THEN remote.object.values.settings
  ELSE want.settings

Put ==
  /\ run.pc = "put"
  /\ Exists
  /\ remote' = IF remote.kind = "key" THEN Switches(want.on)
               ELSE [remote EXCEPT !.object.values.settings = Sent,
                                   !.object.values.connector = want.connector]

Switch ==
  /\ run.pc = "switch"
  /\ Exists
  /\ remote' = Switches(want.on)

Delete ==
  /\ run.pc = "delete"
  /\ Exists
  /\ remote' = [remote EXCEPT !.object = NoObject]

-----------------------------------------------------------------------------
(* Refresh and plan *)

StartApply ==
  /\ run.pc \in Ended
  /\ IF saved # NotSaved THEN run' = Run("refresh", "none", 0)
     ELSE IF want # Absent THEN run' = Run("post", "create", 0)
     ELSE run' = Run("done", "none", 0)
  /\ quiet' = TRUE
  /\ UNCHANGED <<remote, want, saved, trouble>>

\* Mutant: Read leaves the token out, as the answer does.
TokenAfterRead_None(token) == 0

\* "Explicitly write back the current state value so Terraform does not drop
\* it from state during a refresh."
TokenAfterRead(token) == token

\* Mutant: Read takes the state's word for synchronisation too.
Shown_AsSaved(known) == [known EXCEPT !.settings = remote.object.values.settings]

\* A connection's connector is not read: the state keeps the one it knows.
Shown(known) == [remote.object.values EXCEPT !.connector = known.connector]

Refresh ==
  /\ run.pc = "refresh"
  /\ Exists
  /\ saved' = Saved(saved.status, Shown(saved.values), TokenAfterRead(saved.token))
  /\ Goes("plan")
  /\ UNCHANGED <<remote, want, quiet, trouble>>

\* A key that is gone is forgotten, a connection an error for ever.
RefreshFindsNothing ==
  /\ run.pc = "refresh"
  /\ ~Exists
  /\ IF remote.kind = "sync" THEN Goes("failed") /\ UNCHANGED saved
     ELSE /\ saved' = NotSaved
          /\ run' = IF want = Absent THEN Run("done", "none", 0) ELSE Run("post", "create", 0)
  /\ UNCHANGED <<remote, want, quiet, trouble>>

\* Only the active flag of a key changes in place.
Replaces ==
  \/ saved.status = "tainted"
  \/ remote.kind = "key" /\ saved.values.settings # want.settings

\* Settings and connector go in one call, synchronisation in another.
Resends ==
  \/ saved.values.settings # want.settings
  \/ saved.values.connector # want.connector

\* The call an update of a connection has next, after that of its settings.
ThenSwitch(old) == IF old.on # want.on THEN "switch" ELSE "read"

Plan ==
  /\ run.pc = "plan"
  /\ run' = IF want = Absent \/ Replaces THEN Run("delete", "delete", 0)
            ELSE IF saved.values = want THEN Run("done", "none", 0)
            ELSE IF remote.kind = "key" \/ Resends
            THEN Run("put", "update", saved.token)
            ELSE Run(ThenSwitch(saved.values), "update", saved.token)
  /\ UNCHANGED <<remote, want, saved, quiet, trouble>>

-----------------------------------------------------------------------------
(* Create, update, delete *)

Create ==
  /\ Post
  /\ run' = Run(IF remote.kind = "sync" /\ want.on THEN "switch" ELSE "read",
                "create", remote'.object.token)
  /\ UNCHANGED <<want, saved, quiet, trouble>>

\* A connection that is not active is an error before its ID is saved.
CreatedInactive ==
  /\ remote.kind = "sync"
  /\ run.pc = "post"
  /\ Accepts
  /\ Trouble
  /\ remote' = Orphaned(Makes(want))
  /\ Goes("failed")
  /\ UNCHANGED <<want, saved, quiet>>

Update ==
  /\ Put
  /\ Goes(IF remote.kind = "key" THEN "read" ELSE ThenSwitch(saved.values))
  /\ UNCHANGED <<want, saved, quiet, trouble>>

TokenOf == IF want.on THEN remote'.object.token ELSE run.token

SwitchDone ==
  /\ Switch
  /\ run' = [run EXCEPT !.pc = "read", !.token = TokenOf]
  /\ UNCHANGED <<want, saved, quiet, trouble>>

ReadBack ==
  /\ run.pc = "read"
  /\ Exists
  /\ saved' = Saved("ok", Shown(want), TokenAfterRead(run.token))
  /\ Goes("done")
  /\ UNCHANGED <<remote, want, quiet, trouble>>

Destroy ==
  /\ Delete
  /\ saved' = NotSaved
  /\ run' = IF want = Absent THEN Run("done", "delete", 0) ELSE Run("post", "create", 0)
  /\ UNCHANGED <<want, quiet, trouble>>

\* SDKv2 saves the planned values of an update that fails, and as tainted a
\* resource whose create fails after SetId.
AfterError ==
  IF run.op = "update" THEN Saved(saved.status, want, run.token)
  ELSE IF run.op = "create" /\ run.pc \in {"switch", "read"}
  THEN Saved("tainted", want, run.token)
  ELSE saved

\* What a Read forgets in a create is not in the state, and in an update stays
\* in it.
ReadFails ==
  /\ run.pc = "read"
  /\ ~Exists
  /\ saved' = IF remote.kind = "key" THEN saved ELSE AfterError
  /\ Goes("failed")
  /\ UNCHANGED <<remote, want, quiet, trouble>>

Refused ==
  /\ \/ run.pc = "post" /\ ~Accepts
     \/ run.pc \in {"put", "switch", "delete"} /\ ~Exists
  /\ saved' = AfterError
  /\ Goes("failed")
  /\ UNCHANGED <<remote, want, quiet, trouble>>

\* A call fails or its answer is lost.
Stops ==
  /\ run.pc \in Steps
  /\ Trouble
  /\ \/ UNCHANGED remote
     \/ Put \/ Switch \/ Delete
     \/ run.pc = "post" /\ Accepts /\ remote' = Orphaned(Makes(want))
  /\ saved' = AfterError
  /\ Goes("failed")
  /\ UNCHANGED <<want, quiet>>

\* The process dies, and with it the ID of what was created.
Killed ==
  /\ run.pc \in Steps \ {"post"}
  /\ Trouble
  /\ \/ run.op = "create" /\ remote' = Orphaned(remote)
     \/ run.op # "create" /\ (UNCHANGED remote \/ Put \/ Switch \/ Delete)
  /\ Goes("failed")
  /\ UNCHANGED <<want, saved, quiet>>

-----------------------------------------------------------------------------
(* Everybody else: there is no importer *)

EditConfig ==
  /\ Trouble
  /\ run.pc \in Ended
  /\ want' \in (Configurable \cup {Absent}) \ {want}
  /\ quiet' = FALSE
  /\ UNCHANGED <<remote, saved, run>>

\* Whoever switches synchronisation on in the console is shown the token.
Console ==
  /\ Trouble
  /\ Exists
  /\ \/ remote' = Switches(~remote.object.values.on)
     \/ \E settings \in Settings :
          remote' = [remote EXCEPT !.object.values.settings = settings]
     \/ /\ remote.kind = "sync"
        /\ \E connector \in Connectors :
             remote' = [remote EXCEPT !.object.values.connector = connector]
     \/ remote' = [remote EXCEPT !.object = NoObject]
  /\ quiet' = FALSE
  /\ UNCHANGED <<want, saved, run>>

-----------------------------------------------------------------------------
Terraform ==
  \/ Refresh \/ RefreshFindsNothing \/ Plan
  \/ Create \/ Update \/ SwitchDone \/ ReadBack \/ Destroy \/ ReadFails \/ Refused

Next ==
  \/ StartApply \/ Terraform
  \/ CreatedInactive \/ Stops \/ Killed
  \/ EditConfig \/ Console

Spec == Init /\ [][Next]_vars

\* Terraform runs to its end and the user applies again and again.
FairSpec == Spec /\ WF_vars(StartApply) /\ WF_vars(Terraform)

-----------------------------------------------------------------------------
(* Properties *)

\* The state shows what has a token, and has not the token.
Misfit ==
  /\ saved.status = "ok" /\ Exists
  /\ remote.kind = "key" \/ (saved.values.on /\ remote.object.values.on)
  /\ saved.token # remote.object.token

\* When the token may be lost.
KnownLoss ==
  run' # run /\ ~Misfit /\ Misfit' =>
    /\ remote.kind = "sync"
    /\ ~quiet \/ run.pc = "refresh" \/ (run.op = "update" /\ run'.pc = "failed")

\* A key is never without its token.  A connection loses it only in a failed
\* update that switches synchronisation on, or where somebody else, or a run
\* that died, has switched it: no undisturbed apply that succeeds loses it.
OnlyKnownLosses == [][KnownLoss]_vars

Reached ==
  IF want = Absent THEN saved = NotSaved
  ELSE /\ Exists
       /\ remote.object.values = want
       /\ saved = Saved("ok", want, saved.token)
       /\ ~Misfit

\* It is reached, and no run has begun to change anything.
AtRest ==
  /\ Reached
  /\ \/ run.pc \in Ended
     \/ want # Absent /\ run \in {Run("refresh", "none", 0), Run("plan", "none", 0)}

\* The connector is another one than the state says, which is as configured: a
\* change in the console, or an update that failed and saved what it planned.
ConnectorUnseen ==
  /\ saved = Saved("ok", want, saved.token)
  /\ Exists
  /\ remote.object.values = [want EXCEPT !.connector = remote.object.values.connector]

\* Domains that are there and not configured are to be removed by every apply.
DomainsStay ==
  /\ want # Absent /\ Exists
  /\ <<remote.object.values.settings, want.settings>> \in LeavesOut

\* A connection that was deleted fails every Read, and one nobody knows may be
\* in the way of another.
Stuck ==
  \/ remote.kind = "sync" /\ (\/ Misfit \/ (~Exists /\ saved # NotSaved)
                              \/ ConnectorUnseen \/ DomainsStay)
  \/ remote.unique /\ remote.orphan

\* Where repeated applies come to rest.
Settled == Reached \/ Stuck

\* After the trouble, repeated applies reach what is configured, and the token
\* is in the state, but for the dead ends: a lost token stays lost, as the
\* state says that synchronisation is on, and a connector is never read.
Convergence == <>[]Settled
=============================================================================
