------------------------ MODULE OrganizationMembers ------------------------
(***************************************************************************)
(* castai_organization_members (castai/resource_organization_members.go):  *)
(* who belongs to an organization and in which role.  CAST AI has no call  *)
(* that sets this: an update removes users, withdraws invitations, moves   *)
(* users between roles in three calls each and sends invitations, while    *)
(* people accept invitations and others edit the same roles.               *)
(*                                                                         *)
(* A person is an email address.  The lists of the configuration, one for  *)
(* each role, put each email on at most one of them; CAST AI may give a    *)
(* user any number of roles.  The lists are ordered, and Read, which lists *)
(* role bindings first and invitations second, has an order of its own.    *)
(***************************************************************************)
EXTENDS Naturals, Sequences, FiniteSets, Functions

CONSTANTS
  Emails,
  Me,          \* the user whose token the provider has
  Roles,
  Owner,       \* the role of the creator of an organization
  Configs,     \* the lists that may be configured
  Listing,     \* the order in which CAST AI lists a set of people
  Absent,      \* the resource is not in the configuration
  MaxTrouble   \* bound on the faults, interventions and edits

ASSUME PeopleAssumption ==
  /\ Me \in Emails
  /\ Owner \in Roles /\ IsFiniteSet(Roles)
ASSUME ConfigsAssumption ==
  /\ Configs \subseteq [Roles -> Seq(Emails)]
  /\ \A lists \in Configs : \A r1, r2 \in Roles :
       r1 # r2 => Range(lists[r1]) \cap Range(lists[r2]) = {}
  /\ Absent \notin Configs
ASSUME ListingAssumption ==
  /\ Listing \in [SUBSET Emails -> Seq(Emails)]
  /\ \A people \in SUBSET Emails : Range(Listing[people]) = people
ASSUME TroubleAssumption == MaxTrouble \in Nat

VARIABLES
  who,       \* the standing of every person at CAST AI
  want,      \* the configuration
  saved,     \* the Terraform state
  run,       \* what Terraform is doing
  quiet,     \* since the run began there was no fault and nobody interfered
  trouble    \* how much trouble is still to come

vars == <<who, want, saved, run, quiet, trouble>>

-----------------------------------------------------------------------------
(* State *)

Standing == [kind: {"out", "invited", "in"}, roles: SUBSET Roles]

Out == [kind |-> "out", roles |-> {}]
Invited(roles) == [kind |-> "invited", roles |-> roles]
Member(roles) == [kind |-> "in", roles |-> roles]

\* One list for each role: owners, viewers and members.
Lists == [Roles -> Seq(Emails)]

\* The lists a person is on.
On(lists, e) == {role \in Roles : e \in Range(lists[role])}

Nothing == [role \in Roles |-> <<>>]
NotSaved == [exists |-> FALSE, tainted |-> FALSE, lists |-> Nothing]

Ended == {"idle", "done", "failed"}
Steps == {"read", "pending", "plan", "create", "users", "invitations",
          "work", "add", "bind"}
Ops == {"none", "import", "create", "update", "delete"}

\* The work a run has found: the users to remove, the invitations to delete,
\* the users to move to another role, the people to invite; whom it is
\* moving, between the calls that do it; and, between the two listings of a
\* Read, the lists of the first.
Run(pc, op, users, invitations, move, invite, moving) ==
  [pc |-> pc, op |-> op, users |-> users, invitations |-> invitations,
   move |-> move, invite |-> invite, moving |-> moving, bound |-> Nothing]

Ends(how) == run' = Run(how, "none", {}, {}, {}, {}, {})
Goes(to, op) == run' = Run(to, op, {}, {}, {}, {}, {})

TypeOK ==
  /\ who \in [Emails -> Standing]
  /\ want \in Configs \cup {Absent}
  /\ saved \in [exists: BOOLEAN, tainted: BOOLEAN, lists: Lists]
  /\ run \in [pc: Steps \cup Ended, op: Ops,
              users: SUBSET Emails, invitations: SUBSET Emails,
              move: SUBSET Emails, invite: SUBSET Emails, moving: SUBSET Emails,
              bound: Lists]
  /\ Cardinality(run.moving) <= 1
  /\ quiet \in BOOLEAN
  /\ trouble \in 0..MaxTrouble

Init ==
  /\ who \in [Emails -> {Out} \cup {Member({role}) : role \in Roles}]
  /\ who[Me] = Member({Owner})
  /\ want \in Configs
  /\ saved = NotSaved
  /\ run = Run("idle", "none", {}, {}, {}, {}, {})
  /\ quiet = TRUE
  /\ trouble = MaxTrouble

Trouble ==
  /\ trouble > 0
  /\ trouble' = trouble - 1

-----------------------------------------------------------------------------
(* Refresh and plan *)

Joined == {e \in Emails : who[e].kind = "in"}
Pending == {e \in Emails : who[e].kind = "invited"}

\* People of one standing on the lists of their roles.
ListOf(people) ==
  [role \in Roles |-> Listing[{e \in people : role \in who[e].roles}]]

StartApply ==
  /\ run.pc \in Ended
  /\ IF saved.exists THEN Goes("read", "none")
     ELSE IF want # Absent THEN Goes("create", "create") ELSE Ends("done")
  /\ quiet' = TRUE
  /\ UNCHANGED <<who, want, saved, trouble>>

\* The work of a run is done.
WorkDone ==
  run.pc = "work" /\ run.users = {} /\ run.invitations = {} /\ run.move = {}
                  /\ run.invite = {}

\* Read begins with the role bindings of users: in a refresh, after an import,
\* and at the end of Create and Update.
ListRoleBindings ==
  /\ run.pc = "read" \/ (WorkDone /\ run.op \in {"create", "update"})
  /\ run' = [run EXCEPT !.pc = "pending", !.bound = ListOf(Joined)]
  /\ UNCHANGED <<who, want, saved, quiet, trouble>>

\* Then it appends to each list those who are invited to its role by now: who
\* accepts between the two listings is on no list, and who is removed and
\* invited again is on it twice.
ReadLists == [role \in Roles |-> run.bound[role] \o ListOf(Pending)[role]]

ListPending ==
  /\ run.pc = "pending"
  /\ saved' = IF run.op = "none" THEN [saved EXCEPT !.lists = ReadLists]
              ELSE [exists |-> TRUE, tainted |-> FALSE, lists |-> ReadLists]
  /\ IF run.op = "none" THEN Goes("plan", "none") ELSE Ends("done")
  /\ UNCHANGED <<who, want, quiet, trouble>>

\* A resource whose creation failed after SetId is tainted, and replaced.
Plan ==
  /\ run.pc = "plan"
  /\ IF want = Absent \/ saved.tainted THEN Goes("users", "delete")
     ELSE IF saved.lists = want THEN Ends("done")
     ELSE Goes("users", "update")
  /\ UNCHANGED <<who, want, saved, quiet, trouble>>

-----------------------------------------------------------------------------
(* The diff of the lists *)

\* compareRoleMembers, for each list.
Added(e) == On(want, e) \ On(saved.lists, e)
Deleted(e) == On(saved.lists, e) \ On(want, e)

\* getMembersDiff: whoever leaves one list for another is moved.
ToMove == {e \in Emails : Deleted(e) # {} /\ Added(e) # {}}

\* Mutant: all the members of before are deleted, not those who left.
ToDelete_All == {e \in Emails : On(saved.lists, e) # {}} \ ToMove

ToDelete == {e \in Emails : Deleted(e) # {}} \ ToMove
ToAdd == {e \in Emails : Added(e) # {}} \ ToMove

\* Mutant: the old invitation of people who are moved is not withdrawn.
WorkOfUpdate_KeepsInvitation ==
  Run("work", "update",
      ToDelete \cap run.users,
      (ToDelete \cap Pending) \ run.users,
      ToMove \cap run.users,
      ToAdd \cup (ToMove \ run.users),
      {})

\* Mutant: people who are moved before they accepted are not invited again.
WorkOfUpdate_LosesInvited ==
  Run("work", "update",
      ToDelete \cap run.users,
      ((ToDelete \cup ToMove) \cap Pending) \ run.users,
      ToMove \cap run.users,
      ToAdd,
      {})

\* getPendingManipulations: a user is one by the list of users read before.
WorkOfUpdate ==
  Run("work", "update",
      ToDelete \cap run.users,
      ((ToDelete \cup ToMove) \cap Pending) \ run.users,
      ToMove \cap run.users,
      ToAdd \cup (ToMove \ run.users),
      {})

\* Delete removes everybody, except the user managing the organization.
WorkOfDelete == Run("work", "delete", run.users \ {Me}, Pending, {}, {}, {})

\* Create invites everybody, except the user who is an owner already.
WorkOfCreate ==
  Run("work", "create", {}, {}, {},
      {e \in Emails : On(want, e) # {} /\ ~(e = Me /\ On(want, e) = {Owner})}, {})

-----------------------------------------------------------------------------
(* What is saved when a call fails *)

\* Mutant: the planned state is saved whatever failed.
AfterError_Always == [saved EXCEPT !.lists = want]

\* SDKv2 saves the planned state when an update returns an error.  A failed
\* create saves nothing before SetId, and a tainted resource after it.  A
\* failed delete or read leaves the state as it is.
AfterError ==
  IF run.op = "update" THEN [saved EXCEPT !.lists = want]
  ELSE IF run.op = "create" /\ run.pc \in {"work", "pending"} /\ run.invite = {}
  THEN [exists |-> TRUE, tainted |-> TRUE, lists |-> want]
  ELSE saved

Refused ==
  /\ saved' = AfterError
  /\ Ends("failed")
  /\ UNCHANGED <<who, want, quiet, trouble>>

-----------------------------------------------------------------------------
(* Create, Update, Delete *)

Create ==
  /\ run.pc = "create"
  /\ run' = WorkOfCreate
  /\ UNCHANGED <<who, want, saved, quiet, trouble>>

ListUsers ==
  /\ run.pc = "users"
  /\ run' = [run EXCEPT !.pc = "invitations", !.users = Joined]
  /\ UNCHANGED <<who, want, saved, quiet, trouble>>

\* Mutant: the check for the current user is gone.
RemovesMyself_Never == FALSE

\* "can't delete user that is currently managing this organization"
RemovesMyself == run.op = "update" /\ Me \in WorkOfUpdate.users

ListInvitations ==
  /\ run.pc = "invitations"
  /\ ~RemovesMyself
  /\ run' = IF run.op = "update" THEN WorkOfUpdate ELSE WorkOfDelete
  /\ UNCHANGED <<who, want, saved, quiet, trouble>>

RemovesMyselfRefused ==
  /\ run.pc = "invitations"
  /\ RemovesMyself
  /\ Refused

\* An update removes users first, a delete deletes invitations first.
UsersTurn ==
  run.pc = "work" /\ run.users # {} /\ (run.op = "delete" => run.invitations = {})
InvitationsTurn ==
  run.pc = "work" /\ run.invitations # {} /\ (run.op = "update" => run.users = {})
MoveTurn ==
  run.pc = "work" /\ run.users = {} /\ run.invitations = {} /\ run.move # {}
InviteTurn ==
  run.pc = "work" /\ run.users = {} /\ run.invitations = {} /\ run.move = {}
                  /\ run.invite # {}
\* What becomes of the run after a call: the next step if it is answered,
\* else, its answer being lost or the process killed, the end.
GoesOn(answered, next) == IF answered THEN run' = next ELSE Ends("failed")

\* The calls, each with what it needs at CAST AI and does there (external: a
\* call on a person of another standing is refused).
RemoveUser(answered) == \E e \in run.users :
  /\ UsersTurn
  /\ who[e].kind = "in"
  /\ who' = [who EXCEPT ![e] = Out]
  /\ GoesOn(answered, [run EXCEPT !.users = @ \ {e}])

DeleteInvitation(answered) == \E e \in run.invitations :
  /\ InvitationsTurn
  /\ who[e].kind = "invited"
  /\ who' = [who EXCEPT ![e] = Out]
  /\ GoesOn(answered, [run EXCEPT !.invitations = @ \ {e}])

\* A user is moved by removing and adding them, and binding them to the role.
MoveOut(answered) == \E e \in run.move :
  /\ MoveTurn
  /\ who[e].kind = "in"
  /\ who' = [who EXCEPT ![e] = Out]
  /\ GoesOn(answered, [run EXCEPT !.pc = "add", !.move = @ \ {e}, !.moving = {e}])

MoveIn(answered) == \E e \in run.moving :
  /\ run.pc = "add"
  /\ who[e].kind = "out"
  /\ who' = [who EXCEPT ![e] = Member({})]
  /\ GoesOn(answered, [run EXCEPT !.pc = "bind"])

Bind(answered) == \E e \in run.moving :
  /\ run.pc = "bind"
  /\ who[e].kind = "in"
  /\ who' = [who EXCEPT ![e] = Member(@.roles \cup On(want, e))]
  /\ GoesOn(answered, [run EXCEPT !.pc = "work", !.moving = {}])

\* One call invites everybody; it fails for members (Create says so of its
\* caller) and, the update withdrawing their old invitation first, for people
\* who are invited already.
Invite(answered) ==
  /\ InviteTurn
  /\ \A e \in run.invite : who[e].kind = "out"
  /\ who' = [e \in Emails |-> IF e \in run.invite THEN Invited(On(want, e))
                             ELSE who[e]]
  /\ GoesOn(answered, [run EXCEPT !.invite = {}])

Call(answered) ==
  \/ RemoveUser(answered) \/ DeleteInvitation(answered)
  \/ MoveOut(answered) \/ MoveIn(answered) \/ Bind(answered)
  \/ Invite(answered)

CallDone == Call(TRUE) /\ UNCHANGED <<want, saved, quiet, trouble>>

\* The person has another standing by now.
CallRefused ==
  /\ \/ UsersTurn /\ \E e \in run.users : who[e].kind # "in"
     \/ InvitationsTurn /\ \E e \in run.invitations : who[e].kind # "invited"
     \/ MoveTurn /\ \E e \in run.move : who[e].kind # "in"
     \/ run.pc = "add" /\ \E e \in run.moving : who[e].kind # "out"
     \/ run.pc = "bind" /\ \E e \in run.moving : who[e].kind # "in"
     \/ InviteTurn /\ \E e \in run.invite : who[e].kind # "out"
  /\ Refused

\* A replacement goes on with the create.
DeleteDone ==
  /\ WorkDone
  /\ run.op = "delete"
  /\ saved' = NotSaved
  /\ IF want = Absent THEN Ends("done") ELSE Goes("create", "create")
  /\ UNCHANGED <<who, want, quiet, trouble>>

\* A call fails without an effect, or the process dies before it.
Fails ==
  /\ run.pc \in Steps
  /\ Trouble
  /\ saved' \in {AfterError, saved}
  /\ Ends("failed")
  /\ quiet' = FALSE
  /\ UNCHANGED <<who, want>>

\* A call is carried out, but its answer is lost or the process dies after it.
AnswerLost ==
  /\ Trouble
  /\ Call(FALSE)
  /\ saved' \in {AfterError, saved}
  /\ quiet' = FALSE
  /\ UNCHANGED want

-----------------------------------------------------------------------------
(* Everybody else *)

\* terraform import, which a Read follows.
Import ==
  /\ Trouble
  /\ run.pc \in Ended
  /\ ~saved.exists
  /\ Goes("read", "import")
  /\ quiet' = TRUE
  /\ UNCHANGED <<who, want, saved>>

EditConfig ==
  /\ Trouble
  /\ run.pc \in Ended
  /\ want' \in (Configs \cup {Absent}) \ {want}
  /\ UNCHANGED <<who, saved, run, quiet>>

\* Someone accepts an invitation.
Accept(e) ==
  /\ who[e].kind = "invited"
  /\ who' = [who EXCEPT ![e] = Member(@.roles)]
  /\ quiet' = FALSE
  /\ UNCHANGED <<want, saved, run, trouble>>

\* In the console, or through castai_role_bindings: people are invited and
\* removed, invitations are withdrawn or expire, roles are given and taken.
\* Nobody else removes the user managing the organization.
Console(e) ==
  /\ Trouble
  /\ \/ /\ who[e].kind = "out"
        /\ \E role \in Roles : who' = [who EXCEPT ![e] = Invited({role})]
     \/ /\ who[e].kind = "invited" \/ (who[e].kind = "in" /\ e # Me)
        /\ who' = [who EXCEPT ![e] = Out]
     \/ /\ who[e].kind = "in"
        /\ \E roles \in SUBSET Roles : who' = [who EXCEPT ![e] = Member(roles)]
  /\ who' # who
  /\ quiet' = FALSE
  /\ UNCHANGED <<want, saved, run>>

-----------------------------------------------------------------------------
Terraform ==
  \/ ListRoleBindings \/ ListPending \/ Plan \/ Create
  \/ ListUsers \/ ListInvitations \/ RemovesMyselfRefused
  \/ CallDone \/ CallRefused
  \/ DeleteDone

Next ==
  \/ StartApply \/ Terraform
  \/ Fails \/ AnswerLost
  \/ Import \/ EditConfig
  \/ \E e \in Emails : Accept(e) \/ Console(e)

Spec == Init /\ [][Next]_vars

\* Terraform runs to its end and the user applies again and again.  Faults,
\* edits, imports, acceptance and the console are not fair.
FairSpec == Spec /\ WF_vars(StartApply) /\ WF_vars(Terraform)

-----------------------------------------------------------------------------
(* Properties *)

\* "can't delete user that is currently managing this organization", "we have
\* to filter out the user that is currently managing this organization": what
\* removes this user is at most a move between roles, which adds them again.
OnlyMovesRemoveMe ==
  [][who[Me].kind = "in" /\ who'[Me].kind # "in" => Me \in run.move]_vars

\* An update leaves everybody alone whose lists agree with the configuration,
\* whatever the others need and whatever happens beside it.
AgreedUntouched ==
  [][run.op = "update" /\ run' # run =>
       \A e \in Emails : On(saved.lists, e) = On(want, e) => who'[e] = who[e]]_vars

\* An update that ran without fault and interference has given everybody the
\* role they are configured for, and nobody else any, except where it found
\* somebody with more than one.
AppliedAsPlanned ==
  WorkDone /\ run.op = "update" /\ quiet =>
    \A e \in Emails :
      Cardinality(On(saved.lists, e)) <= 1 => who[e].roles = On(want, e)

\* The user managing the organization stays in it: "Otherwise, if we have
\* deleted all the members, the organization would get deleted too".
ManagerStays == who[Me].kind = "in"

\* Once faults, edits and the console are quiet, repeated applies reach the
\* configured lists and plan nothing more, except for four dead ends.
Converged ==
  IF want = Absent THEN ~saved.exists
  ELSE /\ saved.exists /\ ~saved.tainted /\ saved.lists = want
       /\ \A e \in Emails : who[e].roles = On(want, e)

\* Everybody has the configured role, but Read lists those who have accepted
\* before those who have not, and both in the order of CAST AI: the update
\* that is planned again and again finds nobody to remove, move or invite.
Misordered ==
  /\ saved.exists /\ ~saved.tainted
  /\ \A e \in Emails : who[e].roles = On(want, e)
  /\ \E role \in Roles : want[role] # ListOf(Joined)[role] \o ListOf(Pending)[role]

\* A removal of the user managing the organization is refused again and again.
MustRemoveMe ==
  /\ who[Me].kind = "in"
  /\ who[Me].roles \ On(want, Me) # {}
  /\ On(want, Me) \ who[Me].roles = {}

\* A move stopped between the user's return and their role, say: Read does not
\* find a user without a role, and an invitation of a user is refused.
Stranded == \E e \in Emails : On(want, e) # {} /\ who[e] = Member({})

\* A create invites people who have been invited or are users.
CannotCreate ==
  ~saved.exists /\ \E e \in WorkOfCreate.invite : who[e].kind # "out"

Convergence ==
  <>[](\/ Converged
       \/ /\ want # Absent
          /\ Misordered \/ MustRemoveMe \/ Stranded \/ CannotCreate)
=============================================================================
