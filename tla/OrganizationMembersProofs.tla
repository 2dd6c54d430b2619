---------------------- MODULE OrganizationMembersProofs ----------------------
(***************************************************************************)
(* Proofs about OrganizationMembers, for every set of people, every finite *)
(* set of roles and every amount of trouble.                               *)
(*                                                                         *)
(* What a run may still do is in the sets of run; the invariant says of    *)
(* each of these sets which people can be in it, and of an undisturbed     *)
(* update that whoever is in none of them has the configured role.         *)
(***************************************************************************)
EXTENDS OrganizationMembers, FiniteSetTheorems, SequenceTheorems, TLAPS

\* The calls of a run are under way.
Working == {"work", "add", "bind"}

\* What a run is for, and when it moves somebody.
Purpose ==
  /\ run.pc \in Ended \cup {"plan"} => run.op = "none"
  /\ run.pc = "read" => run.op \in {"none", "import"}
  /\ run.pc \in {"users", "invitations"} => run.op \in {"update", "delete"}
  /\ run.pc = "create" => run.op = "create"
  /\ run.op \in {"update", "create"} => want # Absent
  /\ run.op # "update" => run.move = {} /\ run.moving = {}
  /\ run.op \in {"none", "import", "delete"} => run.invite = {}
  /\ run.pc \notin {"add", "bind"} => run.moving = {}

\* The user managing the organization is not among those to be removed.
MeSpared == run.pc \in Working => Me \notin run.users

\* An update has found work for those only whose lists differ.
OnlyTheirs ==
  run.op = "update" /\ run.pc \in Working =>
    \A e \in run.users \cup run.invitations \cup run.move
              \cup run.invite \cup run.moving : On(saved.lists, e) # On(want, e)

\* Whoever is neither a member nor invited has no role.
OutIsEmpty == \A e \in Emails : who[e].kind = "out" => who[e].roles = {}

\* Undisturbed, an update works from what is there.
Known ==
  run.op = "update" /\ quiet /\ run.pc \in {"users", "invitations"} =>
    /\ \A e \in Emails : On(saved.lists, e) = who[e].roles
    /\ run.pc = "invitations" => run.users = Joined

\* And somebody with one role at most ends in the configured one: by the call
\* that is to come, or already.
InHand(e) ==
  /\ e \in run.users => On(want, e) = {}
  /\ e \in run.invitations => On(want, e) = {} \/ e \in run.invite
  /\ e \in run.moving /\ run.pc = "bind" => who[e].roles = {}
  /\ \/ e \in run.users \cup run.invitations \cup run.move
              \cup run.invite \cup run.moving
     \/ who[e].roles = On(want, e)

Planned ==
  run.op = "update" /\ quiet /\ run.pc \in Working =>
    \A e \in Emails : Cardinality(On(saved.lists, e)) <= 1 => InHand(e)

\* The plan, like the refresh, speaks of what was just read.
Fresh ==
  run.pc = "plan" /\ quiet => \A e \in Emails : On(saved.lists, e) = who[e].roles

\* Between its two listings, Read holds the lists of the users there are.
HalfRead ==
  run.pc = "pending" /\ quiet =>
    \A role \in Roles :
      Range(run.bound[role]) = {e \in Joined : role \in who[e].roles}

OneMoves == \A e, f \in run.moving : e = f

Types == TypeOK /\ Purpose
Sound == MeSpared /\ OnlyTheirs
Exact == OneMoves /\ OutIsEmpty /\ Known /\ Planned /\ Fresh /\ HalfRead

-----------------------------------------------------------------------------
(* Types of what the actions write *)

RunType ==
  [pc: Steps \cup Ended, op: Ops,
   users: SUBSET Emails, invitations: SUBSET Emails,
   move: SUBSET Emails, invite: SUBSET Emails, moving: SUBSET Emails,
   bound: Lists]

LEMMA StandingType ==
  /\ Out \in Standing
  /\ \A roles \in SUBSET Roles :
       Invited(roles) \in Standing /\ Member(roles) \in Standing
BY DEF Out, Invited, Member, Standing

\* Changing one person's standing leaves the others' as they are.
LEMMA OnePerson ==
  ASSUME NEW old \in [Emails -> Standing], NEW e \in Emails,
         NEW standing \in Standing
  PROVE  LET new == [old EXCEPT ![e] = standing]
         IN  /\ new \in [Emails -> Standing]
             /\ new[e] = standing
             /\ \A f \in Emails : f # e => new[f] = old[f]
OBVIOUS

LEMMA RunFields ==
  ASSUME NEW pc \in Steps \cup Ended,
         NEW op \in Ops,
         NEW u \in SUBSET Emails, NEW i \in SUBSET Emails,
         NEW m \in SUBSET Emails, NEW v \in SUBSET Emails,
         NEW g \in SUBSET Emails
  PROVE  LET r == Run(pc, op, u, i, m, v, g)
         IN  /\ r \in RunType
             /\ r.pc = pc /\ r.op = op /\ r.users = u /\ r.invitations = i
             /\ r.move = m /\ r.invite = v /\ r.moving = g
<1>1. Nothing \in Lists BY DEF Nothing, Lists
<1> QED BY <1>1 DEF Run, RunType

\* A run at rest, or between two calls of which it holds nothing.
Blank(pc, op) ==
  /\ run' \in RunType
  /\ run'.pc = pc /\ run'.op = op
  /\ run'.users = {} /\ run'.invitations = {} /\ run'.move = {}
  /\ run'.invite = {} /\ run'.moving = {}

LEMMA EndsBlank ==
  ASSUME NEW how \in {"done", "failed"}, Ends(how)
  PROVE  Blank(how, "none")
BY RunFields, how \in Steps \cup Ended DEF Ends, Blank, Ended, Ops

LEMMA GoesBlank ==
  ASSUME NEW pc \in {"read", "plan", "create", "users"},
         NEW op \in Ops, Goes(pc, op)
  PROVE  Blank(pc, op)
BY RunFields, pc \in Steps \cup Ended DEF Goes, Blank, Steps

LEMMA WorkTypes ==
  ASSUME TypeOK
  PROVE  /\ WorkOfUpdate \in RunType /\ WorkOfUpdate.pc = "work"
         /\ WorkOfUpdate.op = "update" /\ WorkOfUpdate.moving = {}
         /\ WorkOfDelete \in RunType /\ WorkOfDelete.pc = "work"
         /\ WorkOfDelete.op = "delete" /\ WorkOfDelete.moving = {}
         /\ WorkOfDelete.move = {} /\ WorkOfDelete.invite = {}
         /\ WorkOfCreate \in RunType /\ WorkOfCreate.pc = "work"
         /\ WorkOfCreate.op = "create" /\ WorkOfCreate.moving = {}
         /\ WorkOfCreate.move = {}
<1>1. /\ "work" \in Steps \cup Ended
      /\ {"update", "delete", "create"} \subseteq Ops
  BY DEF Steps, Ops
<1>2. run.users \in SUBSET Emails BY DEF TypeOK
<1>3. /\ ToDelete \in SUBSET Emails /\ ToMove \in SUBSET Emails
      /\ ToAdd \in SUBSET Emails /\ Pending \in SUBSET Emails
  BY DEF ToDelete, ToMove, ToAdd, Pending
<1>4. WorkOfUpdate \in RunType /\ WorkOfUpdate.pc = "work"
      /\ WorkOfUpdate.op = "update" /\ WorkOfUpdate.moving = {}
  <2> DEFINE u == ToDelete \cap run.users
             i == ((ToDelete \cup ToMove) \cap Pending) \ run.users
             m == ToMove \cap run.users
             v == ToAdd \cup (ToMove \ run.users)
  <2>1. /\ u \in SUBSET Emails /\ i \in SUBSET Emails /\ m \in SUBSET Emails
        /\ v \in SUBSET Emails /\ {} \in SUBSET Emails
    BY <1>2, <1>3
  <2>2. WorkOfUpdate = Run("work", "update", u, i, m, v, {})
    BY DEF WorkOfUpdate
  <2> HIDE DEF u, i, m, v
  <2> QED BY <1>1, <2>1, <2>2, RunFields
<1>5. WorkOfDelete \in RunType /\ WorkOfDelete.pc = "work"
      /\ WorkOfDelete.op = "delete" /\ WorkOfDelete.moving = {}
      /\ WorkOfDelete.move = {} /\ WorkOfDelete.invite = {}
  <2>1. run.users \ {Me} \in SUBSET Emails BY <1>2
  <2> QED BY <1>1, <1>3, <2>1, RunFields DEF WorkOfDelete
<1>6. WorkOfCreate \in RunType /\ WorkOfCreate.pc = "work"
      /\ WorkOfCreate.op = "create" /\ WorkOfCreate.moving = {}
      /\ WorkOfCreate.move = {}
  <2> DEFINE v == {e \in Emails : On(want, e) # {} /\ ~(e = Me /\ On(want, e) = {Owner})}
  <2>1. v \in SUBSET Emails OBVIOUS
  <2>2. WorkOfCreate = Run("work", "create", {}, {}, {}, v, {})
    BY DEF WorkOfCreate
  <2> HIDE DEF v
  <2> QED BY <1>1, <2>1, <2>2, RunFields
<1> QED BY <1>4, <1>5, <1>6

\* The lists that CAST AI gives of some people.
LEMMA ListOfPeople ==
  ASSUME NEW people \in SUBSET Emails
  PROVE  /\ ListOf(people) \in Lists
         /\ \A role \in Roles :
              Range(ListOf(people)[role]) = {e \in people : role \in who[e].roles}
<1>1. \A role \in Roles :
        {e \in people : role \in who[e].roles} \in SUBSET Emails
  OBVIOUS
<1>2. \A role \in Roles :
        ListOf(people)[role] = Listing[{e \in people : role \in who[e].roles}]
  BY DEF ListOf
<1>3. \A role \in Roles :
        /\ Listing[{e \in people : role \in who[e].roles}] \in Seq(Emails)
        /\ Range(Listing[{e \in people : role \in who[e].roles}])
             = {e \in people : role \in who[e].roles}
  BY <1>1, ListingAssumption
<1> QED BY <1>2, <1>3 DEF ListOf, Lists

LEMMA SavedTypes ==
  ASSUME TypeOK, Purpose
  PROVE  /\ ReadLists \in Lists
         /\ AfterError \in [exists: BOOLEAN, tainted: BOOLEAN, lists: Lists]
         /\ NotSaved \in [exists: BOOLEAN, tainted: BOOLEAN, lists: Lists]
<1>1. ReadLists \in Lists
  <2>1. ListOf(Pending) \in Lists BY ListOfPeople DEF Pending
  <2>2. run.bound \in Lists BY DEF TypeOK
  <2>3. \A role \in Roles :
          run.bound[role] \o ListOf(Pending)[role] \in Seq(Emails)
    BY <2>1, <2>2, ConcatProperties DEF Lists
  <2> QED BY <2>3 DEF ReadLists, Lists
<1>2. run.op \in {"update", "create"} => want \in Lists
  BY ConfigsAssumption DEF TypeOK, Purpose, Lists
<1>3. NotSaved \in [exists: BOOLEAN, tainted: BOOLEAN, lists: Lists]
  BY DEF NotSaved, Nothing, Lists
<1> QED BY <1>1, <1>2, <1>3 DEF AfterError, TypeOK

\* Nobody is configured for two roles.
LEMMA OneRole ==
  ASSUME NEW lists \in Configs, NEW e \in Emails
  PROVE  /\ On(lists, e) \in SUBSET Roles
         /\ \A x, y \in On(lists, e) : x = y
BY ConfigsAssumption DEF On

LEMMA FewMove ==
  /\ Cardinality({}) <= 1
  /\ \A e : Cardinality({e}) <= 1
BY FS_EmptySet, FS_Singleton

LEMMA AtMostOne ==
  ASSUME NEW S \in SUBSET Roles, Cardinality(S) <= 1
  PROVE  \A x, y \in S : x = y
<1>1. IsFiniteSet(S) BY PeopleAssumption, FS_Subset
<1>2. Cardinality(S) \in Nat BY <1>1, FS_CardinalityType
<1>3. Cardinality(S) = 0 \/ Cardinality(S) = 1 BY <1>2
<1>4. S = {} \/ \E x : S = {x} BY <1>1, <1>3, FS_EmptySet, FS_Singleton
<1> QED BY <1>4

-----------------------------------------------------------------------------
(* The calls *)

\* What an answered call leaves of the run: nothing is added but the one user
\* who is being moved, and that one was to be moved.
Advances ==
  /\ run' \in RunType
  /\ run'.pc \in Working /\ run'.op = run.op
  /\ run'.users \subseteq run.users
  /\ run'.invitations \subseteq run.invitations
  /\ run'.move \subseteq run.move
  /\ run'.invite \subseteq run.invite
  /\ run'.moving \subseteq run.move \cup run.moving
  /\ Cardinality(run'.moving) <= 1
  /\ run'.pc = "work" => run'.moving = {}

LEMMA CallAdvances ==
  ASSUME TypeOK, Purpose, NEW answered \in BOOLEAN, Call(answered)
  PROVE  /\ who' \in [Emails -> Standing]
         /\ run.pc \in Working
         /\ IF answered THEN Advances ELSE Blank("failed", "none")
<1>a. /\ run \in RunType /\ who \in [Emails -> Standing]
      /\ Cardinality(run.moving) <= 1
  BY DEF TypeOK, RunType
<1>b. Ends("failed") => Blank("failed", "none") BY EndsBlank
<1>c. run.pc = "work" => run.moving = {} BY DEF Purpose
<1>d. \A roles \in SUBSET Roles :
        Invited(roles) \in Standing /\ Member(roles) \in Standing
  BY StandingType
<1>e. Out \in Standing BY StandingType
<1>1. CASE RemoveUser(answered)
  <2>1. PICK e \in run.users :
          /\ UsersTurn
          /\ who' = [who EXCEPT ![e] = Out]
          /\ GoesOn(answered, [run EXCEPT !.users = @ \ {e}])
    BY <1>1 DEF RemoveUser
  <2>2. who' \in [Emails -> Standing] BY <1>a, <1>e, <2>1
  <2>3. ASSUME answered PROVE Advances
    BY <1>a, <1>c, <2>1, <2>3 DEF GoesOn, UsersTurn, Advances, RunType, Working
  <2> QED BY <1>b, <2>1, <2>2, <2>3 DEF GoesOn, UsersTurn, Working
<1>2. CASE DeleteInvitation(answered)
  <2>1. PICK e \in run.invitations :
          /\ InvitationsTurn
          /\ who' = [who EXCEPT ![e] = Out]
          /\ GoesOn(answered, [run EXCEPT !.invitations = @ \ {e}])
    BY <1>2 DEF DeleteInvitation
  <2>2. who' \in [Emails -> Standing] BY <1>a, <1>e, <2>1
  <2>3. ASSUME answered PROVE Advances
    BY <1>a, <1>c, <2>1, <2>3
    DEF GoesOn, InvitationsTurn, Advances, RunType, Working
  <2> QED BY <1>b, <2>1, <2>2, <2>3 DEF GoesOn, InvitationsTurn, Working
<1>3. CASE MoveOut(answered)
  <2>1. PICK e \in run.move :
          /\ MoveTurn
          /\ who' = [who EXCEPT ![e] = Out]
          /\ GoesOn(answered, [run EXCEPT !.pc = "add", !.move = @ \ {e},
                                          !.moving = {e}])
    BY <1>3 DEF MoveOut
  <2>2. who' \in [Emails -> Standing] BY <1>a, <1>e, <2>1
  <2>3. ASSUME answered PROVE Advances
    <3>1. run' = [run EXCEPT !.pc = "add", !.move = @ \ {e}, !.moving = {e}]
      BY <2>1, <2>3 DEF GoesOn
    <3>2. e \in Emails BY <1>a, <2>1 DEF RunType
    <3>3. run' \in RunType BY <1>a, <3>1, <3>2 DEF RunType, Steps
    <3>4. run'.moving = {e} /\ run'.pc = "add" BY <1>a, <3>1 DEF RunType
    <3>5. Cardinality(run'.moving) <= 1 BY <3>4, FewMove
    <3> QED BY <1>a, <2>1, <3>1, <3>3, <3>4, <3>5 DEF Advances, RunType, Working
  <2> QED BY <1>b, <2>1, <2>2, <2>3 DEF GoesOn, MoveTurn, Working
<1>4. CASE MoveIn(answered)
  <2>1. PICK e \in run.moving :
          /\ run.pc = "add"
          /\ who' = [who EXCEPT ![e] = Member({})]
          /\ GoesOn(answered, [run EXCEPT !.pc = "bind"])
    BY <1>4 DEF MoveIn
  <2>2. who' \in [Emails -> Standing] BY <1>a, <1>d, <2>1
  <2>3. ASSUME answered PROVE Advances
    BY <1>a, <2>1, <2>3 DEF GoesOn, Advances, RunType, Working, Steps
  <2> QED BY <1>b, <2>1, <2>2, <2>3 DEF GoesOn, Working
<1>5. CASE Bind(answered)
  <2>1. PICK e \in run.moving :
          /\ run.pc = "bind"
          /\ who' = [who EXCEPT ![e] = Member(@.roles \cup On(want, e))]
          /\ GoesOn(answered, [run EXCEPT !.pc = "work", !.moving = {}])
    BY <1>5 DEF Bind
  <2>2. who' \in [Emails -> Standing]
    <3>1. e \in Emails BY <1>a, <2>1 DEF RunType
    <3>2. On(want, e) \in SUBSET Roles
      BY DEF On
    <3>3. (who[e].roles \cup On(want, e)) \in SUBSET Roles
      BY <1>a, <3>1, <3>2 DEF Standing
    <3>4. Member(who[e].roles \cup On(want, e)) \in Standing BY <1>d, <3>3
    <3> QED BY <1>a, <2>1, <3>4
  <2>3. ASSUME answered PROVE Advances
    <3>1. run' = [run EXCEPT !.pc = "work", !.moving = {}]
      BY <2>1, <2>3 DEF GoesOn
    <3>2. Cardinality(run'.moving) <= 1 BY <1>a, <3>1, FewMove DEF RunType
    <3> QED BY <1>a, <3>1, <3>2 DEF Advances, RunType, Working, Steps
  <2> QED BY <1>b, <2>1, <2>2, <2>3 DEF GoesOn, Working
<1>6. CASE Invite(answered)
  <2>1. /\ InviteTurn
        /\ who' = [e \in Emails |-> IF e \in run.invite THEN Invited(On(want, e))
                                    ELSE who[e]]
        /\ GoesOn(answered, [run EXCEPT !.invite = {}])
    BY <1>6 DEF Invite
  <2>2. who' \in [Emails -> Standing]
    <3>1. \A e \in run.invite : On(want, e) \in SUBSET Roles
      BY DEF On
    <3>2. \A e \in run.invite : Invited(On(want, e)) \in Standing
      BY <1>d, <3>1
    <3> QED BY <1>a, <2>1, <3>2
  <2>3. ASSUME answered PROVE Advances
    BY <1>a, <1>c, <2>1, <2>3 DEF GoesOn, InviteTurn, Advances, RunType, Working
  <2> QED BY <1>b, <2>1, <2>2, <2>3 DEF GoesOn, InviteTurn, Working
<1> QED BY <1>1, <1>2, <1>3, <1>4, <1>5, <1>6 DEF Call

-----------------------------------------------------------------------------
(* Type correctness *)

LEMMA TypesInit == Init => Types
<1> SUFFICES ASSUME Init PROVE Types OBVIOUS
<1>1. {} \in SUBSET Emails /\ "idle" \in Steps \cup Ended BY DEF Ended
<1>2. run \in RunType /\ run.pc = "idle" /\ run.op = "none"
      /\ run.move = {} /\ run.invite = {} /\ run.moving = {}
  BY <1>1, RunFields DEF Init, Ops
<1>3. who \in [Emails -> Standing]
  <2>1. \A role \in Roles : {role} \in SUBSET Roles OBVIOUS
  <2>2. \A role \in Roles : Member({role}) \in Standing
    BY <2>1, StandingType
  <2>3. {Out} \cup {Member({role}) : role \in Roles} \subseteq Standing
    BY <2>2, StandingType
  <2> QED BY <2>3 DEF Init
<1>4. saved \in [exists: BOOLEAN, tainted: BOOLEAN, lists: Lists]
  BY DEF Init, NotSaved, Nothing, Lists
<1>5. Cardinality(run.moving) <= 1 BY <1>2, FewMove
<1>6. TypeOK
  BY <1>2, <1>3, <1>4, <1>5, TroubleAssumption DEF Init, TypeOK, RunType
<1> QED BY <1>2, <1>6 DEF Types, Purpose

\* Steps that end a run, or start its next part with nothing in hand.
LEMMA BlankTypes ==
  ASSUME Types, NEW pc, NEW op, Blank(pc, op),
         who' \in [Emails -> Standing], want' \in Configs \cup {Absent},
         saved' \in [exists: BOOLEAN, tainted: BOOLEAN, lists: Lists],
         quiet' \in BOOLEAN, trouble' \in 0..MaxTrouble,
         pc \notin {"add", "bind"},
         pc \in Ended \cup {"plan"} => op = "none",
         pc = "read" => op \in {"none", "import"},
         pc = "create" => op = "create",
         pc \in {"users", "invitations"} => op \in {"update", "delete"},
         op \in {"update", "create"} => want' # Absent
  PROVE  Types'
<1>1. Cardinality(run'.moving) <= 1 BY FewMove DEF Blank
<1> QED BY <1>1 DEF Types, TypeOK, Purpose, Blank, RunType

LEMMA TypesNext == ASSUME Types, [Next]_vars PROVE Types'
<1> USE DEF Types
<1>a. /\ who \in [Emails -> Standing] /\ want \in Configs \cup {Absent}
      /\ saved \in [exists: BOOLEAN, tainted: BOOLEAN, lists: Lists]
      /\ quiet \in BOOLEAN /\ trouble \in 0..MaxTrouble
      /\ run \in RunType /\ Cardinality(run.moving) <= 1
  BY DEF TypeOK, RunType
<1>b. Trouble => trouble' \in 0..MaxTrouble
  BY <1>a, TroubleAssumption DEF Trouble
<1>c. /\ ReadLists \in Lists
      /\ AfterError \in [exists: BOOLEAN, tainted: BOOLEAN, lists: Lists]
      /\ NotSaved \in [exists: BOOLEAN, tainted: BOOLEAN, lists: Lists]
  BY SavedTypes
<1>d. Ends("failed") => Blank("failed", "none") BY EndsBlank
<1>e. Ends("done") => Blank("done", "none") BY EndsBlank
<1>f. "failed" \in Ended /\ "done" \in Ended BY DEF Ended
<1>g. Refused => Types'
  BY <1>a, <1>c, <1>d, <1>f, BlankTypes DEF Refused
<1>1. CASE StartApply
  <2>1. \/ Blank("read", "none")
        \/ Blank("create", "create") /\ want # Absent
        \/ Blank("done", "none")
    BY <1>1, <1>e, GoesBlank DEF StartApply, Ops
  <2>2. who' = who /\ want' = want /\ saved' = saved /\ quiet' = TRUE
        /\ trouble' = trouble
    BY <1>1 DEF StartApply
  <2>3. "create" \notin Ended BY DEF Ended
  <2> QED BY <1>a, <2>1, <2>2, <2>3, BlankTypes
<1>2. CASE ListRoleBindings
  <2>1. run' = [run EXCEPT !.pc = "pending", !.bound = ListOf(Joined)]
    BY <1>2 DEF ListRoleBindings
  <2>2. ListOf(Joined) \in Lists BY ListOfPeople DEF Joined
  <2>3. run' \in RunType BY <1>a, <2>1, <2>2 DEF RunType, Steps
  <2>4. /\ run'.pc = "pending" /\ run'.op = run.op
        /\ run'.move = run.move /\ run'.invite = run.invite
        /\ run'.moving = run.moving
    BY <1>a, <2>1 DEF RunType
  <2>5. run.moving = {} BY <1>2 DEF ListRoleBindings, WorkDone, Purpose
  <2>6. run.op \in {"none", "import", "create", "update"}
    BY <1>2 DEF ListRoleBindings, Purpose
  <2>7. "pending" \notin Ended BY DEF Ended
  <2>8. Purpose' BY <1>2, <2>4, <2>5, <2>6, <2>7 DEF ListRoleBindings, Purpose
  <2> QED BY <1>2, <1>a, <2>3, <2>4, <2>8
          DEF ListRoleBindings, TypeOK, RunType
<1>3. CASE Plan
  <2>1. \/ Blank("users", "delete")
        \/ Blank("done", "none")
        \/ Blank("users", "update") /\ want # Absent
    BY <1>3, <1>e, GoesBlank DEF Plan, Ops
  <2>2. "users" \notin Ended BY DEF Ended
  <2> QED BY <1>3, <1>a, <2>1, <2>2, BlankTypes DEF Plan
<1>4. CASE Create
  <2>1. run' = WorkOfCreate BY <1>4 DEF Create
  <2>2. want # Absent
    BY <1>4 DEF Create, Purpose
  <2>3. "work" \notin Ended BY DEF Ended
  <2>4. Cardinality(run'.moving) <= 1 BY <2>1, WorkTypes, FewMove
  <2> QED BY <1>4, <1>a, <2>1, <2>2, <2>3, <2>4, WorkTypes
          DEF Create, TypeOK, Purpose, RunType
<1>5. CASE ListUsers
  <2>1. run' = [run EXCEPT !.pc = "invitations", !.users = Joined]
    BY <1>5 DEF ListUsers
  <2>2. run' \in RunType BY <1>a, <2>1 DEF RunType, Steps, Joined
  <2>3. /\ run'.pc = "invitations" /\ run'.op = run.op
        /\ run'.move = run.move /\ run'.invite = run.invite
        /\ run'.moving = run.moving
    BY <1>a, <2>1 DEF RunType
  <2>4. "invitations" \notin Ended BY DEF Ended
  <2> QED BY <1>5, <1>a, <2>2, <2>3, <2>4
          DEF ListUsers, TypeOK, Purpose, RunType
<1>6. CASE ListInvitations
  <2>1. \/ run' = WorkOfUpdate /\ run.op = "update"
        \/ run' = WorkOfDelete
    BY <1>6 DEF ListInvitations
  <2>2. "work" \notin Ended BY DEF Ended
  <2>3. Cardinality(run'.moving) <= 1 BY <2>1, WorkTypes, FewMove
  <2> QED BY <1>6, <1>a, <2>1, <2>2, <2>3, WorkTypes
          DEF ListInvitations, TypeOK, Purpose, RunType
<1>7. CASE RemovesMyselfRefused BY <1>7, <1>g DEF RemovesMyselfRefused
<1>8. CASE CallDone
  <2>1. who' \in [Emails -> Standing] /\ Advances /\ run.pc \in Working
    BY <1>8, CallAdvances DEF CallDone
  <2>2. run'.pc \notin Ended
                       \cup {"read", "pending", "plan", "create", "users",
                        "invitations"}
    BY <2>1 DEF Advances, Working, Ended
  <2>3. Purpose'
    BY <1>8, <2>1, <2>2 DEF CallDone, Advances, Purpose, Working
  <2> QED BY <1>8, <1>a, <2>1, <2>3 DEF CallDone, TypeOK, Advances, RunType
<1>9. CASE CallRefused BY <1>9, <1>g DEF CallRefused
<1>10. CASE ListPending
  <2>1. saved' \in [exists: BOOLEAN, tainted: BOOLEAN, lists: Lists]
    BY <1>10, <1>a, <1>c DEF ListPending
  <2>2. Blank("plan", "none") \/ Blank("done", "none")
    BY <1>10, <1>e, GoesBlank DEF ListPending, Ops
  <2>3. UNCHANGED <<who, want, quiet, trouble>> BY <1>10 DEF ListPending
  <2> QED BY <1>a, <1>f, <2>1, <2>2, <2>3, BlankTypes
<1>11. CASE DeleteDone
  <2>1. \/ Blank("done", "none")
        \/ Blank("create", "create") /\ want # Absent
    BY <1>11, <1>e, GoesBlank DEF DeleteDone, Ops
  <2>2. "create" \notin Ended BY DEF Ended
  <2> QED BY <1>11, <1>a, <1>c, <2>1, <2>2, BlankTypes DEF DeleteDone
<1>12. CASE Fails
  BY <1>12, <1>a, <1>b, <1>c, <1>d, <1>f, BlankTypes DEF Fails
<1>13. CASE AnswerLost
  <2>1. who' \in [Emails -> Standing] /\ Blank("failed", "none")
    BY <1>13, CallAdvances DEF AnswerLost
  <2> QED BY <1>13, <1>a, <1>b, <1>c, <1>f, <2>1, BlankTypes DEF AnswerLost
<1>14. CASE Import
  <2>1. Blank("read", "import") BY <1>14, GoesBlank DEF Import, Ops
  <2>2. "read" \notin Ended BY DEF Ended
  <2>3. UNCHANGED <<who, want, saved>> /\ quiet' = TRUE BY <1>14 DEF Import
  <2>4. trouble' \in 0..MaxTrouble BY <1>14, <1>b DEF Import
  <2> QED BY <1>a, <2>1, <2>2, <2>3, <2>4, BlankTypes
<1>15. CASE EditConfig
  <2>1. run.op = "none" BY <1>15 DEF EditConfig, Purpose
  <2> QED BY <1>15, <1>a, <1>b, <2>1 DEF EditConfig, TypeOK, Purpose, RunType
<1>16. ASSUME NEW e \in Emails, Accept(e) PROVE Types'
  <2>1. Member(who[e].roles) \in Standing
    BY <1>a, StandingType DEF Standing
  <2> QED BY <1>16, <1>a, <2>1 DEF Accept, TypeOK, Purpose, RunType
<1>17. ASSUME NEW e \in Emails, Console(e) PROVE Types'
  <2>1. \A roles \in SUBSET Roles :
          Invited(roles) \in Standing /\ Member(roles) \in Standing
    BY StandingType
  <2>2. Out \in Standing BY StandingType
  <2>3. \A role \in Roles : Invited({role}) \in Standing BY <2>1
  <2>4. who' \in [Emails -> Standing]
    BY <1>17, <1>a, <2>1, <2>2, <2>3 DEF Console
  <2> QED BY <1>17, <1>a, <1>b, <2>4 DEF Console, TypeOK, Purpose, RunType
<1>18. CASE UNCHANGED vars BY <1>18, <1>a DEF vars, TypeOK, Purpose, RunType
<1> QED
  BY <1>1, <1>2, <1>3, <1>4, <1>5, <1>6, <1>7, <1>8, <1>9, <1>10, <1>11,
     <1>12, <1>13, <1>14, <1>15, <1>16, <1>17, <1>18
  DEF Next, Terraform

\* Every variable of OrganizationMembers keeps its type, and a run moves one
\* user at a time.
THEOREM Typing == Spec => []TypeOK
<1>1. Types /\ [Next]_vars => Types' BY TypesNext
<1>2. Types => TypeOK BY DEF Types
<1> QED BY <1>1, <1>2, TypesInit, PTL DEF Spec

LEMMA Typed == Spec => []Types
<1>1. Types /\ [Next]_vars => Types' BY TypesNext
<1> QED BY <1>1, TypesInit, PTL DEF Spec

-----------------------------------------------------------------------------
(* Whom a run has work for *)

LEMMA WorkFields ==
  ASSUME TypeOK
  PROVE  /\ WorkOfUpdate.users = ToDelete \cap run.users
         /\ WorkOfUpdate.invitations
              = ((ToDelete \cup ToMove) \cap Pending) \ run.users
         /\ WorkOfUpdate.move = ToMove \cap run.users
         /\ WorkOfUpdate.invite = ToAdd \cup (ToMove \ run.users)
         /\ WorkOfDelete.users = run.users \ {Me}
         /\ WorkOfCreate.users = {}
BY DEF WorkOfUpdate, WorkOfDelete, WorkOfCreate, Run

LEMMA SoundInit == Init => Sound
BY DEF Init, Run, Sound, MeSpared, OnlyTheirs, Working

LEMMA NotWorking == ASSUME run'.pc \notin Working PROVE Sound'
BY DEF Sound, MeSpared, OnlyTheirs

LEMMA Untouched ==
  ASSUME Sound, UNCHANGED <<run, saved, want>> PROVE Sound'
BY DEF Sound, MeSpared, OnlyTheirs

LEMMA SoundNext == ASSUME Types, Sound, [Next]_vars PROVE Sound'
<1> USE DEF Types
<1>a. \A how \in {"done", "failed"} : Ends(how) => Sound'
  BY EndsBlank, NotWorking DEF Blank, Working
<1>b. \A pc \in {"read", "plan", "create", "users"}, op \in Ops : Goes(pc, op) => Sound'
  BY GoesBlank, NotWorking DEF Blank, Working
<1>c. Refused => Sound' BY <1>a DEF Refused
<1>1. CASE StartApply BY <1>1, <1>a, <1>b DEF StartApply, Ops
<1>2. CASE ListRoleBindings
  <2>1. run'.pc = "pending" BY <1>2 DEF ListRoleBindings, TypeOK
  <2> QED BY <2>1, NotWorking DEF Working
<1>3. CASE Plan BY <1>3, <1>a, <1>b DEF Plan, Ops
<1>4. CASE Create
  BY <1>4, WorkTypes, WorkFields DEF Create, Sound, MeSpared, OnlyTheirs
<1>5. CASE ListUsers
  <2>1. run'.pc = "invitations" BY <1>5 DEF ListUsers, TypeOK
  <2> QED BY <2>1, NotWorking DEF Working
<1>6. CASE ListInvitations
  <2>1. CASE run.op = "update"
    <3>1. run' = WorkOfUpdate /\ Me \notin WorkOfUpdate.users
      BY <1>6, <2>1 DEF ListInvitations, RemovesMyself
    <3>2. \A e \in ToDelete \cup ToMove \cup ToAdd : On(saved.lists, e) # On(want, e)
      BY DEF ToDelete, ToMove, ToAdd, Deleted, Added
    <3>3. \A e \in run'.users \cup run'.invitations \cup run'.move
                   \cup run'.invite \cup run'.moving :
            e \in ToDelete \cup ToMove \cup ToAdd
      BY <3>1, WorkTypes, WorkFields
    <3>4. saved' = saved /\ want' = want BY <1>6 DEF ListInvitations
    <3> QED BY <3>1, <3>2, <3>3, <3>4 DEF Sound, MeSpared, OnlyTheirs
  <2>2. CASE run.op # "update"
    <3>1. run' = WorkOfDelete BY <1>6, <2>2 DEF ListInvitations
    <3> QED BY <3>1, WorkTypes, WorkFields DEF Sound, MeSpared, OnlyTheirs
  <2> QED BY <2>1, <2>2
<1>7. CASE RemovesMyselfRefused BY <1>7, <1>c DEF RemovesMyselfRefused
<1>8. CASE CallDone
  <2>1. Advances /\ run.pc \in Working BY <1>8, CallAdvances DEF CallDone
  <2>2. saved' = saved /\ want' = want BY <1>8 DEF CallDone
  <2>3. MeSpared' BY <2>1 DEF Sound, MeSpared, Advances
  <2>4. OnlyTheirs' BY <2>1, <2>2 DEF Sound, OnlyTheirs, Advances
  <2> QED BY <2>3, <2>4 DEF Sound
<1>9. CASE CallRefused BY <1>9, <1>c DEF CallRefused
<1>10. CASE ListPending BY <1>10, <1>a, <1>b DEF ListPending, Ops
<1>11. CASE DeleteDone BY <1>11, <1>a, <1>b DEF DeleteDone, Ops
<1>12. CASE Fails BY <1>12, <1>a DEF Fails
<1>13. CASE AnswerLost
  <2>1. Blank("failed", "none") BY <1>13, CallAdvances DEF AnswerLost
  <2> QED BY <2>1, NotWorking DEF Blank, Working
<1>14. CASE Import BY <1>14, <1>b DEF Import, Ops
<1>15. CASE EditConfig
  BY <1>15, NotWorking DEF EditConfig, Working, Ended
<1>16. ASSUME NEW e \in Emails, Accept(e) PROVE Sound'
  BY <1>16, Untouched DEF Accept
<1>17. ASSUME NEW e \in Emails, Console(e) PROVE Sound'
  BY <1>17, Untouched DEF Console
<1>18. CASE UNCHANGED vars BY <1>18, Untouched DEF vars
<1> QED
  BY <1>1, <1>2, <1>3, <1>4, <1>5, <1>6, <1>7, <1>8, <1>9, <1>10, <1>11,
     <1>12, <1>13, <1>14, <1>15, <1>16, <1>17, <1>18
  DEF Next, Terraform

LEMMA Soundness == Spec => []Sound
<1>1. Types /\ Sound /\ [Next]_vars => Sound' BY SoundNext
<1> QED BY <1>1, SoundInit, Typed, PTL DEF Spec

\* Whose standing a call changes, and from which.
LEMMA CallHits ==
  ASSUME TypeOK, NEW answered \in BOOLEAN, Call(answered),
         NEW e \in Emails, who'[e] # who[e]
  PROVE  \/ e \in run.users /\ run.pc \in Working /\ who'[e] = Out
         \/ e \in run.invitations /\ who[e].kind = "invited" /\ who'[e] = Out
         \/ e \in run.move
         \/ e \in run.moving /\ (who[e].kind = "out" \/ who'[e].kind = "in")
         \/ e \in run.invite /\ who[e].kind = "out"
<1>a. who \in [Emails -> Standing] BY DEF TypeOK
<1>1. CASE RemoveUser(answered)
  BY <1>1, <1>a DEF RemoveUser, UsersTurn, Working
<1>2. CASE DeleteInvitation(answered) BY <1>2, <1>a DEF DeleteInvitation
<1>3. CASE MoveOut(answered) BY <1>3, <1>a DEF MoveOut
<1>4. CASE MoveIn(answered) BY <1>4, <1>a DEF MoveIn
<1>5. CASE Bind(answered) BY <1>5, <1>a DEF Bind, Member
<1>6. CASE Invite(answered) BY <1>6, <1>a DEF Invite
<1> QED BY <1>1, <1>2, <1>3, <1>4, <1>5, <1>6 DEF Call

\* The steps that change anybody's standing.
LEMMA WhoChanges ==
  ASSUME [Next]_vars, who' # who
  PROVE  \/ \E answered \in BOOLEAN : Call(answered)
         \/ \E e \in Emails : (Accept(e) \/ Console(e)) /\ UNCHANGED run
<1>1. ~StartApply /\ ~ListRoleBindings /\ ~Plan /\ ~Create /\ ~ListUsers
      /\ ~ListInvitations /\ ~RemovesMyselfRefused /\ ~CallRefused
      /\ ~ListPending /\ ~DeleteDone /\ ~Fails /\ ~Import /\ ~EditConfig
  BY DEF StartApply, ListRoleBindings, Plan, Create, ListUsers,
         ListInvitations, RemovesMyselfRefused, Refused, CallRefused,
         ListPending, DeleteDone,
         Fails, Import, EditConfig
<1>2. CallDone \/ AnswerLost => \E answered \in BOOLEAN : Call(answered)
  BY DEF CallDone, AnswerLost
<1>3. \A e \in Emails : Accept(e) \/ Console(e) => UNCHANGED run
  BY DEF Accept, Console
<1> QED BY <1>1, <1>2, <1>3 DEF Next, Terraform, vars

\* What removes the user managing the organization is at most a move between
\* roles: neither a removal by an update nor one by a delete names them.
THEOREM ManagerMovesOnly == Spec => OnlyMovesRemoveMe
<1>1. ASSUME TypeOK, Sound, [Next]_vars,
             who[Me].kind = "in", who'[Me].kind # "in"
      PROVE  Me \in run.move
  <2>a. Me \in Emails /\ who \in [Emails -> Standing]
    BY <1>1, PeopleAssumption DEF TypeOK
  <2>b. who' # who BY <1>1
  <2>1. ASSUME NEW answered \in BOOLEAN, Call(answered) PROVE Me \in run.move
    BY <1>1, <2>a, <2>1, CallHits DEF Sound, MeSpared
  <2>2. ASSUME NEW e \in Emails, Accept(e) PROVE FALSE
    BY <1>1, <2>a, <2>2 DEF Accept, Member
  <2>3. ASSUME NEW e \in Emails, Console(e) PROVE FALSE
    <3>1. CASE e # Me BY <1>1, <2>a, <2>3, <3>1 DEF Console
    <3>2. CASE e = Me
      <4>1. PICK roles \in SUBSET Roles : who' = [who EXCEPT ![e] = Member(roles)]
        BY <1>1, <2>3, <3>2 DEF Console
      <4> QED BY <1>1, <2>a, <3>2, <4>1 DEF Member
    <3> QED BY <3>1, <3>2
  <2> QED BY <1>1, <2>b, <2>1, <2>2, <2>3, WhoChanges
<1>2. Types /\ Sound /\ [Next]_vars =>
        [who[Me].kind = "in" /\ who'[Me].kind # "in" => Me \in run.move]_vars
  BY <1>1 DEF Types
<1> QED BY <1>2, Typed, Soundness, PTL DEF Spec, OnlyMovesRemoveMe

\* An update changes nobody whose lists agree with the configuration.
THEOREM AgreedKept == Spec => AgreedUntouched
<1> DEFINE Kept == run.op = "update" /\ run' # run =>
                     \A e \in Emails : On(saved.lists, e) = On(want, e) => who'[e] = who[e]
<1>1. ASSUME TypeOK, Sound, Purpose, [Next]_vars PROVE Kept
  <2> SUFFICES ASSUME run.op = "update", run' # run, NEW e \in Emails,
                      On(saved.lists, e) = On(want, e), who'[e] # who[e]
               PROVE  FALSE
    OBVIOUS
  <2>1. PICK answered \in BOOLEAN : Call(answered) BY <1>1, WhoChanges
  <2>2. e \in run.users \cup run.invitations \cup run.move
                \cup run.invite \cup run.moving
    BY <1>1, <2>1, CallHits
  <2>3. run.pc \in Working BY <1>1, <2>1, CallAdvances
  <2> QED BY <1>1, <2>2, <2>3 DEF Sound, OnlyTheirs
<1>2. Types /\ Sound /\ [Next]_vars => [Kept]_vars BY <1>1 DEF Types
<1> QED BY <1>2, Typed, Soundness, PTL DEF Spec, AgreedUntouched
-----------------------------------------------------------------------------
(* What an undisturbed update reaches *)

LEMMA ExactInit == Init => Exact
<1> SUFFICES ASSUME Init PROVE Exact OBVIOUS
<1>1. run.pc = "idle" /\ run.op = "none" /\ run.moving = {}
  BY DEF Init, Run
<1>2. OutIsEmpty
  <2>1. \A e \in Emails : who[e] \in {Out} \cup {Member({role}) : role \in Roles}
    BY DEF Init
  <2> QED BY <2>1 DEF OutIsEmpty, Out, Member
<1> QED
  BY <1>1, <1>2 DEF Exact, OneMoves, Known, Planned, Fresh, HalfRead, Working

\* Steps that leave standings alone and end in none of the update's places.
LEMMA Elsewhere ==
  ASSUME Exact, UNCHANGED who, run'.moving = {},
         run'.pc \notin Working \cup {"plan", "pending"},
         run'.pc \in {"users", "invitations"} => run'.op # "update"
  PROVE  Exact'
BY DEF Exact, OneMoves, OutIsEmpty, Known, Planned, Fresh, HalfRead

\* Steps after which the run counts as disturbed.
LEMMA Disturbed ==
  ASSUME quiet' = FALSE, OneMoves', OutIsEmpty' PROVE Exact'
BY DEF Exact, Known, Planned, Fresh, HalfRead

LEMMA BlankElsewhere ==
  ASSUME Exact, NEW pc, NEW op, Blank(pc, op), UNCHANGED who,
         pc \notin Working \cup {"plan", "pending"},
         pc \in {"users", "invitations"} => op # "update"
  PROVE  Exact'
BY Elsewhere DEF Blank

\* Nobody is put outside with a role.
LEMMA CallEmpties ==
  ASSUME TypeOK, NEW answered \in BOOLEAN, Call(answered), OutIsEmpty
  PROVE  OutIsEmpty'
<1>a. who \in [Emails -> Standing] BY DEF TypeOK
<1>1. CASE RemoveUser(answered) BY <1>1, <1>a DEF RemoveUser, OutIsEmpty, Out
<1>2. CASE DeleteInvitation(answered)
  BY <1>2, <1>a DEF DeleteInvitation, OutIsEmpty, Out
<1>3. CASE MoveOut(answered) BY <1>3, <1>a DEF MoveOut, OutIsEmpty, Out
<1>4. CASE MoveIn(answered) BY <1>4, <1>a DEF MoveIn, OutIsEmpty, Member
<1>5. CASE Bind(answered) BY <1>5, <1>a DEF Bind, OutIsEmpty, Member
<1>6. CASE Invite(answered) BY <1>6, <1>a DEF Invite, OutIsEmpty, Invited
<1> QED BY <1>1, <1>2, <1>3, <1>4, <1>5, <1>6 DEF Call

LEMMA CallMovesOne ==
  ASSUME TypeOK, Call(TRUE), OneMoves PROVE OneMoves'
<1>a. run \in RunType BY DEF TypeOK, RunType
<1>1. CASE RemoveUser(TRUE)
  BY <1>1, <1>a DEF RemoveUser, GoesOn, OneMoves, RunType
<1>2. CASE DeleteInvitation(TRUE)
  BY <1>2, <1>a DEF DeleteInvitation, GoesOn, OneMoves, RunType
<1>3. CASE MoveOut(TRUE)
  <2>1. PICK e \in run.move :
          run' = [run EXCEPT !.pc = "add", !.move = @ \ {e}, !.moving = {e}]
    BY <1>3 DEF MoveOut, GoesOn
  <2> QED BY <1>a, <2>1 DEF OneMoves, RunType
<1>4. CASE MoveIn(TRUE) BY <1>4, <1>a DEF MoveIn, GoesOn, OneMoves, RunType
<1>5. CASE Bind(TRUE) BY <1>5, <1>a DEF Bind, GoesOn, OneMoves, RunType
<1>6. CASE Invite(TRUE) BY <1>6, <1>a DEF Invite, GoesOn, OneMoves, RunType
<1> QED BY <1>1, <1>2, <1>3, <1>4, <1>5, <1>6 DEF Call

\* An answered call of an update keeps everybody in hand.
LEMMA CallKeepsInHand ==
  ASSUME TypeOK, Purpose, OneMoves, Call(TRUE), UNCHANGED want,
         NEW f \in Emails, InHand(f)
  PROVE  InHand(f)'
<1>a. /\ who \in [Emails -> Standing] /\ run \in RunType
  BY DEF TypeOK, RunType
<1>1. CASE RemoveUser(TRUE)
  <2>1. PICK e \in run.users :
          /\ run.pc = "work"
          /\ who' = [who EXCEPT ![e] = Out]
          /\ run' = [run EXCEPT !.users = @ \ {e}]
    BY <1>1 DEF RemoveUser, GoesOn, UsersTurn
  <2>2. /\ run'.users = run.users \ {e} /\ run'.pc = "work"
        /\ run'.invitations = run.invitations /\ run'.move = run.move
        /\ run'.invite = run.invite /\ run'.moving = run.moving
    BY <1>a, <2>1 DEF RunType
  <2>3. e \in Emails BY <1>a, <2>1 DEF RunType
  <2>4. CASE f = e
    <3>1. who'[f].roles = {} BY <1>a, <2>1, <2>3, <2>4 DEF Out
    <3>2. On(want, f) = {} BY <2>1, <2>4 DEF InHand
    <3> QED BY <2>2, <2>4, <3>1, <3>2 DEF InHand
  <2>5. CASE f # e BY <1>a, <2>1, <2>2, <2>3, <2>5 DEF InHand
  <2> QED BY <2>4, <2>5
<1>2. CASE DeleteInvitation(TRUE)
  <2>1. PICK e \in run.invitations :
          /\ run.pc = "work"
          /\ who' = [who EXCEPT ![e] = Out]
          /\ run' = [run EXCEPT !.invitations = @ \ {e}]
    BY <1>2 DEF DeleteInvitation, GoesOn, InvitationsTurn
  <2>2. /\ run'.users = run.users /\ run'.pc = "work"
        /\ run'.invitations = run.invitations \ {e} /\ run'.move = run.move
        /\ run'.invite = run.invite /\ run'.moving = run.moving
    BY <1>a, <2>1 DEF RunType
  <2>3. e \in Emails BY <1>a, <2>1 DEF RunType
  <2>4. CASE f = e
    <3>1. who'[f].roles = {} BY <1>a, <2>1, <2>3, <2>4 DEF Out
    <3>2. On(want, f) = {} \/ f \in run.invite BY <2>1, <2>4 DEF InHand
    <3> QED BY <2>2, <2>4, <3>1, <3>2 DEF InHand
  <2>5. CASE f # e BY <1>a, <2>1, <2>2, <2>3, <2>5 DEF InHand
  <2> QED BY <2>4, <2>5
<1>3. CASE MoveOut(TRUE)
  <2>1. PICK e \in run.move :
          /\ run.moving = {}
          /\ who' = [who EXCEPT ![e] = Out]
          /\ run' = [run EXCEPT !.pc = "add", !.move = @ \ {e}, !.moving = {e}]
    BY <1>3 DEF MoveOut, GoesOn, MoveTurn, Purpose
  <2>2. /\ run'.users = run.users /\ run'.pc = "add"
        /\ run'.invitations = run.invitations /\ run'.move = run.move \ {e}
        /\ run'.invite = run.invite /\ run'.moving = {e}
    BY <1>a, <2>1 DEF RunType
  <2>3. e \in Emails BY <1>a, <2>1 DEF RunType
  <2>4. CASE f = e BY <2>2, <2>4 DEF InHand
  <2>5. CASE f # e
    <3>1. who'[f] = who[f] BY <1>a, <2>1, <2>3, <2>5
    <3> QED BY <2>1, <2>2, <2>5, <3>1 DEF InHand
  <2> QED BY <2>4, <2>5
<1>4. CASE MoveIn(TRUE)
  <2>1. PICK e \in run.moving :
          /\ who' = [who EXCEPT ![e] = Member({})]
          /\ run' = [run EXCEPT !.pc = "bind"]
    BY <1>4 DEF MoveIn, GoesOn
  <2>2. /\ run'.users = run.users /\ run'.pc = "bind"
        /\ run'.invitations = run.invitations /\ run'.move = run.move
        /\ run'.invite = run.invite /\ run'.moving = run.moving
    BY <1>a, <2>1 DEF RunType
  <2>3. e \in Emails BY <1>a, <2>1 DEF RunType
  <2>4. CASE f = e
    <3>1. who'[f].roles = {} BY <1>a, <2>1, <2>3, <2>4 DEF Member
    <3> QED BY <2>1, <2>2, <2>4, <3>1 DEF InHand
  <2>5. CASE f # e
    <3>1. who'[f] = who[f] BY <1>a, <2>1, <2>3, <2>5
    <3>2. f \notin run.moving BY <2>1, <2>5 DEF OneMoves
    <3> QED BY <2>2, <3>1, <3>2 DEF InHand
  <2> QED BY <2>4, <2>5
<1>5. CASE Bind(TRUE)
  <2>1. PICK e \in run.moving :
          /\ run.pc = "bind"
          /\ who' = [who EXCEPT ![e] = Member(@.roles \cup On(want, e))]
          /\ run' = [run EXCEPT !.pc = "work", !.moving = {}]
    BY <1>5 DEF Bind, GoesOn
  <2>2. /\ run'.users = run.users /\ run'.pc = "work"
        /\ run'.invitations = run.invitations /\ run'.move = run.move
        /\ run'.invite = run.invite /\ run'.moving = {}
    BY <1>a, <2>1 DEF RunType
  <2>3. e \in Emails BY <1>a, <2>1 DEF RunType
  <2>4. CASE f = e
    <3>1. who[f].roles = {} BY <2>1, <2>4 DEF InHand
    <3>2. who'[f].roles = who[f].roles \cup On(want, f)
      BY <1>a, <2>1, <2>3, <2>4 DEF Member
    <3>3. who'[f].roles = On(want, f) BY <3>1, <3>2
    <3> QED BY <2>2, <3>3 DEF InHand
  <2>5. CASE f # e
    <3>1. who'[f] = who[f] BY <1>a, <2>1, <2>3, <2>5
    <3>2. f \notin run.moving BY <2>1, <2>5 DEF OneMoves
    <3> QED BY <2>2, <3>1, <3>2 DEF InHand
  <2> QED BY <2>4, <2>5
<1>6. CASE Invite(TRUE)
  <2>1. /\ run.pc = "work" /\ run.users = {} /\ run.invitations = {}
        /\ who' = [e \in Emails |-> IF e \in run.invite THEN Invited(On(want, e))
                                    ELSE who[e]]
        /\ run' = [run EXCEPT !.invite = {}]
    BY <1>6 DEF Invite, GoesOn, InviteTurn
  <2>2. /\ run'.users = run.users /\ run'.pc = "work"
        /\ run'.invitations = run.invitations /\ run'.move = run.move
        /\ run'.invite = {} /\ run'.moving = run.moving
    BY <1>a, <2>1 DEF RunType
  <2>3. CASE f \in run.invite
    <3>1. who'[f].roles = On(want, f) BY <2>1, <2>3 DEF Invited
    <3> QED BY <2>1, <2>2, <3>1 DEF InHand
  <2>4. CASE f \notin run.invite
    <3>1. who'[f] = who[f] BY <2>1, <2>4
    <3> QED BY <2>1, <2>2, <2>4, <3>1 DEF InHand
  <2> QED BY <2>3, <2>4
<1> QED BY <1>1, <1>2, <1>3, <1>4, <1>5, <1>6 DEF Call
\* An undisturbed update that knows what is there takes everybody in hand.
LEMMA WorkTakesInHand ==
  ASSUME TypeOK, Purpose, OutIsEmpty, run.op = "update",
         NEW e \in Emails, Cardinality(On(saved.lists, e)) <= 1,
         On(saved.lists, e) = who[e].roles, run.users = Joined,
         run' = WorkOfUpdate, UNCHANGED <<who, want>>
  PROVE  InHand(e)'
<1>1. /\ want \in Configs
      /\ On(want, e) \in SUBSET Roles /\ On(saved.lists, e) \in SUBSET Roles
  BY DEF TypeOK, Purpose, On
<1>2. /\ \A x, y \in On(want, e) : x = y
      /\ \A x, y \in On(saved.lists, e) : x = y
  BY <1>1, AtMostOne, OneRole
<1>3. e \in ToDelete => On(want, e) = {}
  BY <1>1, <1>2 DEF ToDelete, ToMove, Deleted, Added
<1>4. /\ run'.users = ToDelete \cap run.users
      /\ run'.invitations = ((ToDelete \cup ToMove) \cap Pending) \ run.users
      /\ run'.move = ToMove \cap run.users
      /\ run'.invite = ToAdd \cup (ToMove \ run.users)
      /\ run'.moving = {}
  BY WorkFields, WorkTypes
<1>5. e \in run'.users => On(want, e) = {} BY <1>3, <1>4
<1>6. e \in run'.invitations => On(want, e) = {} \/ e \in run'.invite
  BY <1>3, <1>4
<1>7. \/ e \in run'.users \cup run'.invitations \cup run'.move \cup run'.invite
      \/ who[e].roles = On(want, e)
  <2>1. CASE On(saved.lists, e) = On(want, e) BY <2>1
  <2>2. CASE e \in ToMove BY <1>4, <2>2
  <2>3. CASE e \in ToAdd BY <1>4, <2>3
  <2>4. CASE e \in ToDelete
    <3>1. CASE e \in run.users BY <1>4, <2>4, <3>1
    <3>2. CASE e \in Pending \ run.users BY <1>4, <2>4, <3>2
    <3>3. CASE e \notin run.users /\ e \notin Pending
      <4>1. who[e].kind = "out"
        BY <3>3 DEF Joined, Pending, TypeOK, Standing
      <4>2. who[e].roles = {} BY <4>1 DEF OutIsEmpty
      <4> QED BY <1>3, <2>4, <4>2
    <3> QED BY <3>1, <3>2, <3>3
  <2>5. On(saved.lists, e) = On(want, e) \/ e \in ToMove \/ e \in ToAdd \/ e \in ToDelete
    BY DEF ToMove, ToAdd, ToDelete, Deleted, Added
  <2> QED BY <2>1, <2>2, <2>3, <2>4, <2>5
<1> QED BY <1>4, <1>5, <1>6, <1>7 DEF InHand

\* A Read during which nobody accepts finds everybody on the lists of their
\* roles.
LEMMA ReadIsComplete ==
  ASSUME TypeOK, OutIsEmpty, HalfRead, run.pc = "pending", quiet
  PROVE  \A e \in Emails : On(ReadLists, e) = who[e].roles
<1> TAKE e \in Emails
<1>1. /\ run.bound \in Lists /\ who[e] \in Standing BY DEF TypeOK
<1>2. ListOf(Pending) \in Lists BY ListOfPeople DEF Pending
<1>3. \A role \in Roles :
        Range(ReadLists[role])
          = {f \in Joined : role \in who[f].roles}
              \cup {f \in Pending : role \in who[f].roles}
  <2> TAKE role \in Roles
  <2>1. ReadLists[role] = run.bound[role] \o ListOf(Pending)[role]
    BY DEF ReadLists
  <2>2. /\ run.bound[role] \in Seq(Emails)
        /\ ListOf(Pending)[role] \in Seq(Emails)
    BY <1>1, <1>2 DEF Lists
  <2>3. Range(ReadLists[role])
          = Range(run.bound[role]) \cup Range(ListOf(Pending)[role])
    BY <2>1, <2>2, RangeConcatenation
  <2>4. Range(run.bound[role]) = {f \in Joined : role \in who[f].roles}
    BY DEF HalfRead
  <2>5. Range(ListOf(Pending)[role]) = {f \in Pending : role \in who[f].roles}
    BY ListOfPeople DEF Pending
  <2> QED BY <2>3, <2>4, <2>5
<1>4. who[e].roles \in SUBSET Roles BY <1>1 DEF Standing
<1>5. e \in Joined \cup Pending \/ who[e].roles = {}
  BY <1>1 DEF Joined, Pending, OutIsEmpty, Standing
<1> QED BY <1>3, <1>4, <1>5 DEF On

LEMMA ExactNext == ASSUME Types, Types', Exact, [Next]_vars PROVE Exact'
<1> USE DEF Types
<1>a. \A how \in {"done", "failed"} : Ends(how) /\ UNCHANGED who => Exact'
  BY EndsBlank, BlankElsewhere DEF Working
<1>b. Goes("create", "create") /\ UNCHANGED who => Exact'
  BY GoesBlank, BlankElsewhere DEF Working, Ops
<1>c. Refused => Exact' BY <1>a DEF Refused
<1>d. OneMoves /\ OutIsEmpty BY DEF Exact
<1>1. CASE StartApply
  <2>1. CASE Goes("read", "none") /\ UNCHANGED who
    BY <2>1, GoesBlank, BlankElsewhere DEF Working, Ops
  <2> QED BY <1>1, <1>a, <1>b, <2>1 DEF StartApply
<1>2. CASE ListRoleBindings
  <2>1. /\ run'.pc = "pending" /\ run'.bound = ListOf(Joined)
        /\ run'.moving = run.moving /\ who' = who
    BY <1>2 DEF ListRoleBindings, TypeOK
  <2>2. HalfRead' BY <2>1, ListOfPeople DEF HalfRead, Joined
  <2>3. OutIsEmpty' /\ OneMoves' BY <1>d, <2>1 DEF OutIsEmpty, OneMoves
  <2> QED BY <2>1, <2>2, <2>3 DEF Exact, Known, Planned, Fresh, Working
<1>3. CASE Plan
  <2>1. UNCHANGED <<who, saved, quiet>> /\ run.pc = "plan" BY <1>3 DEF Plan
  <2>2. CASE Goes("users", "delete")
    BY <2>1, <2>2, GoesBlank, BlankElsewhere DEF Working, Ops
  <2>3. CASE Goes("users", "update")
    <3>1. Blank("users", "update") BY <2>3, GoesBlank DEF Ops
    <3>2. Known'
      BY <2>1, <3>1 DEF Exact, Known, Fresh, HalfRead, Blank
    <3>3. OutIsEmpty' BY <1>d, <2>1 DEF OutIsEmpty
    <3> QED BY <3>1, <3>2, <3>3
            DEF Exact, Blank, OneMoves, Fresh, HalfRead, Planned, Working
  <2> QED BY <1>3, <1>a, <2>1, <2>2, <2>3 DEF Plan
<1>4. CASE Create
  <2>1. /\ run'.pc = "work" /\ run'.op = "create" /\ run'.moving = {}
        /\ who' = who
    BY <1>4, WorkTypes DEF Create
  <2>2. OutIsEmpty' BY <1>d, <2>1 DEF OutIsEmpty
  <2> QED BY <2>1, <2>2 DEF Exact, OneMoves, Known, Planned, Fresh, HalfRead
<1>5. CASE ListUsers
  <2>1. UNCHANGED <<who, saved, quiet>> /\ run.pc = "users"
    BY <1>5 DEF ListUsers
  <2>2. /\ run'.pc = "invitations" /\ run'.op = run.op
        /\ run'.users = Joined /\ run'.moving = run.moving
    BY <1>5 DEF ListUsers, TypeOK
  <2>3. Known'
    BY <2>1, <2>2 DEF Exact, Known, Joined
  <2>4. OutIsEmpty' /\ OneMoves' BY <1>d, <2>1, <2>2 DEF OutIsEmpty, OneMoves
  <2> QED BY <2>2, <2>3, <2>4 DEF Exact, Planned, Fresh, HalfRead, Working
<1>6. CASE ListInvitations
  <2>1. /\ UNCHANGED <<who, want, saved, quiet>> /\ run.pc = "invitations"
    BY <1>6 DEF ListInvitations
  <2>2. OutIsEmpty' BY <1>d, <2>1 DEF OutIsEmpty
  <2>3. CASE run.op = "update"
    <3>1. run' = WorkOfUpdate BY <1>6, <2>3 DEF ListInvitations
    <3>2. run'.pc = "work" /\ run'.moving = {} BY <3>1, WorkTypes
    <3>3. Planned'
      <4> SUFFICES ASSUME quiet, NEW e \in Emails,
                          Cardinality(On(saved.lists, e)) <= 1
                   PROVE  InHand(e)'
        BY <2>1 DEF Planned
      <4>1. On(saved.lists, e) = who[e].roles /\ run.users = Joined
        BY <2>1, <2>3 DEF Exact, Known
      <4> QED BY <1>d, <2>1, <2>3, <3>1, <4>1, WorkTakesInHand
    <3> QED BY <2>2, <3>2, <3>3 DEF Exact, OneMoves, Known, Fresh, HalfRead
  <2>4. CASE run.op # "update"
    <3>1. run' = WorkOfDelete BY <1>6, <2>4 DEF ListInvitations
    <3>2. run'.pc = "work" /\ run'.op = "delete" /\ run'.moving = {}
      BY <3>1, WorkTypes
    <3> QED BY <2>2, <3>2 DEF Exact, OneMoves, Known, Planned, Fresh, HalfRead
  <2> QED BY <2>3, <2>4
<1>7. CASE RemovesMyselfRefused BY <1>7, <1>c DEF RemovesMyselfRefused
<1>8. CASE CallDone
  <2>1. Call(TRUE) /\ UNCHANGED <<want, saved, quiet>> BY <1>8 DEF CallDone
  <2>2. Advances /\ run.pc \in Working BY <2>1, CallAdvances
  <2>3. OutIsEmpty' BY <1>d, <2>1, CallEmpties
  <2>4. OneMoves' BY <1>d, <2>1, CallMovesOne
  <2>5. Planned'
    <3> SUFFICES ASSUME run'.op = "update", quiet, NEW e \in Emails,
                        Cardinality(On(saved.lists, e)) <= 1
                 PROVE  InHand(e)'
      BY <2>1 DEF Planned
    <3>1. run.op = "update" BY <2>2 DEF Advances
    <3>2. InHand(e) BY <2>2, <3>1 DEF Exact, Planned
    <3> QED BY <1>d, <2>1, <3>2, CallKeepsInHand
  <2> QED BY <2>2, <2>3, <2>4, <2>5 DEF Exact, Advances, Known, Fresh, HalfRead, Working
<1>9. CASE CallRefused BY <1>9, <1>c DEF CallRefused
<1>10. CASE ListPending
  <2>1. UNCHANGED <<who, quiet>> /\ run.pc = "pending" BY <1>10 DEF ListPending
  <2>2. CASE Ends("done") BY <1>a, <2>1, <2>2
  <2>3. CASE run.op = "none" /\ Goes("plan", "none")
    <3>1. Blank("plan", "none") BY <2>3, GoesBlank DEF Ops
    <3>2. saved'.lists = ReadLists BY <1>10, <2>3 DEF ListPending, TypeOK
    <3>3. Fresh'
      BY <1>d, <2>1, <3>2, ReadIsComplete DEF Exact, Fresh
    <3>4. OutIsEmpty' BY <1>d, <2>1 DEF OutIsEmpty
    <3> QED BY <3>1, <3>3, <3>4
            DEF Exact, Blank, OneMoves, Known, Planned, HalfRead, Working
  <2> QED BY <1>10, <2>2, <2>3 DEF ListPending
<1>11. CASE DeleteDone BY <1>11, <1>a, <1>b DEF DeleteDone
<1>12. CASE Fails BY <1>12, <1>a DEF Fails
<1>13. CASE AnswerLost
  <2>1. Call(FALSE) /\ quiet' = FALSE BY <1>13 DEF AnswerLost
  <2>2. Blank("failed", "none") BY <2>1, CallAdvances
  <2>3. OutIsEmpty' BY <1>d, <2>1, CallEmpties
  <2> QED BY <2>1, <2>2, <2>3, Disturbed DEF Blank, OneMoves
<1>14. CASE Import
  <2>1. Blank("read", "import") /\ who' = who
    BY <1>14, GoesBlank DEF Import, Ops
  <2> QED BY <2>1, BlankElsewhere DEF Working
<1>15. CASE EditConfig
  <2>1. run' = run /\ who' = who /\ run.pc \in Ended BY <1>15 DEF EditConfig
  <2> QED BY <2>1, Elsewhere DEF Purpose, Ended, Working
<1>16. ASSUME NEW e \in Emails, Accept(e) PROVE Exact'
  <2>1. OneMoves' /\ quiet' = FALSE BY <1>16, <1>d DEF Accept, OneMoves
  <2>2. OutIsEmpty' BY <1>16, <1>d DEF Accept, OutIsEmpty, Member, TypeOK
  <2> QED BY <2>1, <2>2, Disturbed
<1>17. ASSUME NEW e \in Emails, Console(e) PROVE Exact'
  <2>1. OneMoves' /\ quiet' = FALSE BY <1>17, <1>d DEF Console, OneMoves
  <2>2. OutIsEmpty'
    <3>1. CASE \E role \in Roles : who' = [who EXCEPT ![e] = Invited({role})]
      BY <1>d, <3>1 DEF OutIsEmpty, Invited, TypeOK
    <3>2. CASE who' = [who EXCEPT ![e] = Out]
      BY <1>d, <3>2 DEF OutIsEmpty, Out, TypeOK
    <3>3. CASE \E roles \in SUBSET Roles : who' = [who EXCEPT ![e] = Member(roles)]
      BY <1>d, <3>3 DEF OutIsEmpty, Member, TypeOK
    <3> QED BY <1>17, <3>1, <3>2, <3>3 DEF Console
  <2> QED BY <2>1, <2>2, Disturbed
<1>18. CASE UNCHANGED vars
  BY <1>18 DEF vars, Exact, OneMoves, OutIsEmpty, Known, Planned, Fresh, HalfRead,
               InHand, Joined, Working
<1> QED
  BY <1>1, <1>2, <1>3, <1>4, <1>5, <1>6, <1>7, <1>8, <1>9, <1>10, <1>11,
     <1>12, <1>13, <1>14, <1>15, <1>16, <1>17, <1>18
  DEF Next, Terraform

\* An update that ran without fault and interference has given everybody the
\* configured role and nobody another, for any number of people and roles.
THEOREM PlanReached == Spec => []AppliedAsPlanned
<1>1. Types /\ Types' /\ Exact /\ [Next]_vars => Exact' BY ExactNext
<1>2. ASSUME Types, Exact PROVE AppliedAsPlanned
  <2> SUFFICES ASSUME WorkDone, run.op = "update", quiet, NEW e \in Emails,
                      Cardinality(On(saved.lists, e)) <= 1
               PROVE  who[e].roles = On(want, e)
    BY DEF AppliedAsPlanned
  <2>1. run.pc = "work" /\ run.moving = {} BY <1>2 DEF WorkDone, Types, Purpose
  <2>2. InHand(e) BY <1>2, <2>1 DEF Exact, Planned, Working
  <2> QED BY <2>1, <2>2 DEF InHand, WorkDone
<1>3. Types /\ Exact => AppliedAsPlanned BY <1>2
<1> QED BY <1>1, <1>3, ExactInit, Typed, PTL DEF Spec
=============================================================================
