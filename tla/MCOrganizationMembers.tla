----------------------- MODULE MCOrganizationMembers -----------------------
(***************************************************************************)
(* Instances of OrganizationMembers for TLC.                               *)
(***************************************************************************)
EXTENDS OrganizationMembers

CONSTANTS me, ann, bob, owner, viewer

MCEmails == {me, ann, bob}
MCTwoEmails == {me, ann}
MCRoles == {owner, viewer}

\* CAST AI lists me first and bob last.
MCListing ==
  [people \in SUBSET MCEmails |->
     SelectSeq(<<me, ann, bob>>, LAMBDA e : e \in people)]
MCListingOfTwo ==
  [people \in SUBSET MCTwoEmails |->
     SelectSeq(<<me, ann>>, LAMBDA e : e \in people)]

OwnersAndViewers(owners, viewers) ==
  [role \in MCRoles |-> IF role = owner THEN owners ELSE viewers]

\* In every order and between the lists; and with an email written twice.
MCConfigs ==
  {OwnersAndViewers(owners, <<>>) : owners \in {<<me, ann>>, <<ann, me>>}}
  \cup {OwnersAndViewers(<<me>>, viewers) :
          viewers \in {<<>>, <<bob>>, <<bob, ann>>, <<bob, bob>>}}
  \cup {OwnersAndViewers(<<>>, <<>>), OwnersAndViewers(<<ann>>, <<me>>)}
MCConfigsOfTwo ==
  {OwnersAndViewers(<<me>>, <<>>), OwnersAndViewers(<<me, ann>>, <<>>),
   OwnersAndViewers(<<ann>>, <<me>>), OwnersAndViewers(<<>>, <<ann>>)}
=============================================================================
