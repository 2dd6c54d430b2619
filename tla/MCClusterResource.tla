------------------------- MODULE MCClusterResource -------------------------
(***************************************************************************)
(* Instances of ClusterResource for model checking.                        *)
(***************************************************************************)
EXTENDS ClusterResource

CONSTANTS role1, role2, id1, id2, id3, id4

MCCreds == {role1, role2}
MCIds == {id1, id2, id3, id4}
=============================================================================
