--------------------------- MODULE MCEdgeLocation ---------------------------
(***************************************************************************)
(* Instances of EdgeLocation for TLC.                                      *)
(***************************************************************************)
EXTENDS EdgeLocation, TLC

CONSTANTS vpcOne, vpcTwo, key1, key2

MCSpecs == {vpcOne, vpcTwo}
MCCreds == {key1, key2}

\* Specifications and credentials are interchangeable (safety runs only).
Symmetry == Permutations(MCSpecs) \cup Permutations(MCCreds)
=============================================================================
