--------------------------- MODULE CommitmentKeys ---------------------------
(***************************************************************************)
(* What a commitment configuration says it is for                          *)
(* (castai/resource_commitments_mapping.go): a name, and optionally a      *)
(* region and a type.                                                      *)
(***************************************************************************)
EXTENDS Naturals, Sequences

CONSTANTS
  Names, Regions, Types,
  Any          \* a region or type the matcher leaves out

Keys == [name: Names, region: Regions, type: Types]
Matchers == [name: Names, region: Regions \cup {Any}, type: Types \cup {Any}]

\* A field the configuration does not set matches any value.
Matches(matcher, key) ==
  /\ matcher.name = key.name
  /\ matcher.region \in {Any, key.region}
  /\ matcher.type \in {Any, key.type}

\* What the mapping is for: every configuration is that of one commitment, and
\* every commitment has one configuration at most.
Resolvable(matchers, keys) ==
  /\ \A i \in DOMAIN matchers : \E c \in DOMAIN keys :
       \A d \in DOMAIN keys : Matches(matchers[i], keys[d]) <=> d = c
  /\ \A i, j \in DOMAIN matchers, c \in DOMAIN keys :
       Matches(matchers[i], keys[c]) /\ Matches(matchers[j], keys[c]) => i = j
=============================================================================
