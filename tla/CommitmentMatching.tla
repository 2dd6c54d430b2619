------------------------- MODULE CommitmentMatching -------------------------
(***************************************************************************)
(* mapConfigsToCommitments (castai/resource_commitments_mapping.go), which *)
(* the plan runs on the imported file and the upsert on what CAST AI       *)
(* lists: one step is one iteration of the loop over the configurations.   *)
(***************************************************************************)
EXTENDS CommitmentKeys

CONSTANTS
  Slots,       \* the commitments there may be
  MaxConfigs   \* bound on the number of configurations

\* What the parameters have to be.
MatchingAssumption == MaxConfigs \in Nat

VARIABLES
  remote,    \* the commitments, each with its key
  want,      \* the matchers of the configurations, in their order
  saved,     \* the configuration each commitment was given, 0 for none
  run,       \* the configuration that is next, and how the mapping ended
  quiet, trouble   \* there is none here

vars == <<remote, want, saved, run, quiet, trouble>>

Configs == UNION {[1..n -> Matchers] : n \in 0..MaxConfigs}

TypeOK ==
  /\ DOMAIN remote \subseteq Slots
  /\ remote \in [DOMAIN remote -> Keys]
  /\ want \in Configs
  /\ saved \in [DOMAIN remote -> {0} \cup DOMAIN want]
  /\ run \in [next: Nat \ {0}, outcome: {"none", "ok", "error"}]
  /\ run.next \in DOMAIN want \/ run.next = Len(want) + 1

Init ==
  /\ \E present \in SUBSET Slots : remote \in [present -> Keys]
  /\ want \in Configs
  /\ saved = [c \in DOMAIN remote |-> 0]
  /\ run = [next |-> 1, outcome |-> "none"]
  /\ quiet = TRUE
  /\ trouble = 0

-----------------------------------------------------------------------------
Unmapped == run.outcome = "none" /\ run.next \in DOMAIN want
Config == want[run.next]
Hits == {c \in DOMAIN remote : Matches(Config, remote[c])}

\* "duplicate configuration for %s"
DuplicateConfig == \E i \in 1..(run.next - 1) : want[i] = Config

\* "duplicate import for %s"
DuplicateImport == \E c, d \in Hits : c # d

\* Mutant: a configuration takes over a commitment that has one.
AlreadyAssigned_Missed == FALSE

\* "commitment already assigned to a configuration"
AlreadyAssigned == \E c \in Hits : saved[c] # 0

Bad == DuplicateConfig \/ DuplicateImport \/ AlreadyAssigned \/ Hits = {}

Assign ==
  /\ Unmapped
  /\ ~Bad
  /\ saved' = [c \in DOMAIN remote |-> IF c \in Hits THEN run.next ELSE saved[c]]
  /\ run' = [run EXCEPT !.next = @ + 1]
  /\ UNCHANGED <<remote, want, quiet, trouble>>

Error ==
  /\ Unmapped
  /\ Bad
  /\ run' = [run EXCEPT !.outcome = "error"]
  /\ UNCHANGED <<remote, want, saved, quiet, trouble>>

\* Commitments without a configuration are kept, with none.
Finish ==
  /\ run.outcome = "none"
  /\ run.next = Len(want) + 1
  /\ run' = [run EXCEPT !.outcome = "ok"]
  /\ UNCHANGED <<remote, want, saved, quiet, trouble>>

Next == Assign \/ Error \/ Finish

Spec == Init /\ [][Next]_vars

-----------------------------------------------------------------------------
(* Properties *)

\* The mapping succeeds on exactly the inputs that leave no doubt, whatever
\* the order of configurations and commitments, and then gives a commitment
\* a configuration that matches it, and leaves none out.
MatchIsRight ==
  /\ run.outcome = "ok" =>
       /\ Resolvable(want, remote)
       /\ \A i \in DOMAIN want, c \in DOMAIN remote :
            saved[c] = i <=> Matches(want[i], remote[c])
  /\ run.outcome = "error" => ~Resolvable(want, remote)
=============================================================================
