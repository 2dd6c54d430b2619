---------------------------- MODULE MCSideBySide ----------------------------
(***************************************************************************)
(* Instances of SideBySide for TLC: all the components, or the commitments *)
(* alone.                                                                  *)
(***************************************************************************)
EXTENDS SideBySide

CONSTANTS p, q, r, a, b, n, m, x, y, t, low, high, fine, c1, c2, s1, s2

ASSUME SideBySideAssumption

MCComponents ==
  {"policy", "job", "template", "matching", "commitments", "setting", "secret", "group",
   "identity"}
MCIds == {p, q, r}
MCBindingIds == 1..4
MCClusterIds == 1..5
MCNames == {n, m}
MCSettings == {a, b}
MCClusters == {n, m}
MCSchedules == {a, b}
MCRoles == {a, b}
MCContents == {a, b}
MCAccounts == {a}
MCSpaces == {s1, s2}
MCKinds == {"node", "edge", "order", "reservations"}
MCConnectors == {m, n}
MCLeavesOut == {<<a, b>>}

-----------------------------------------------------------------------------
(* Two commitments that differ in their region only *)

MCRegions == {x, y}
MCTypes == {t}
MCSlots == 1..3
MCCloud == {c1, c2}
MCUsages == {low, high, fine}
MCReadAs == [usage \in MCUsages |-> IF usage = fine THEN high ELSE usage]
MCStrategies == {a, b}
MCKey ==
  [c \in MCCloud |-> [name |-> n, region |-> IF c = c1 THEN x ELSE y, type |-> t]]
Of(region, usage, assigned) ==
  [matcher |-> [name |-> n, region |-> region, type |-> Any],
   value |-> [usage |-> usage, strategy |-> a, assigned |-> assigned]]

\* The third one asks for more decimals than are read; the fourth one cannot be
\* mapped to its file.
MCUploads ==
  {[input |-> {c1, c2}, mode |-> "OVERWRITE", configs |-> <<Of(x, high, TRUE)>>],
   [input |-> {c1, c2}, mode |-> "APPEND",
    configs |-> <<Of(y, high, FALSE), Of(x, low, TRUE)>>],
   [input |-> {c1}, mode |-> "OVERWRITE", configs |-> <<Of(Any, fine, TRUE)>>],
   [input |-> {c1, c2}, mode |-> "APPEND", configs |-> <<Of(Any, low, TRUE)>>],
   [input |-> {c2}, mode |-> "APPEND", configs |-> <<>>]}

(* Role bindings that trade places and names, and two of one name *)

Bind(name, role) == [name |-> name, role |-> role]
MCGroups ==
  {[content |-> a, bindings |-> <<>>],
   [content |-> a, bindings |-> <<Bind(n, a), Bind(m, b)>>],
   [content |-> a, bindings |-> <<Bind(m, a), Bind(n, a)>>],
   [content |-> a, bindings |-> <<Bind(m, b)>>],
   [content |-> b, bindings |-> <<Bind(n, b), Bind(n, a)>>]}

(* Node templates with everything, without a price, with nothing, and with
   taints that nothing is to carry *)

MCChoices == {a, Empty}
With(labels, price, nodes) == [labels |-> labels, price |-> price, nodes |-> nodes]
MCTemplates ==
  {With(a, a, a), With(a, Empty, a), With(Empty, Empty, Empty), With(a, Empty, Empty)}
MCContradictory == {With(a, Empty, Empty)}
=============================================================================
