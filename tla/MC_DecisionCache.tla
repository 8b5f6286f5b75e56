---- MODULE MC_DecisionCache ----
(* Small instances of DecisionCache: the fields risk_level and             *)
(* device_compliant, a value that is accepted and one that is not.         *)
EXTENDS DecisionCache, TLC

CONSTANTS risk, compliant, high, bogus, w1, w2, r1

(* Neither the writers nor the fields are told apart by any action. *)
Symmetry == Permutations({w1, w2}) \cup Permutations({risk, compliant})
====
