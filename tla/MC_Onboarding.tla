---- MODULE MC_Onboarding ----
(* Small instances of Onboarding: two requests, two pods, two audiences.    *)
(* Handlers and pods are interchangeable: the runs check safety only.       *)
EXTENDS Onboarding, TLC

CONSTANTS h1, h2, p1, p2, base, other

Symmetry == Permutations({h1, h2}) \cup Permutations({p1, p2})
====
