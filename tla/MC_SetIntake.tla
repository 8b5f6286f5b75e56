---- MODULE MC_SetIntake ----
(* Small instances of SetIntake: threads w1 and w2 of pod p1, and one of   *)
(* pod p2, sharing Redis.                                                  *)
EXTENDS SetIntake, TLC

CONSTANTS s1, s2, w1, w2, w3, p1, p2, redis

OnePod == [w \in Workers |-> p1]
TwoPods == (w1 :> p1) @@ (w2 :> p1) @@ (w3 :> p2)

SharedStore == [p \in Pods |-> redis]
====
