---- MODULE MC_Poller ----
(* A small instance of Poller: SETs to poll, one of them refused, one pushed. *)
EXTENDS Poller, TLC

CONSTANTS pool1, pool2

(* One pool thread is as good as another. *)
MCSymmetry == Permutations({pool1, pool2})
====
