---- MODULE MC_BigIpAuth ----
(* Small instances of BigIpAuth: two enforcement threads. *)
EXTENDS BigIpAuth

CONSTANTS t1, t2
====
