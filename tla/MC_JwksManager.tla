---- MODULE MC_JwksManager ----
(* Small instances of JwksManager: two URIs that serve k1, and a key k2. *)
EXTENDS JwksManager

CONSTANTS u1, u2, k1, k2, t1, t2

Serving == [u \in Uris |-> {k1}]
====
