---- MODULE MC_CorrelationStore ----
(* Small instances of either store: sessions s1 and s2 of alice, s3 of bob. *)
EXTENDS CorrelationStore

CONSTANTS s1, s2, s3, alice, bob, loop, pool

Owners == [sid \in Sids |-> IF sid = s3 THEN bob ELSE alice]

OneSubjectEach == [sid \in Sids |-> {Owners[sid]}]
====
