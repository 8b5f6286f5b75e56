---- MODULE MC_Startup ----
(* Small instances of Startup. *)
EXTENDS Startup
====
