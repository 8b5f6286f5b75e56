---- MODULE MC_Enforcement ----
(* Small instances of Enforcement: up to three sessions of alice, one of   *)
(* them with an id that is not hexadecimal, and a session of bob.          *)
EXTENDS Enforcement, TLC

CONSTANTS a1, a2, ax, b1, w1, w2, alice, bob

Owners == [sid \in Sids |-> IF sid = b1 THEN bob ELSE alice]

SetOf(subject, events) == [subject |-> subject, events |-> events]

(* Revocation and account events, alone and next to others. *)
Mixed ==
    {SetOf(alice, <<"session-revoked">>),
     SetOf(alice, <<"account-purged", "risk-level-change">>),
     SetOf(alice, <<"session-established", "account-disabled">>),
     SetOf(bob, <<"session-revoked">>)}

(* SETs with several fast events. *)
Several ==
    {SetOf(alice, <<"session-revoked", "account-disabled">>),
     SetOf(alice, <<"risk-level-change", "sessions-revoked", "account-purged">>)}
====
