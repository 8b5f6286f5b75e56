--------------------------- MODULE SessionDirectory ---------------------------
(* What the correlation store promises its callers (the CorrelationStore   *)
(* protocol): one map from APM session ids to subjects, changed and read   *)
(* atomically.  Enforcement relies on it; SessionIndex and RedisIndex are  *)
(* the stores that should provide it.                                      *)
CONSTANTS Sids, Subjects, NoSubject

VARIABLES
    subjectOf,     \* the subject of each mapped session
    answer         \* the sessions the last lookup returned

TypeOK ==
    /\ subjectOf \in [Sids -> Subjects \cup {NoSubject}]
    /\ answer \in SUBSET Sids

Init ==
    /\ subjectOf = [sid \in Sids |-> NoSubject]
    /\ answer = {}

Register(sid, subject) ==
    /\ subjectOf' = [subjectOf EXCEPT ![sid] = subject]
    /\ UNCHANGED answer

(* One session on request, or all whose records expire at the same time. *)
Deregister(sids) ==
    /\ subjectOf' = [sid \in Sids |-> IF sid \in sids THEN NoSubject ELSE subjectOf[sid]]
    /\ UNCHANGED answer

SessionsFor(subject) ==
    /\ answer' = {sid \in Sids : subjectOf[sid] = subject}
    /\ UNCHANGED subjectOf

Next ==
    \/ \E sid \in Sids, subject \in Subjects : Register(sid, subject)
    \/ \E sids \in SUBSET Sids : Deregister(sids)
    \/ \E subject \in Subjects : SessionsFor(subject)

Spec == Init /\ [][Next]_<<subjectOf, answer>>
=============================================================================
