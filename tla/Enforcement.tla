----------------------------- MODULE Enforcement -----------------------------
(***************************************************************************)
(* What the bridge does with a verified SET: handle_verified_set dispatches *)
(* its events one after the other, and the fast path kills the correlated  *)
(* APM sessions through the BIG-IP client and keeps the subject-to-session *)
(* mapping in step.                                                        *)
(*                                                                         *)
(* Several background threads run at once, and the iRule on BIG-IP         *)
(* registers and deregisters sessions while they do.  Every call that      *)
(* leaves the thread (a store call, a REST call) is a step of its own.     *)
(* The mapping is the store's promise, one atomic map; SessionIndex shows  *)
(* how far the stores keep it.  DecisionCache models the continuous path.  *)
(***************************************************************************)
EXTENDS Integers, Sequences, FiniteSets

CONSTANTS
    Sids,          \* APM session ids
    NoSid,
    BadIds,        \* ids that _SESSION_ID_RE does not match
    Subjects,      \* correlation keys
    NoSubject,
    Owner,         \* the subject that logged in to each session
    Catalog,       \* SETs: [subject, events], events in the order of the JSON object
    Workers,       \* background-task threads
    Faults,        \* "status", "transport", "silent", "store", "hang", "lost", "reorder"
    MaxSets,       \* bound on the SETs handled
    MaxStarts,     \* bound on the APM sessions that ever start
    MaxExpired     \* bound on the records that outlive their TTL

ASSUME EnforcementAssumption ==
    /\ NoSid \notin Sids
    /\ NoSubject \notin Subjects
    /\ IsFiniteSet(Sids)
    /\ BadIds \subseteq Sids
    /\ Owner \in [Sids -> Subjects]
    /\ \A c \in Catalog : c.subject \in Subjects /\ c.events \in Seq(STRING) /\ c.events # <<>>
    /\ Faults \subseteq {"status", "transport", "silent", "store", "hang", "lost", "reorder"}
    /\ MaxSets \in Nat
    /\ MaxStarts \in Nat
    /\ MaxExpired \in Nat

VARIABLES
    fastPath,      \* bigip_enable_fast_path
    live,          \* sessions that exist on BIG-IP
    calls,         \* iRule calls on their way to the bridge, per session
    subjectOf,     \* the correlation store: the subject of each mapped session
    pc,            \* the next step of each thread
    work,          \* the SET, event and sessions each thread is working on
    report,        \* the EnforcementResult each thread is building, or last built
    handled,       \* SETs handled so far
    started,       \* history: sessions that ever started
    registered,    \* history: sessions the bridge was told of
    purged,        \* history: sessions unmapped by a purge event
    expired        \* history: sessions whose record outlived its TTL

vars == <<fastPath, live, calls, subjectOf, pc, work, report, handled, started,
          registered, purged, expired>>

apm == <<fastPath, live, calls, started, registered>>

-----------------------------------------------------------------------------
(* The mapping table *)

FastEvents ==
    {"session-revoked", "account-credential-change-required", "account-purged",
     "account-disabled", "sessions-revoked"}

ContinuousEvents ==
    {"token-claims-change", "credential-change", "assurance-level-change",
     "device-compliance-change", "risk-level-change", "recovery-activated"}

PurgeEvents == {"account-purged", "account-disabled"}

Paths == {"informational", "continuous", "fast"}

(* Everything else, known or not, is informational. *)
Path(event) ==
    CASE event \in FastEvents -> "fast"
      [] event \in ContinuousEvents -> "continuous"
      [] OTHER -> "informational"

Severity == [informational |-> 0, continuous |-> 1, fast |-> 2]

-----------------------------------------------------------------------------
Steps == {"idle", "event", "kill", "drop", "purge", "hung"}

FastSteps == {"kill", "drop", "purge"}

NoReport == [path |-> "informational", targeted |-> 0, terminated |-> 0]

Idle == [subject |-> NoSubject, todo |-> <<>>, targets |-> {}, terminated |-> {},
         unkilled |-> {}, stale |-> {}, victim |-> NoSid]

(* What a thread knows of its SET; stale and victim are locals of one loop. *)
Job == [subject : Subjects \cup {NoSubject}, todo : Seq(STRING), targets : SUBSET Sids,
        terminated : SUBSET Sids, unkilled : SUBSET Sids, stale : SUBSET Sids,
        victim : Sids \cup {NoSid}]

TypeOK ==
    /\ fastPath \in BOOLEAN
    /\ live \subseteq started
    /\ calls \in [Sids -> SUBSET {"register", "deregister"}]
    /\ subjectOf \in [Sids -> Subjects \cup {NoSubject}]
    /\ pc \in [Workers -> Steps]
    /\ work \in [Workers -> Job]
    /\ report \in [Workers -> [path : Paths, targeted : Nat, terminated : Nat]]
    /\ handled \in Nat
    /\ started \in SUBSET Sids
    /\ registered \in SUBSET Sids
    /\ purged \in SUBSET Sids
    /\ expired \in SUBSET Sids
    /\ \A w \in Workers : pc[w] # "idle" => work[w].todo # <<>> /\ work[w].subject \in Subjects
    /\ \A w \in Workers : pc[w] = "drop" => work[w].victim \in Sids

(* A bridge at work: some sessions have started and are registered. *)
Init ==
    /\ fastPath \in BOOLEAN
    /\ live \in SUBSET Sids
    /\ started = live
    /\ registered = live
    /\ calls = [sid \in Sids |-> {}]
    /\ subjectOf = [sid \in Sids |-> IF sid \in live THEN Owner[sid] ELSE NoSubject]
    /\ pc = [w \in Workers |-> "idle"]
    /\ work = [w \in Workers |-> Idle]
    /\ report = [w \in Workers |-> NoReport]
    /\ handled = 0
    /\ purged = {}
    /\ expired = {}

-----------------------------------------------------------------------------
(* APM and its iRule *)

(* What APM tells the bridge when these sessions end. *)
Closing(sids) ==
    [sid \in Sids |-> calls[sid] \cup IF sid \in sids \cap live THEN {"deregister"} ELSE {}]

(* ACCESS_SESSION_STARTED. *)
StartSession(sid) ==
    /\ Cardinality(started) < MaxStarts
    /\ sid \notin started
    /\ started' = started \cup {sid}
    /\ live' = live \cup {sid}
    /\ calls' = [calls EXCEPT ![sid] = {"register"}]
    /\ UNCHANGED <<fastPath, subjectOf, pc, work, report, handled, registered, purged, expired>>

(* The user logs out or the session times out: ACCESS_SESSION_CLOSED. *)
CloseSession(sid) ==
    /\ sid \in live
    /\ live' = live \ {sid}
    /\ calls' = Closing({sid})
    /\ UNCHANGED <<fastPath, subjectOf, pc, work, report, handled, started, registered, purged, expired>>

(* The record of a session is older than correlation_ttl_seconds: a sweep  *)
(* or Redis drops it, whether the session lives or not.                    *)
Expire(sid) ==
    /\ Cardinality(expired) < MaxExpired
    /\ subjectOf[sid] # NoSubject
    /\ subjectOf' = [subjectOf EXCEPT ![sid] = NoSubject]
    /\ expired' = expired \cup {sid}
    /\ UNCHANGED <<apm, pc, work, report, handled, purged>>

(* POST /correlation/sessions. *)
Register(sid) ==
    /\ "register" \in calls[sid]
    /\ calls' = [calls EXCEPT ![sid] = @ \ {"register"}]
    /\ subjectOf' = [subjectOf EXCEPT ![sid] = Owner[sid]]
    /\ registered' = registered \cup {sid}
    /\ UNCHANGED <<fastPath, live, pc, work, report, handled, started, purged, expired>>

(* Mutant: the session is not found, nothing is removed. *)
Deregister_NoOp(sid) ==
    /\ "deregister" \in calls[sid]
    /\ calls' = [calls EXCEPT ![sid] = @ \ {"deregister"}]
    /\ UNCHANGED <<fastPath, live, subjectOf, pc, work, report, handled, started, registered, purged, expired>>

(* DELETE /correlation/sessions/{sid}.  The iRule sends it long after the  *)
(* registration; only a reordering network delivers it first.              *)
Deregister(sid) ==
    /\ "deregister" \in calls[sid]
    /\ "register" \in calls[sid] => "reorder" \in Faults
    /\ calls' = [calls EXCEPT ![sid] = @ \ {"deregister"}]
    /\ subjectOf' = [subjectOf EXCEPT ![sid] = NoSubject]
    /\ UNCHANGED <<fastPath, live, pc, work, report, handled, started, registered, purged, expired>>

(* The iRule does not retry a call that fails. *)
LoseCall(sid) ==
    /\ "lost" \in Faults
    /\ \E c \in calls[sid] : calls' = [calls EXCEPT ![sid] = @ \ {c}]
    /\ UNCHANGED <<fastPath, live, subjectOf, pc, work, report, handled, started, registered, purged, expired>>

-----------------------------------------------------------------------------
(* One background thread *)

Goto(w, step) == pc' = [pc EXCEPT ![w] = step]

Event(w) == Head(work[w].todo)

Remaining(w) == work[w].targets \ (work[w].terminated \cup work[w].unkilled)

SessionsFor(subject) == {sid \in Sids : subjectOf[sid] = subject}

(* An exception nobody on the way catches: _process logs it, the rest of   *)
(* the SET is dropped.                                                     *)
Abort(w) ==
    /\ Goto(w, "idle")
    /\ work' = [work EXCEPT ![w] = Idle]
    /\ UNCHANGED report

(* handle_verified_set takes up a SET. *)
HandleVerifiedSet(w, set) ==
    /\ pc[w] = "idle"
    /\ handled < MaxSets
    /\ handled' = handled + 1
    /\ Goto(w, "event")
    /\ work' = [work EXCEPT ![w] = [Idle EXCEPT !.subject = set.subject, !.todo = set.events]]
    /\ report' = [report EXCEPT ![w] = NoReport]
    /\ UNCHANGED <<apm, subjectOf, purged, expired>>

(* The summary so far, with one more event in it. *)
Summarize(w) ==
    LET path == Path(Event(w)) IN
    [path |-> IF Severity[path] > Severity[report[w].path] THEN path ELSE report[w].path,
     targeted |-> IF Cardinality(work[w].targets) > report[w].targeted
                  THEN Cardinality(work[w].targets) ELSE report[w].targeted,
     terminated |-> report[w].terminated + Cardinality(work[w].terminated)]

(* The event at hand is done: the list comprehension moves on, or the SET  *)
(* is done.                                                                *)
EndEvent(w) ==
    LET rest == Tail(work[w].todo) IN
    /\ report' = [report EXCEPT ![w] = Summarize(w)]
    /\ Goto(w, IF rest = <<>> THEN "idle" ELSE "event")
    /\ work' = [work EXCEPT ![w] =
                   IF rest = <<>> THEN Idle
                   ELSE [Idle EXCEPT !.subject = work[w].subject, !.todo = rest]]

(* _handle_one_event for an event that is not on the fast path: logged, or *)
(* written to the decision cache.  That raises when _localized is handed   *)
(* something else than a dict, when the record in the cache or the merged  *)
(* one does not validate (DecisionCache tells when), or when the store is  *)
(* down: the later events of the SET are never looked at.                  *)
HandleOtherEvent(w) ==
    /\ pc[w] = "event"
    /\ Path(Event(w)) # "fast"
    /\ \/ EndEvent(w)
       \/ Path(Event(w)) = "continuous" /\ Abort(w)
    /\ UNCHANGED <<apm, subjectOf, handled, purged, expired>>

(* _enforce_fast asks correlation.sessions_for, once. *)
Lookup(w) ==
    /\ pc[w] = "event"
    /\ Path(Event(w)) = "fast"
    /\ LET found == SessionsFor(work[w].subject) IN
       \/ found = {} /\ EndEvent(w)
       \/ /\ found # {}
          /\ Goto(w, "kill")
          /\ work' = [work EXCEPT ![w].targets = found]
          /\ UNCHANGED report
       \/ "store" \in Faults /\ Abort(w)
    /\ UNCHANGED <<apm, subjectOf, handled, purged, expired>>

(* Mutant: a failed kill is not caught. *)
NotKilled_Escapes(w, sid) ==
    /\ pc[w] = "kill"
    /\ sid \in Remaining(w)
    /\ sid \in BadIds \/ ~fastPath \/ "status" \in Faults
    /\ Abort(w)
    /\ UNCHANGED <<apm, subjectOf, handled, purged, expired>>

(* terminate_session refuses the id, or the fast path is switched off, or  *)
(* BIG-IP answers with an error status, in time to have acted or not.      *)
NotKilled(w, sid) ==
    /\ pc[w] = "kill"
    /\ sid \in Remaining(w)
    /\ work' = [work EXCEPT ![w].unkilled = @ \cup {sid}]
    /\ \/ /\ sid \in BadIds \/ ~fastPath
          /\ UNCHANGED <<live, calls>>
       \/ /\ sid \notin BadIds /\ fastPath /\ "status" \in Faults
          /\ \E gone \in {{}, {sid}} : live' = live \ gone /\ calls' = Closing(gone)
    /\ UNCHANGED <<fastPath, subjectOf, pc, report, handled, started, registered, purged, expired>>

(* The REST call itself fails, with an httpx error or an answer that is    *)
(* not JSON: neither is a BigIpError.                                      *)
CallBreaks(w, sid) ==
    /\ pc[w] = "kill"
    /\ sid \in Remaining(w) \ BadIds
    /\ fastPath
    /\ "transport" \in Faults
    /\ \E gone \in {{}, {sid}} : live' = live \ gone /\ calls' = Closing(gone)
    /\ Abort(w)
    /\ UNCHANGED <<fastPath, subjectOf, handled, started, registered, purged, expired>>

(* Mutant: the mapping is dropped before the call. *)
Kill_DropsFirst(w, sid) ==
    /\ pc[w] = "kill"
    /\ sid \in Remaining(w) \ BadIds
    /\ fastPath
    /\ subjectOf' = [subjectOf EXCEPT ![sid] = NoSubject]
    /\ Goto(w, "drop")
    /\ work' = [work EXCEPT ![w].victim = sid]
    /\ UNCHANGED <<apm, report, handled, purged, expired>>

(* BIG-IP answers below 400.  The text of the answer is not looked at, so  *)
(* a tmsh command that did nothing passes for a kill.                      *)
Kill(w, sid) ==
    /\ pc[w] = "kill"
    /\ sid \in Remaining(w) \ BadIds
    /\ fastPath
    /\ \E gone \in IF "silent" \in Faults THEN {{}, {sid}} ELSE {{sid}} :
          live' = live \ gone /\ calls' = Closing(gone)
    /\ Goto(w, "drop")
    /\ work' = [work EXCEPT ![w].victim = sid]
    /\ UNCHANGED <<fastPath, subjectOf, report, handled, started, registered, purged, expired>>

(* Mutant: a killed session stays mapped. *)
Drop_Skipped(w) ==
    /\ pc[w] = "drop"
    /\ Goto(w, "kill")
    /\ work' = [work EXCEPT ![w].terminated = @ \cup {work[w].victim}, ![w].victim = NoSid]
    /\ UNCHANGED <<apm, subjectOf, report, handled, purged, expired>>

(* correlation.deregister after a kill. *)
Drop(w) ==
    /\ pc[w] = "drop"
    /\ \/ /\ subjectOf' = [subjectOf EXCEPT ![work[w].victim] = NoSubject]
          /\ Goto(w, "kill")
          /\ work' = [work EXCEPT ![w].terminated = @ \cup {work[w].victim}, ![w].victim = NoSid]
          /\ UNCHANGED report
       \/ "store" \in Faults /\ Abort(w) /\ UNCHANGED subjectOf
    /\ UNCHANGED <<apm, handled, purged, expired>>

(* Mutant: the loop ends after the first session. *)
EndKills_First(w) ==
    /\ pc[w] = "kill"
    /\ work[w].terminated \cup work[w].unkilled # {}
    /\ IF Event(w) \in PurgeEvents /\ work[w].unkilled # {}
       THEN /\ Goto(w, "purge")
            /\ work' = [work EXCEPT ![w].stale = work[w].unkilled]
            /\ UNCHANGED report
       ELSE EndEvent(w)
    /\ UNCHANGED <<apm, subjectOf, handled, purged, expired>>

(* Mutant: account events do not purge. *)
EndKills_NoPurge(w) ==
    /\ pc[w] = "kill"
    /\ Remaining(w) = {}
    /\ EndEvent(w)
    /\ UNCHANGED <<apm, subjectOf, handled, purged, expired>>

(* Every target has been tried. *)
EndKills(w) ==
    /\ pc[w] = "kill"
    /\ Remaining(w) = {}
    /\ IF Event(w) \in PurgeEvents /\ work[w].unkilled # {}
       THEN /\ Goto(w, "purge")
            /\ work' = [work EXCEPT ![w].stale = work[w].unkilled]
            /\ UNCHANGED report
       ELSE EndEvent(w)
    /\ UNCHANGED <<apm, subjectOf, handled, purged, expired>>

(* account-purged and account-disabled: the sessions that were not killed  *)
(* lose their mapping, one after the other.                                *)
Purge(w) ==
    /\ pc[w] = "purge"
    /\ \/ \E sid \in work[w].stale :
             /\ subjectOf' = [subjectOf EXCEPT ![sid] = NoSubject]
             /\ purged' = purged \cup {sid}
             /\ IF work[w].stale = {sid}
                THEN EndEvent(w)
                ELSE /\ work' = [work EXCEPT ![w].stale = @ \ {sid}]
                     /\ UNCHANGED <<pc, report>>
       \/ "store" \in Faults /\ Abort(w) /\ UNCHANGED <<subjectOf, purged>>
    /\ UNCHANGED <<apm, handled, expired>>

(* The Redis client has no socket timeout: a store call that is never      *)
(* answered holds the thread for ever, carried out or not.  (If the        *)
(* connection is reset after all, the call has failed late.)               *)
Hang(w) ==
    /\ "hang" \in Faults
    /\ \/ /\ pc[w] = "event" /\ Path(Event(w)) # "informational"
          /\ UNCHANGED <<subjectOf, purged>>
       \/ pc[w] \in {"drop", "purge"} /\ UNCHANGED <<subjectOf, purged>>
       \/ /\ pc[w] = "drop"
          /\ subjectOf' = [subjectOf EXCEPT ![work[w].victim] = NoSubject]
          /\ UNCHANGED purged
       \/ /\ pc[w] = "purge"
          /\ \E sid \in work[w].stale : /\ subjectOf' = [subjectOf EXCEPT ![sid] = NoSubject]
                                        /\ purged' = purged \cup {sid}
    /\ Goto(w, "hung")
    /\ UNCHANGED <<apm, work, report, handled, expired>>

Step(w) ==
    \/ HandleOtherEvent(w)
    \/ Lookup(w)
    \/ \E sid \in Sids : NotKilled(w, sid) \/ CallBreaks(w, sid) \/ Kill(w, sid)
    \/ Drop(w)
    \/ EndKills(w)
    \/ Purge(w)

Next ==
    \/ \E sid \in Sids : StartSession(sid) \/ CloseSession(sid)
    \/ \E sid \in Sids : Register(sid) \/ Deregister(sid) \/ LoseCall(sid) \/ Expire(sid)
    \/ \E w \in Workers, set \in Catalog : HandleVerifiedSet(w, set)
    \/ \E w \in Workers : Step(w) \/ Hang(w)

Spec == Init /\ [][Next]_vars

(* A thread that does not hang goes on: httpx gives up after its timeout.  *)
(* Nothing is assumed of a store call that hangs.                          *)
FairSpec == Spec /\ \A w \in Workers : WF_vars(Step(w))

-----------------------------------------------------------------------------
(* The bridge never forgets a session it could still kill: while a         *)
(* registered session lives, its subject leads to it, unless an account    *)
(* event purged it or its record came to the end of its TTL (_enforce_fast *)
(* deregisters only after terminate_session returned).                     *)
LiveStaysMapped ==
    \A sid \in (live \cap registered) \ (purged \cup expired) : subjectOf[sid] = Owner[sid]

(* When no call is on its way and no thread is at work, every mapping      *)
(* leads to a session that exists: kills, failed kills and log-outs leave  *)
(* no mapping behind.                                                      *)
Quiet ==
    /\ \A sid \in Sids : calls[sid] = {}
    /\ \A w \in Workers : pc[w] \in {"idle", "hung"}

NoStaleMapping == Quiet => \A sid \in Sids : subjectOf[sid] # NoSubject => sid \in live

(* "drop it regardless of whether the kill call succeeded, was skipped, or *)
(* failed" (router.py): when a thread is through with an account-purged or *)
(* account-disabled, none of the sessions it looked up is mapped.          *)
PurgeDropsEveryTarget ==
    [][\A w \in Workers :
          pc[w] \in FastSteps /\ pc'[w] \in {"idle", "event"} /\ Event(w) \in PurgeEvents =>
              \A sid \in work[w].targets : subjectOf'[sid] = NoSubject]_vars

(* handle_verified_set goes on to the next event whatever became of the    *)
(* sessions of a fast one: kills that are refused, skipped or answered     *)
(* with an error, and purges, cost no later event, as long as stores and   *)
(* REST calls raise nothing but what _enforce_fast catches.  Only a        *)
(* continuous event may, and so "each event is dispatched independently"   *)
(* (its docstring) holds of SETs without.                                  *)
FastEventsCostNoOther ==
    [][\A w \in Workers :
          pc[w] # "idle" /\ pc'[w] = "idle" =>
              Len(work[w].todo) = 1 \/ Path(Event(w)) = "continuous"]_vars

(* The summary of a SET counts no session twice: its sum over the events   *)
(* never exceeds the sessions there were, though later events of the SET   *)
(* look the same subject up again and other threads kill beside it.        *)
ReportAddsUp == \A w \in Workers : report[w].terminated <= Cardinality(registered)

(* A session found for a fast-path event is gone in the end, whatever the  *)
(* other sessions and events of the SET do, unless the thread hangs.       *)
TargetsEnd ==
    \A w \in Workers, sid \in Sids \ BadIds :
        (fastPath /\ sid \in work[w].targets) ~> (sid \notin live \/ pc[w] = "hung")
=============================================================================
