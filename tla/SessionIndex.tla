----------------------------- MODULE SessionIndex -----------------------------
(***************************************************************************)
(* InMemoryCorrelationStore, at the granularity at which CPython 3.12 may  *)
(* switch threads: after a call, and at the back edge of a loop.  A run of *)
(* dictionary operations without a call in it is one step.                 *)
(*                                                                         *)
(* The API handlers run on the event loop's thread, the enforcement of     *)
(* SETs on the pool's threads; all of them share the two dictionaries and  *)
(* nothing locks them.  Buckets are objects: a thread may hold one that    *)
(* _by_subject no longer has.                                              *)
(***************************************************************************)
EXTENDS Integers, Sequences, FiniteSets

CONSTANTS
    Sids,          \* apm_session_id values
    Subjects,      \* subject keys
    NoSubject,
    SubjectsOf,    \* the subjects BIG-IP registers each session under
    Threads,
    Api,           \* the threads that serve the correlation API
    Ttl,           \* correlation_ttl_seconds
    MaxTime,       \* bound on the clock
    MaxRegisters   \* bound on the registrations

VARIABLES
    now,           \* the clock
    bySubject,     \* _by_subject: the bucket of each subject, 0 if it has none
    buckets,       \* per subject, its bucket objects: session id -> registered_at
    sessionTo,     \* _session_to_subject
    pc,            \* the next step of each thread
    call,          \* the arguments and locals of each thread's call
    answer,        \* the last list that sessions_for returned
    errors,        \* exceptions raised so far
    registers,     \* registrations so far
    promised,      \* history: the registered_at of each session's last registration,
                   \* -1 without one or when a caller has deregistered it since
    raced,         \* history: see RegisteredUnlessRaced
    overlapped     \* history: a call began while another was at work

vars == <<now, bySubject, buckets, sessionTo, pc, call, answer, errors, registers,
          promised, raced, overlapped>>
store == <<bySubject, buckets, sessionTo>>
history == <<promised, raced, overlapped>>

-----------------------------------------------------------------------------
Steps == {"idle", "insert", "remove", "clean", "iterate", "scan", "sweep", "read"}

(* subject: of register and sessions_for; at: the record's registered_at;  *)
(* owner: the subject that deregister found.                               *)
(* bucket: the object a thread holds.  size: its size when the iteration   *)
(* began.  expired: session ids still to sweep.  sweeping: deregister was  *)
(* called by the sweep.                                                    *)
NoCall == [sid |-> CHOOSE sid \in Sids : TRUE, subject |-> NoSubject, at |-> 0, owner |-> NoSubject,
           bucket |-> 0, size |-> 0, cutoff |-> 0, expired |-> {}, sweeping |-> FALSE]

Empty == [sid \in {} |-> 0]

(* The bucket a thread holds; dict.get's default when the subject has none. *)
Held(t) == IF call[t].bucket = 0 THEN Empty ELSE buckets[call[t].subject][call[t].bucket]

(* The bucket that _by_subject has for a subject. *)
Bucket(subject) == IF bySubject[subject] = 0 THEN Empty ELSE buckets[subject][bySubject[subject]]

TypeOK ==
    /\ now \in 0 .. MaxTime
    /\ \A s \in Subjects : bySubject[s] \in 0 .. Len(buckets[s])
    /\ \A s \in Subjects : \A i \in DOMAIN buckets[s] :
           DOMAIN buckets[s][i] \subseteq Sids /\ \A sid \in DOMAIN buckets[s][i] : buckets[s][i][sid] <= now
    /\ sessionTo \in [Sids -> Subjects \cup {NoSubject}]
    /\ pc \in [Threads -> Steps]
    /\ \A t \in Threads : call[t].sid \in Sids /\ call[t].expired \subseteq Sids
    /\ \A t \in Threads : pc[t] \in {"remove", "clean"} => call[t].owner \in Subjects
    /\ \A t \in Threads : pc[t] \notin {"idle", "remove", "clean"} => call[t].subject \in Subjects
    /\ answer \in SUBSET Sids
    /\ errors \subseteq {"KeyError", "RuntimeError"}
    /\ registers \in 0 .. MaxRegisters
    /\ promised \in [Sids -> -1 .. now]
    /\ raced \in BOOLEAN /\ overlapped \in BOOLEAN

Init ==
    /\ now = 0
    /\ bySubject = [s \in Subjects |-> 0]
    /\ buckets = [s \in Subjects |-> <<>>]
    /\ sessionTo = [sid \in Sids |-> NoSubject]
    /\ pc = [t \in Threads |-> "idle"]
    /\ call = [t \in Threads |-> NoCall]
    /\ answer = {}
    /\ errors = {}
    /\ registers = 0
    /\ promised = [sid \in Sids |-> -1]
    /\ raced = FALSE
    /\ overlapped = FALSE

Goto(t, step) == pc' = [pc EXCEPT ![t] = step]

(* A call of the store begins. *)
Begin(t, step) ==
    /\ pc[t] = "idle"
    /\ Goto(t, step)
    /\ overlapped' = (overlapped \/ \E u \in Threads : pc[u] # "idle")
    /\ UNCHANGED raced

Return(t) ==
    /\ Goto(t, "idle")
    /\ call' = [call EXCEPT ![t] = NoCall]

Raise(t, error) ==
    /\ Return(t)
    /\ errors' = errors \cup {error}

(* Mutant: the sweep deregisters while it iterates. *)
Deregistered_Scans(t) ==
    IF call[t].sweeping
    THEN Goto(t, "scan") /\ UNCHANGED call
    ELSE Return(t)

(* deregister returns, to the sweep or to the caller of the store. *)
Deregistered(t) ==
    IF call[t].sweeping
    THEN Goto(t, "sweep") /\ UNCHANGED call
    ELSE Return(t)

Put(bucket, sid, at) ==
    [x \in DOMAIN bucket \cup {sid} |-> IF x = sid THEN at ELSE bucket[x]]

Without(bucket, sid) == [x \in DOMAIN bucket \ {sid} |-> bucket[x]]

-----------------------------------------------------------------------------
(* register, with a record that has just been built: setdefault hands out  *)
(* the subject's bucket ...                                                *)
Register(t, sid, subject) ==
    /\ t \in Api
    /\ Begin(t, "insert")
    /\ registers < MaxRegisters
    /\ registers' = registers + 1
    /\ LET new == bySubject[subject] = 0
           bucket == IF new THEN Len(buckets[subject]) + 1 ELSE bySubject[subject] IN
       /\ buckets' = IF new THEN [buckets EXCEPT ![subject] = Append(@, Empty)] ELSE buckets
       /\ bySubject' = [bySubject EXCEPT ![subject] = bucket]
       /\ call' = [call EXCEPT ![t] = [NoCall EXCEPT !.sid = sid, !.subject = subject,
                                                     !.at = now, !.bucket = bucket]]
    /\ UNCHANGED <<now, sessionTo, answer, errors, promised>>

(* Mutant: the reverse index is not written. *)
Insert_NoReverse(t) ==
    LET c == call[t] IN
    /\ pc[t] = "insert"
    /\ buckets' = [buckets EXCEPT ![c.subject][c.bucket] = Put(@, c.sid, c.at)]
    /\ Return(t)
    /\ UNCHANGED <<now, bySubject, sessionTo, answer, errors, registers, history>>

(* Another thread is past the point where it decided to take the session   *)
(* out: a deregistration at its second step, or a sweep that has the       *)
(* session on its list.                                                    *)
Doomed(sid) ==
    \E u \in Threads : (pc[u] = "remove" /\ call[u].sid = sid) \/ sid \in call[u].expired

(* ... and the record goes into that bucket and the reverse index. *)
Insert(t) ==
    LET c == call[t] IN
    /\ pc[t] = "insert"
    /\ buckets' = [buckets EXCEPT ![c.subject][c.bucket] = Put(@, c.sid, c.at)]
    /\ sessionTo' = [sessionTo EXCEPT ![c.sid] = c.subject]
    /\ promised' = [promised EXCEPT ![c.sid] = c.at]
    /\ raced' = (raced \/ Doomed(c.sid))
    /\ Return(t)
    /\ UNCHANGED <<now, bySubject, answer, errors, registers, overlapped>>

(* The first step of deregister: the reverse entry is taken.  Without one  *)
(* the call is over.                                                       *)
TakeReverse(sid) ==
    /\ sessionTo' = [sessionTo EXCEPT ![sid] = NoSubject]
    /\ UNCHANGED <<now, bySubject, buckets, answer, errors, registers>>

(* deregister, by the iRule's DELETE or after a kill. *)
Deregister(t, sid) ==
    /\ Begin(t, "remove")
    /\ sessionTo[sid] # NoSubject
    /\ TakeReverse(sid)
    /\ promised' = [promised EXCEPT ![sid] = -1]
    /\ call' = [call EXCEPT ![t] = [NoCall EXCEPT !.sid = sid, !.owner = sessionTo[sid]]]

(* The record leaves its bucket. *)
Remove(t) ==
    LET s == call[t].owner IN
    /\ pc[t] = "remove"
    /\ IF bySubject[s] = 0
       THEN Deregistered(t) /\ UNCHANGED buckets
       ELSE /\ buckets' = [buckets EXCEPT ![s][bySubject[s]] = Without(@, call[t].sid)]
            /\ Goto(t, "clean")
            /\ UNCHANGED call
    /\ UNCHANGED <<now, bySubject, sessionTo, answer, errors, registers, history>>

(* Mutant: the bucket is deleted whatever it holds. *)
Clean_Always(t) ==
    LET s == call[t].owner IN
    /\ pc[t] = "clean"
    /\ IF bySubject[s] = 0
       THEN Raise(t, "KeyError") /\ UNCHANGED bySubject
       ELSE /\ bySubject' = [bySubject EXCEPT ![s] = 0]
            /\ Deregistered(t)
            /\ UNCHANGED errors
    /\ UNCHANGED <<now, buckets, sessionTo, answer, registers, history>>

(* The bucket of a thread that is about to insert into it is deleted. *)
Orphans(s) ==
    Bucket(s) = Empty /\ \E u \in Threads : pc[u] = "insert" /\ call[u].subject = s

(* An empty bucket is deleted; another thread may have done so already. *)
Clean(t) ==
    LET s == call[t].owner IN
    /\ pc[t] = "clean"
    /\ IF bySubject[s] = 0
       THEN Raise(t, "KeyError") /\ UNCHANGED <<bySubject, raced>>
       ELSE /\ bySubject' = IF Bucket(s) = Empty THEN [bySubject EXCEPT ![s] = 0] ELSE bySubject
            /\ Deregistered(t)
            /\ raced' = (raced \/ Orphans(s))
            /\ UNCHANGED errors
    /\ UNCHANGED <<now, buckets, sessionTo, answer, registers, promised, overlapped>>

(* sessions_for, by the lookup endpoint or the fast path: the sweep fixes  *)
(* its cutoff and fetches the bucket.                                      *)
SessionsFor(t, subject) ==
    /\ Begin(t, "iterate")
    /\ call' = [call EXCEPT ![t] = [NoCall EXCEPT !.subject = subject, !.bucket = bySubject[subject],
                                                  !.cutoff = now - Ttl, !.sweeping = TRUE]]
    /\ UNCHANGED <<now, store, answer, errors, registers, promised>>

(* The iterator over the bucket notes its size ... *)
Iterate(t) ==
    /\ pc[t] = "iterate"
    /\ call' = [call EXCEPT ![t].size = Cardinality(DOMAIN Held(t))]
    /\ Goto(t, "scan")
    /\ UNCHANGED <<now, store, answer, errors, registers, history>>

(* Mutant: the TTL counts twice. *)
Expired_Doubled(bucket, cutoff) == {sid \in DOMAIN bucket : bucket[sid] < cutoff - Ttl}

(* The sessions the sweep takes out. *)
Expired(bucket, cutoff) == {sid \in DOMAIN bucket : bucket[sid] < cutoff}

(* ... and raises when the size has changed meanwhile. *)
Scan(t) ==
    /\ pc[t] = "scan"
    /\ \/ /\ Cardinality(DOMAIN Held(t)) = call[t].size
          /\ call' = [call EXCEPT ![t].expired = Expired(Held(t), call[t].cutoff)]
          /\ Goto(t, "sweep")
          /\ UNCHANGED errors
       \/ /\ Cardinality(DOMAIN Held(t)) # call[t].size
          /\ Raise(t, "RuntimeError")
    /\ UNCHANGED <<now, store, answer, registers, history>>

(* The sweep deregisters the expired sessions by their id alone. *)
Sweep(t) ==
    /\ pc[t] = "sweep"
    /\ \E sid \in call[t].expired :
          /\ TakeReverse(sid)
          /\ call' = [call EXCEPT ![t].expired = @ \ {sid}, ![t].sid = sid, ![t].owner = sessionTo[sid]]
          /\ IF sessionTo[sid] = NoSubject THEN UNCHANGED pc ELSE Goto(t, "remove")
          /\ UNCHANGED history

(* The bucket is fetched once more, and what it then holds is returned. *)
Fetch(t) ==
    /\ pc[t] = "sweep"
    /\ call[t].expired = {}
    /\ call' = [call EXCEPT ![t].bucket = bySubject[call[t].subject]]
    /\ Goto(t, "read")
    /\ UNCHANGED <<now, store, answer, errors, registers, history>>

(* Mutant: every lookup extends the same list. *)
Read_Extends(t) ==
    /\ pc[t] = "read"
    /\ answer' = answer \cup DOMAIN Held(t)
    /\ Return(t)
    /\ UNCHANGED <<now, store, errors, registers, history>>

Read(t) ==
    /\ pc[t] = "read"
    /\ answer' = DOMAIN Held(t)
    /\ Return(t)
    /\ UNCHANGED <<now, store, errors, registers, history>>

Tick ==
    /\ now < MaxTime
    /\ now' = now + 1
    /\ UNCHANGED <<store, pc, call, answer, errors, registers, history>>

Next ==
    \/ \E t \in Threads, sid \in Sids : Deregister(t, sid)
    \/ \E t \in Threads, sid \in Sids : \E s \in SubjectsOf[sid] : Register(t, sid, s)
    \/ \E t \in Threads, s \in Subjects : SessionsFor(t, s)
    \/ \E t \in Threads : Insert(t) \/ Remove(t) \/ Clean(t)
    \/ \E t \in Threads : Iterate(t) \/ Scan(t) \/ Sweep(t) \/ Fetch(t) \/ Read(t)
    \/ Tick

Spec == Init /\ [][Next]_vars

-----------------------------------------------------------------------------
AtRest == \A t \in Threads : pc[t] = "idle"

(* A record that lookups return can be deregistered, now and by the sweep: *)
(* the reverse index knows its subject (the point of _session_to_subject). *)
RecordsRemovable ==
    AtRest => \A s \in Subjects : \A sid \in DOMAIN Bucket(s) : sessionTo[sid] = s

(* A session whose register call has returned is in the bucket lookups     *)
(* read, and can be deregistered, until a caller deregisters it or its TTL *)
(* is over (test_register_then_lookup).                                    *)
Due(sid) == promised[sid] # -1 /\ promised[sid] >= now - Ttl

RegisteredIsFound ==
    AtRest => \A sid \in Sids :
        Due(sid) => \E s \in Subjects : sessionTo[sid] = s /\ sid \in DOMAIN Bucket(s)

(* With more threads, and each session under the one subject that BIG-IP   *)
(* logged in, this fails in three orders only: the bucket is deleted       *)
(* between the two steps of register; the session is registered again      *)
(* between the first two steps of its deregistration; or it is registered  *)
(* again when a sweep has put its old record on the list of those it will  *)
(* deregister, by their id alone.                                          *)
RegisteredUnlessRaced == ~raced => RegisteredIsFound

(* As long as no two calls have overlapped, no lookup returns a record     *)
(* that had expired when the lookup began, however the sweep and           *)
(* deregistrations went before ...                                         *)
NoExpiredAnswer ==
    [][\A t \in Threads : Read(t) /\ ~overlapped =>
          \A sid \in DOMAIN Held(t) : Held(t)[sid] >= call[t].cutoff]_vars

(* ... no call raises ...                                                  *)
NoErrorUnlessOverlapped == ~overlapped => errors = {}

(* ... and the store is the map that its callers take it for: every change *)
(* and every answer is one atomic step of SessionDirectory.                *)
Mapping ==
    [sid \in Sids |->
        IF \E s \in Subjects : sid \in DOMAIN Bucket(s)
        THEN CHOOSE s \in Subjects : sid \in DOMAIN Bucket(s)
        ELSE NoSubject]

Directory == INSTANCE SessionDirectory WITH subjectOf <- Mapping

ImplementsDirectory == Directory!Init /\ [][overlapped' \/ Directory!Next]_<<Mapping, answer>>
=============================================================================
