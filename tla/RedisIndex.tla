------------------------------ MODULE RedisIndex ------------------------------
(***************************************************************************)
(* RedisCorrelationStore: a hash per subject with a field per session, and *)
(* a key per session that leads back to its subject.  Each Redis command   *)
(* is one step; between the commands of a call other threads and other     *)
(* pods run theirs, and the call may break off.                            *)
(*                                                                         *)
(* Redis drops a key by itself when its TTL is over, a hash also when its  *)
(* last field goes.  The fields of a hash share one TTL, which every       *)
(* registration for the subject sets anew.                                 *)
(***************************************************************************)
EXTENDS Integers

CONSTANTS
    Sids,          \* APM session ids
    Subjects,      \* subject keys
    NoSid,
    NoSubject,
    Owner,         \* the subject each session is registered under
    Threads,       \* the threads that call the store, of all pods
    Ttl,           \* correlation_ttl_seconds
    Faults,        \* "break": a call may end between two commands
    MaxTime        \* bound on the clock

ASSUME RedisIndexAssumption ==
    /\ NoSid \notin Sids
    /\ NoSubject \notin Subjects
    /\ Owner \in [Sids -> Subjects]
    /\ Ttl \in Nat \ {0}
    /\ MaxTime \in Nat
    /\ Faults \subseteq {"break"}

VARIABLES
    now,           \* the clock
    fields,        \* the sessions in the hash of each subject
    hashUntil,     \* when the hash expires, 0 if there is none
    sessionUntil,  \* when the key of each session expires, 0 if there is none
    pc,            \* the next command of each thread
    job,           \* the session its call is about
    answer,        \* the last list that sessions_for returned
    begun,         \* history: sessions whose registration has begun
    recordedAt,    \* history: when the record of each session was written
    limitedAt,     \* history: when its registration ran EXPIRE, Never before
    indexedAt,     \* history: when its session key was written, Never before
    dropped,       \* history: sessions that a deregistration has found
    late           \* history: sessions whose hash expired between their HSET and EXPIRE

vars == <<now, fields, hashUntil, sessionUntil, pc, job, answer, begun, recordedAt,
          limitedAt, indexedAt, dropped, late>>

history == <<begun, recordedAt, limitedAt, indexedAt, dropped, late>>

-----------------------------------------------------------------------------
Steps == {"idle", "hset", "expire", "set", "hdel", "delete"}

(* A key without a TTL. *)
Forever == MaxTime + Ttl + 1

Never == Forever

TypeOK ==
    /\ now \in 0 .. MaxTime
    /\ fields \in [Subjects -> SUBSET Sids]
    /\ hashUntil \in [Subjects -> 0 .. Forever]
    /\ \A s \in Subjects : fields[s] = {} <=> hashUntil[s] = 0
    /\ sessionUntil \in [Sids -> 0 .. MaxTime + Ttl]
    /\ pc \in [Threads -> Steps]
    /\ job \in [Threads -> Sids \cup {NoSid}]
    /\ \A t \in Threads : pc[t] = "idle" <=> job[t] = NoSid
    /\ answer \subseteq Sids
    /\ begun \subseteq Sids /\ dropped \subseteq Sids /\ late \subseteq Sids
    /\ recordedAt \in [Sids -> 0 .. MaxTime]
    /\ limitedAt \in [Sids -> 0 .. Never] /\ indexedAt \in [Sids -> 0 .. Never]

Init ==
    /\ now = 0
    /\ fields = [s \in Subjects |-> {}]
    /\ hashUntil = [s \in Subjects |-> 0]
    /\ sessionUntil = [sid \in Sids |-> 0]
    /\ pc = [t \in Threads |-> "idle"]
    /\ job = [t \in Threads |-> NoSid]
    /\ answer = {}
    /\ begun = {}
    /\ recordedAt = [sid \in Sids |-> 0]
    /\ limitedAt = [sid \in Sids |-> Never]
    /\ indexedAt = [sid \in Sids |-> Never]
    /\ dropped = {}
    /\ late = {}

Goto(t, step) == pc' = [pc EXCEPT ![t] = step] /\ UNCHANGED job

Start(t, step, sid) ==
    /\ pc[t] = "idle"
    /\ pc' = [pc EXCEPT ![t] = step]
    /\ job' = [job EXCEPT ![t] = sid]

Return(t) ==
    /\ pc' = [pc EXCEPT ![t] = "idle"]
    /\ job' = [job EXCEPT ![t] = NoSid]

(* What HGETALL returns: the fields of a hash that has not expired. *)
Hash(s) == IF hashUntil[s] > now THEN fields[s] ELSE {}

SetHash(s, sids, until) ==
    /\ fields' = [fields EXCEPT ![s] = sids]
    /\ hashUntil' = [hashUntil EXCEPT ![s] = IF sids = {} THEN 0 ELSE until]

-----------------------------------------------------------------------------
(* register, called once in the life of a session. *)
Register(t, sid) ==
    /\ sid \notin begun
    /\ begun' = begun \cup {sid}
    /\ Start(t, "hset", sid)
    /\ UNCHANGED <<now, fields, hashUntil, sessionUntil, answer, recordedAt, limitedAt, indexedAt, dropped, late>>

(* HSET; a hash it creates has no TTL yet. *)
Hset(t) ==
    LET s == Owner[job[t]] IN
    /\ pc[t] = "hset"
    /\ SetHash(s, Hash(s) \cup {job[t]}, IF Hash(s) = {} THEN Forever ELSE hashUntil[s])
    /\ recordedAt' = [recordedAt EXCEPT ![job[t]] = now]
    /\ Goto(t, "expire")
    /\ UNCHANGED <<now, sessionUntil, answer, begun, limitedAt, indexedAt, dropped, late>>

(* Mutant: the TTL of a hash that has one is left as it is (EXPIRE NX). *)
Expire_OnlyNew(t) ==
    LET s == Owner[job[t]] IN
    /\ pc[t] = "expire"
    /\ SetHash(s, Hash(s), IF hashUntil[s] = Forever THEN now + Ttl ELSE hashUntil[s])
    /\ late' = IF job[t] \in Hash(s) THEN late ELSE late \cup {job[t]}
    /\ limitedAt' = [limitedAt EXCEPT ![job[t]] = now]
    /\ Goto(t, "set")
    /\ UNCHANGED <<now, sessionUntil, answer, begun, recordedAt, indexedAt, dropped>>

(* EXPIRE; it does nothing when the hash is gone again. *)
Expire(t) ==
    LET s == Owner[job[t]] IN
    /\ pc[t] = "expire"
    /\ SetHash(s, Hash(s), now + Ttl)
    /\ late' = IF job[t] \in Hash(s) THEN late ELSE late \cup {job[t]}
    /\ limitedAt' = [limitedAt EXCEPT ![job[t]] = now]
    /\ Goto(t, "set")
    /\ UNCHANGED <<now, sessionUntil, answer, begun, recordedAt, indexedAt, dropped>>

(* SET ... EX; register returns. *)
SetSession(t) ==
    /\ pc[t] = "set"
    /\ sessionUntil' = [sessionUntil EXCEPT ![job[t]] = now + Ttl]
    /\ indexedAt' = [indexedAt EXCEPT ![job[t]] = now]
    /\ Return(t)
    /\ UNCHANGED <<now, fields, hashUntil, answer, begun, recordedAt, limitedAt, dropped, late>>

(* deregister, by the iRule or after a kill: GET finds the subject, ... *)
Deregister(t, sid) ==
    /\ sid \in begun
    /\ sessionUntil[sid] > now
    /\ Start(t, "hdel", sid)
    /\ dropped' = dropped \cup {sid}
    /\ UNCHANGED <<now, fields, hashUntil, sessionUntil, answer, begun, recordedAt, limitedAt, indexedAt, late>>

(* ... or it finds nothing and deregister returns. *)
DeregisterUnknown(t, sid) ==
    /\ pc[t] = "idle"
    /\ sid \in begun
    /\ sessionUntil[sid] <= now
    /\ UNCHANGED vars

(* Mutant: only the session key is deleted. *)
Hdel_Skipped(t) ==
    /\ pc[t] = "hdel"
    /\ Goto(t, "delete")
    /\ UNCHANGED <<now, fields, hashUntil, sessionUntil, answer, history>>

Hdel(t) ==
    LET s == Owner[job[t]] IN
    /\ pc[t] = "hdel"
    /\ SetHash(s, Hash(s) \ {job[t]}, hashUntil[s])
    /\ Goto(t, "delete")
    /\ UNCHANGED <<now, sessionUntil, answer, history>>

DeleteSession(t) ==
    /\ pc[t] = "delete"
    /\ sessionUntil' = [sessionUntil EXCEPT ![job[t]] = 0]
    /\ Return(t)
    /\ UNCHANGED <<now, fields, hashUntil, answer, history>>

(* Mutant: a lookup renews the TTL. *)
SessionsFor_Renews(s) ==
    /\ answer' = Hash(s)
    /\ SetHash(s, Hash(s), now + Ttl)
    /\ UNCHANGED <<now, sessionUntil, pc, job, history>>

(* sessions_for: HGETALL, by any thread. *)
SessionsFor(s) ==
    /\ answer' = Hash(s)
    /\ UNCHANGED <<now, fields, hashUntil, sessionUntil, pc, job, history>>

(* Redis does not answer, or the pod dies: the rest of the call is not run. *)
Break(t) ==
    /\ "break" \in Faults
    /\ pc[t] # "idle"
    /\ Return(t)
    /\ UNCHANGED <<now, fields, hashUntil, sessionUntil, answer, begun, recordedAt, limitedAt, indexedAt, dropped, late>>

Tick ==
    /\ now < MaxTime
    /\ now' = now + 1
    /\ UNCHANGED <<fields, hashUntil, sessionUntil, pc, job, answer, history>>

Next ==
    \/ \E t \in Threads, sid \in Sids :
          Register(t, sid) \/ Deregister(t, sid) \/ DeregisterUnknown(t, sid)
    \/ \E t \in Threads : Hset(t) \/ Expire(t) \/ SetSession(t)
    \/ \E t \in Threads : Hdel(t) \/ DeleteSession(t) \/ Break(t)
    \/ \E s \in Subjects : SessionsFor(s)
    \/ Tick

Spec == Init /\ [][Next]_vars

-----------------------------------------------------------------------------
(* A session whose register call has returned is found for a whole Ttl,    *)
(* unless it is deregistered, or the hash expired just between its HSET    *)
(* and its EXPIRE: whatever other sessions of the subject come, go, or     *)
(* break off half registered or half deregistered.                         *)
RegisteredIsFound ==
    \A sid \in Sids \ (dropped \cup late) :
        indexedAt[sid] # Never /\ now < recordedAt[sid] + Ttl => sid \in Hash(Owner[sid])

(* deregister overlooks a record that lookups return only when the session *)
(* key was never written (a registration at work, or one that broke off)   *)
(* or has outlived its Ttl: no other deregistration, complete or broken,   *)
(* hides a record from the next one.                                       *)
OverlooksOnlyUnindexed ==
    \A sid \in Sids :
        sid \in Hash(Owner[sid]) /\ sessionUntil[sid] <= now =>
            indexedAt[sid] = Never \/ now >= indexedAt[sid] + Ttl

(* "Records must expire on their own" (test_redis_correlation_sets_a_ttl): *)
(* a record is gone a Ttl after the EXPIRE of its own registration, unless *)
(* the subject logs in elsewhere, which sets the TTL of the whole hash     *)
(* anew, or the registration stopped between HSET and EXPIRE, which leaves *)
(* a hash without a TTL.  Lookups, deregistrations, complete or not, and   *)
(* what breaks off later prolong nothing.                                  *)
Renewed(sid) == \E other \in begun \ {sid} : Owner[other] = Owner[sid]

ExpiresUnlessRenewed ==
    \A sid \in Sids :
        sid \in Hash(Owner[sid]) =>
            Renewed(sid) \/ limitedAt[sid] = Never \/ now < limitedAt[sid] + Ttl

(* "Same semantics, backed by a Redis hash" (store.py): towards its        *)
(* callers the store is the map of SessionDirectory.                       *)
Mapping == [sid \in Sids |-> IF sid \in Hash(Owner[sid]) THEN Owner[sid] ELSE NoSubject]

Directory == INSTANCE SessionDirectory WITH subjectOf <- Mapping

ImplementsDirectory == Directory!Spec
=============================================================================
