---------------------------- MODULE DecisionCache ----------------------------
(***************************************************************************)
(* The continuous path: background threads merge CAEP signals into the     *)
(* decision record of a subject, and BIG-IP's per-request policy looks it  *)
(* up.  The records of different subjects have nothing in common, so the   *)
(* module follows one subject.                                             *)
(*                                                                         *)
(* The two backends differ where it matters: Redis drops a record by       *)
(* itself and validates what it reads; the dict keeps a record until a     *)
(* lookup finds it too old.  Both upserts are a read, a merge and a write  *)
(* with nothing to keep another thread, or another pod, out in between.    *)
(***************************************************************************)
EXTENDS Integers

CONSTANTS
    Fields,        \* the fields that signals set: risk_level, device_compliant, ...
    Values,        \* what they may be set to
    Unset,         \* None
    Invalid,       \* the values DecisionRecord does not accept (any case but "HIGH", ...)
    Backends,      \* the settings of store_backend: "memory", "redis"
    Writers,       \* threads that handle SETs
    Readers,       \* event loops that serve GET /internal/decision, one per pod
    Ttl,           \* decision_cache_ttl_seconds
    MaxTime,       \* bound on the clock
    MaxSignals     \* bound on the signals

ASSUME CacheAssumption ==
    /\ Unset \notin Values
    /\ Invalid \subseteq Values
    /\ Backends \subseteq {"memory", "redis"}
    /\ Writers \cap Readers = {}
    /\ {Ttl, MaxTime, MaxSignals} \subseteq Nat

VARIABLES
    backend,       \* store_backend of this deployment
    now,           \* the clock
    cached,        \* the record in the store, or NoRecord
    pc,            \* the next step of each thread
    incoming,      \* the record each writer is merging in
    existing,      \* the record each thread has read
    answer,        \* the last record a lookup returned
    signals,       \* signals so far
    known,         \* history: the signals written since the record last expired
    raced,         \* history: a write or deletion hit another record than the one read
    forgotten,     \* history: the signals that a 404 disowned
    poison         \* history: the unacceptable signals that were stored, and when

vars == <<backend, now, cached, pc, incoming, existing, answer, signals, known, raced,
          forgotten, poison>>

-----------------------------------------------------------------------------
(* A value, and which signal set it (history). *)
Level == [value : Values, signal : Nat \ {0}]

(* updatedAt is the record's updated_at; writtenAt is when it was stored,  *)
(* from which Redis counts the TTL (history, for the dict).                *)
Record == [values : [Fields -> Level \cup {Unset}], updatedAt : Nat, writtenAt : Nat]

NoSignal == [f \in Fields |-> Unset]

NoRecord == [values |-> NoSignal, updatedAt |-> -1, writtenAt |-> -1]

Steps == {"idle", "read", "write", "check"}

TypeOK ==
    /\ backend \in Backends
    /\ now \in 0 .. MaxTime
    /\ raced \in BOOLEAN
    /\ cached \in Record \cup {NoRecord}
    /\ pc \in [Writers \cup Readers -> Steps]
    /\ incoming \in [Writers -> Record \cup {NoRecord}]
    /\ \A w \in Writers : pc[w] # "idle" => incoming[w] # NoRecord
    /\ existing \in [Writers \cup Readers -> Record \cup {NoRecord}]
    /\ answer \in Record \cup {NoRecord}
    /\ known \in Record \cup {NoRecord}
    /\ signals \in 0 .. MaxSignals
    /\ forgotten \subseteq Nat
    /\ poison \subseteq [signal : Nat, at : Nat]

Init ==
    /\ backend \in Backends
    /\ now = 0
    /\ raced = FALSE
    /\ cached = NoRecord
    /\ pc = [t \in Writers \cup Readers |-> "idle"]
    /\ incoming = [w \in Writers |-> NoRecord]
    /\ existing = [t \in Writers \cup Readers |-> NoRecord]
    /\ answer = NoRecord
    /\ known = NoRecord
    /\ signals = 0
    /\ forgotten = {}
    /\ poison = {}

Goto(t, step) == pc' = [pc EXCEPT ![t] = step]

(* A call of the cache returns or raises. *)
ReturnUpsert(w) ==
    /\ Goto(w, "idle")
    /\ incoming' = [incoming EXCEPT ![w] = NoRecord]
    /\ existing' = [existing EXCEPT ![w] = NoRecord]

SetBy(record) == {f \in Fields : record.values[f] # Unset}

SignalsIn(record) == {record.values[f].signal : f \in SetBy(record)}

Accepted(record) == \A f \in SetBy(record) : record.values[f].value \notin Invalid

(* Whether a record may still be acted on: Redis keeps a key for Ttl, the  *)
(* dict's get compares updated_at.                                         *)
Active(record) ==
    /\ record # NoRecord
    /\ IF backend = "redis" THEN now - record.writtenAt < Ttl ELSE now - record.updatedAt <= Ttl

(* Mutant: the key is set without its TTL. *)
Stored_Kept == cached

(* What a read of the store returns: the dict's get(key) knows no TTL. *)
Stored == IF backend = "redis" /\ ~Active(cached) THEN NoRecord ELSE cached

(* Mutant: the new record replaces the old one. *)
Merge_Replace(old, new) == new

(* _merge: a field that the new signal does not set keeps its value. *)
Merge(old, new) ==
    IF old = NoRecord THEN new
    ELSE [new EXCEPT !.values =
             [f \in Fields |-> IF new.values[f] # Unset THEN new.values[f] ELSE old.values[f]]]

-----------------------------------------------------------------------------
(* _decision_record_for: a signal sets one field, or none when its payload *)
(* lacks the level.  Values are not validated on assignment.               *)
Signal(w, f, value) ==
    /\ pc[w] = "idle"
    /\ signals < MaxSignals
    /\ signals' = signals + 1
    /\ LET level == IF value = Unset THEN Unset ELSE [value |-> value, signal |-> signals']
       IN  incoming' = [incoming EXCEPT ![w] =
               [values |-> [NoSignal EXCEPT ![f] = level], updatedAt |-> now, writtenAt |-> now]]
    /\ Goto(w, "read")
    /\ UNCHANGED <<backend, now, cached, existing, answer, known, raced, forgotten, poison>>

(* upsert reads the existing record.  Redis' get validates it and raises   *)
(* on a value that slipped in: the signal is lost.                         *)
ReadExisting(w) ==
    /\ pc[w] = "read"
    /\ IF backend = "redis" /\ ~Accepted(Stored)
       THEN ReturnUpsert(w)
       ELSE /\ existing' = [existing EXCEPT ![w] = Stored]
            /\ Goto(w, "write")
            /\ UNCHANGED incoming
    /\ UNCHANGED <<backend, now, cached, answer, signals, known, raced, forgotten, poison>>

(* upsert merges and writes.  Only a merge validates; a first record goes  *)
(* in as it is.                                                            *)
WriteMerged(w) ==
    LET merged == [Merge(existing[w], incoming[w]) EXCEPT !.writtenAt = now] IN
    /\ pc[w] = "write"
    /\ existing[w] = NoRecord \/ Accepted(merged)
    /\ cached' = merged
    /\ raced' = (raced \/ Stored \notin {NoRecord, existing[w]})
    /\ known' = [incoming[w] EXCEPT !.writtenAt = now, !.values =
           [f \in Fields |-> IF @[f] = Unset /\ Active(known) THEN known.values[f] ELSE @[f]]]
    /\ poison' = poison \cup IF Accepted(incoming[w]) THEN {}
                             ELSE [signal : SignalsIn(incoming[w]), at : {now}]
    /\ ReturnUpsert(w)
    /\ UNCHANGED <<backend, now, answer, signals, forgotten>>

(* The merge does not validate: the signal is lost. *)
RefuseMerged(w) ==
    /\ pc[w] = "write"
    /\ existing[w] # NoRecord
    /\ ~Accepted(Merge(existing[w], incoming[w]))
    /\ ReturnUpsert(w)
    /\ UNCHANGED <<backend, now, cached, answer, signals, known, raced, forgotten, poison>>

(* The signals that some upsert still has in its hands. *)
UnderWay == UNION {SignalsIn(incoming[w]) \cup SignalsIn(existing[w]) : w \in Writers}

(* A lookup answers 404, "nothing has changed for this subject": no signal *)
(* so far counts any more, but for those an upsert is at work with.        *)
AnswerNone ==
    /\ answer' = NoRecord
    /\ forgotten' = (1 .. signals) \ UnderWay

AnswerWith(record) == answer' = record /\ UNCHANGED forgotten

(* GET /internal/decision with Redis: one command; a record that does not  *)
(* validate raises.                                                        *)
LookupRedis(r) ==
    /\ backend = "redis"
    /\ pc[r] = "idle"
    /\ IF Stored = NoRecord THEN AnswerNone
       ELSE AnswerWith(IF Accepted(Stored) THEN Stored ELSE NoRecord)
    /\ UNCHANGED <<backend, now, cached, pc, incoming, existing, signals, known, raced, poison>>

(* ... with the dict: the record is fetched; time.time() is called; a      *)
(* record that is too old is deleted by its key, whatever is there by now. *)
(* Threads may come in between; the event loop is busy with the one call.  *)
LookupMemory(r) ==
    /\ backend = "memory"
    /\ \A q \in Readers : pc[q] = "idle"
    /\ IF cached = NoRecord
       THEN AnswerNone /\ UNCHANGED <<existing, pc>>
       ELSE /\ existing' = [existing EXCEPT ![r] = cached]
            /\ Goto(r, "check")
            /\ UNCHANGED <<answer, forgotten>>
    /\ UNCHANGED <<backend, now, cached, incoming, signals, known, raced, poison>>

(* Mutant: the old record is left where it is. *)
CheckAge_Kept(r) ==
    /\ pc[r] = "check"
    /\ IF Active(existing[r]) THEN AnswerWith(existing[r]) ELSE AnswerNone
    /\ Goto(r, "idle")
    /\ existing' = [existing EXCEPT ![r] = NoRecord]
    /\ UNCHANGED <<backend, now, cached, incoming, signals, known, raced, poison>>

CheckAge(r) ==
    /\ pc[r] = "check"
    /\ \/ /\ Active(existing[r])
          /\ AnswerWith(existing[r])
          /\ UNCHANGED <<cached, raced>>
       \/ /\ ~Active(existing[r])
          /\ AnswerNone
          /\ cached' = NoRecord
          /\ raced' = (raced \/ cached \notin {NoRecord, existing[r]})
    /\ Goto(r, "idle")
    /\ existing' = [existing EXCEPT ![r] = NoRecord]
    /\ UNCHANGED <<backend, now, incoming, signals, known, poison>>

(* answer holds only in the instant it was given. *)
Tick ==
    /\ now < MaxTime
    /\ now' = now + 1
    /\ answer' = NoRecord
    /\ UNCHANGED <<backend, cached, pc, incoming, existing, signals, known, raced, forgotten, poison>>

Next ==
    \/ \E w \in Writers, f \in Fields, value \in Values \cup {Unset} : Signal(w, f, value)
    \/ \E w \in Writers : ReadExisting(w) \/ WriteMerged(w) \/ RefuseMerged(w)
    \/ \E r \in Readers : LookupRedis(r) \/ LookupMemory(r) \/ CheckAge(r)
    \/ Tick

Spec == Init /\ [][Next]_vars

-----------------------------------------------------------------------------
(* "Both backends must merge rather than replace" (test_redis_stores.py):  *)
(* as long as the record is active, the store has the last written value   *)
(* of every field, whatever was signalled, refused or looked up since.     *)
KeepsEverySignal ==
    Active(known) =>
        /\ cached # NoRecord
        /\ \A f \in Fields : known.values[f] # Unset => cached.values[f] = known.values[f]

(* Signals get lost only to races: when no thread wrote over, or deleted,  *)
(* a record that another had put there after it had read.                  *)
KeepsUnlessRaced == ~raced => KeepsEverySignal

(* A 404 is final: a policy that was told "nothing has changed for this    *)
(* subject" is never answered with an older signal again.  Without a       *)
(* lookup in between it may be: upsert does not look at the age of the     *)
(* record in the dict it merges into, which makes an expired signal active *)
(* again; and what an upsert had read before the 404 it writes after it.   *)
ForgottenStaysForgotten == SignalsIn(answer) \cap forgotten = {}

(* A signal with a value the record accepts is lost to validation only     *)
(* while an unacceptable one is there, stored unchecked because it came    *)
(* first: on Redis until that one's TTL has passed, whatever was signalled *)
(* meanwhile; in the dict, where no upsert looks at the age, until a       *)
(* lookup has answered 404.                                                *)
Refused(w) ==
    /\ pc[w] # "idle" /\ pc'[w] = "idle"
    /\ Accepted(incoming[w])
    /\ ~(SignalsIn(incoming[w]) \subseteq SignalsIn(cached'))

Poisoned ==
    \E bad \in poison : bad.signal \notin forgotten /\ (backend = "redis" => now - bad.at < Ttl)

RefusedOnlyForPoison == [][\A w \in Writers : Refused(w) => Poisoned]_vars
=============================================================================
