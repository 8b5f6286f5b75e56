-------------------------- MODULE DecisionCacheProofs --------------------------
(* Proofs about DecisionCache, for either backend, any fields, values,     *)
(* threads and times: its types, that signals get lost only to races, that *)
(* a 404 is final, and what a refused signal is refused for.               *)
EXTENDS DecisionCache, TLAPS

Threads == Writers \cup Readers

Optional == Record \cup {NoRecord}

(* What the assumptions say of the constants. *)
LEMMA Constants ==
    Ttl \in Nat /\ MaxTime \in Nat /\ MaxSignals \in Nat
  BY CacheAssumption

(* A record is told from no record by its dates. *)
LEMMA RecordFacts ==
    /\ \A rec \in Record : rec # NoRecord /\ rec.updatedAt \in Nat /\ rec.writtenAt \in Nat
    /\ \A rec \in Record : rec.values \in [Fields -> Level \cup {Unset}]
    /\ NoSignal \in [Fields -> Level \cup {Unset}]
    /\ NoRecord \notin Record
    /\ \A f \in Fields : NoRecord.values[f] = Unset
    /\ NoRecord.updatedAt = -1 /\ NoRecord.writtenAt = -1
  BY DEF Record, NoRecord, NoSignal

(* Merging gives a record with the new dates, and the old values where no  *)
(* new ones are.                                                           *)
LEMMA MergeFacts ==
  ASSUME NEW old \in Optional, NEW new \in Record
  PROVE  /\ Merge(old, new) \in Record
         /\ Merge(old, new).updatedAt = new.updatedAt
         /\ \A f \in Fields : Merge(old, new).values[f] =
               IF new.values[f] # Unset \/ old = NoRecord THEN new.values[f] ELSE old.values[f]
<1>1. CASE old = NoRecord
  BY <1>1 DEF Merge
<1>2. CASE old # NoRecord
  <2> DEFINE vals == [f \in Fields |-> IF new.values[f] # Unset THEN new.values[f] ELSE old.values[f]]
  <2>1. old \in Record
    BY <1>2 DEF Optional
  <2>2. vals \in [Fields -> Level \cup {Unset}]
    BY <2>1, RecordFacts
  <2>3. Merge(old, new) = [new EXCEPT !.values = vals]
    BY <1>2 DEF Merge
  <2> HIDE DEF vals
  <2>4. Merge(old, new) \in Record /\ Merge(old, new).updatedAt = new.updatedAt /\ Merge(old, new).values = vals
    BY <2>2, <2>3 DEF Record
  <2> QED
    BY <1>2, <2>4 DEF vals
<1> QED
  BY <1>1, <1>2

(* What is written, and what the history then says was signalled. *)
LEMMA WriteFacts ==
  ASSUME TypeOK, NEW w \in Writers, WriteMerged(w)
  PROVE  /\ incoming[w] \in Record
         /\ cached' \in Record /\ cached'.writtenAt = now /\ cached'.updatedAt = incoming[w].updatedAt
         /\ known' \in Record /\ known'.writtenAt = now /\ known'.updatedAt = incoming[w].updatedAt
         /\ \A f \in Fields : cached'.values[f] =
               IF incoming[w].values[f] # Unset \/ existing[w] = NoRecord
               THEN incoming[w].values[f] ELSE existing[w].values[f]
         /\ \A f \in Fields : known'.values[f] =
               IF incoming[w].values[f] = Unset /\ Active(known) THEN known.values[f] ELSE incoming[w].values[f]
<1>1. incoming[w] \in Record /\ existing[w] \in Optional /\ known \in Optional /\ now \in Nat
  BY Constants DEF TypeOK, WriteMerged, Optional
<1>2. /\ Merge(existing[w], incoming[w]) \in Record
      /\ Merge(existing[w], incoming[w]).updatedAt = incoming[w].updatedAt
      /\ \A f \in Fields : Merge(existing[w], incoming[w]).values[f] =
            IF incoming[w].values[f] # Unset \/ existing[w] = NoRecord
            THEN incoming[w].values[f] ELSE existing[w].values[f]
  BY <1>1, MergeFacts
<1>3. cached' = [Merge(existing[w], incoming[w]) EXCEPT !.writtenAt = now]
  BY DEF WriteMerged
<1>4. /\ cached' \in Record /\ cached'.writtenAt = now
      /\ cached'.updatedAt = Merge(existing[w], incoming[w]).updatedAt
      /\ cached'.values = Merge(existing[w], incoming[w]).values
  BY <1>1, <1>2, <1>3 DEF Record
<1> DEFINE vals == [f \in Fields |-> IF incoming[w].values[f] = Unset /\ Active(known)
                                      THEN known.values[f] ELSE incoming[w].values[f]]
<1>5. vals \in [Fields -> Level \cup {Unset}]
  BY <1>1, RecordFacts DEF Optional, Active
<1>6. known' = [incoming[w] EXCEPT !.writtenAt = now, !.values = vals]
  BY DEF WriteMerged
<1> HIDE DEF vals
<1>7. /\ known' \in Record /\ known'.writtenAt = now /\ known'.updatedAt = incoming[w].updatedAt
      /\ known'.values = vals
  BY <1>1, <1>5, <1>6 DEF Record
<1> QED
  BY <1>1, <1>2, <1>4, <1>7 DEF vals

(* Every step keeps the types. *)
LEMMA NextTypeOK == TypeOK /\ [Next]_vars => TypeOK'
<1> SUFFICES ASSUME TypeOK, [Next]_vars PROVE TypeOK'
  OBVIOUS
<1> USE DEF TypeOK, Steps, Goto
<1>1. ASSUME NEW w \in Writers, NEW f \in Fields, NEW value \in Values \cup {Unset}, Signal(w, f, value)
      PROVE  TypeOK'
  <2> DEFINE level == IF value = Unset THEN Unset ELSE [value |-> value, signal |-> signals']
             rec == [values |-> [NoSignal EXCEPT ![f] = level], updatedAt |-> now, writtenAt |-> now]
  <2>0. signals' \in Nat \ {0}
    BY <1>1, Constants DEF Signal
  <2>1. now \in Nat /\ [NoSignal EXCEPT ![f] = level] \in [Fields -> Level \cup {Unset}]
    BY <2>0, Constants, RecordFacts DEF Level
  <2> HIDE DEF level
  <2>2. rec \in Record /\ rec # NoRecord
    BY <2>1, RecordFacts DEF Record
  <2>3. incoming' = [incoming EXCEPT ![w] = rec] /\ pc' = [pc EXCEPT ![w] = "read"]
    BY <1>1 DEF Signal, rec, level
  <2>4. signals \in 0 .. MaxSignals /\ signals < MaxSignals /\ signals' = signals + 1
    BY <1>1 DEF Signal
  <2>5. signals' \in 0 .. MaxSignals
    BY ONLY <2>4, Constants
  <2> HIDE DEF rec
  <2> QED
    BY <1>1, <2>2, <2>3, <2>5 DEF Signal
<1>2. ASSUME NEW w \in Writers, ReadExisting(w) PROVE TypeOK'
  BY <1>2 DEF ReadExisting, ReturnUpsert, Stored
<1>3. ASSUME NEW w \in Writers, WriteMerged(w) PROVE TypeOK'
  <2>1. poison' \subseteq [signal : Nat, at : Nat]
    <3>1. incoming[w] \in Record /\ now \in Nat
      BY <1>3, WriteFacts, Constants
    <3>2. SignalsIn(incoming[w]) \subseteq Nat
      BY <3>1 DEF SignalsIn, SetBy, Record, Level
    <3> QED
      BY <1>3, <3>1, <3>2 DEF WriteMerged
  <2> QED
    BY <1>3, <2>1, WriteFacts DEF WriteMerged, ReturnUpsert
<1>4. ASSUME NEW w \in Writers, RefuseMerged(w) PROVE TypeOK'
  BY <1>4 DEF RefuseMerged, ReturnUpsert
<1>d. (1 .. signals) \ UnderWay \subseteq Nat
  BY Constants
<1>5. ASSUME NEW r \in Readers, LookupRedis(r) PROVE TypeOK'
  BY <1>5, <1>d DEF LookupRedis, Stored, AnswerNone, AnswerWith
<1>6. ASSUME NEW r \in Readers, LookupMemory(r) PROVE TypeOK'
  BY <1>6, <1>d, CacheAssumption DEF LookupMemory, AnswerNone
<1>7. ASSUME NEW r \in Readers, CheckAge(r) PROVE TypeOK'
  BY <1>7, <1>d, CacheAssumption DEF CheckAge, AnswerNone, AnswerWith
<1>8. CASE Tick
  BY <1>8, Constants DEF Tick
<1>9. CASE UNCHANGED vars
  BY <1>9 DEF vars
<1> QED
  BY <1>1, <1>2, <1>3, <1>4, <1>5, <1>6, <1>7, <1>8, <1>9 DEF Next

(* The variables keep to their types. *)
THEOREM Typing == Spec => []TypeOK
<1>1. Init => TypeOK
  <2> SUFFICES ASSUME Init PROVE TypeOK
    OBVIOUS
  <2>1. 0 \in 0 .. MaxTime /\ 0 \in 0 .. MaxSignals
    BY Constants
  <2>2. now = 0 /\ signals = 0
    BY DEF Init
  <2>3. now \in 0 .. MaxTime /\ signals \in 0 .. MaxSignals
    BY ONLY <2>1, <2>2
  <2> QED
    BY <2>3 DEF Init, TypeOK, Steps
<1> QED
  BY <1>1, NextTypeOK, PTL DEF Spec

-----------------------------------------------------------------------------
(* The record in the store is as old as the history says.                  *)
Stamped ==
    cached # NoRecord => cached.updatedAt = known.updatedAt /\ cached.writtenAt = known.writtenAt

LossInv == Stamped /\ KeepsUnlessRaced

(* A record of the same age is as active. *)
LEMMA SameAge ==
  ASSUME NEW a \in Optional, NEW b \in Optional, a # NoRecord, b # NoRecord,
         a.updatedAt = b.updatedAt, a.writtenAt = b.writtenAt
  PROVE  Active(a) <=> Active(b)
  BY DEF Active

(* Signals that are still known are in a record that is still active.      *)
LEMMA KnownIsStored ==
  ASSUME TypeOK, LossInv, ~raced, Active(known)
  PROVE  Stored = cached /\ cached # NoRecord
<1>1. cached # NoRecord
  BY DEF LossInv, KeepsUnlessRaced, KeepsEverySignal
<1>2. cached \in Optional /\ known \in Optional /\ known # NoRecord
  BY DEF TypeOK, Optional, Active
<1>3. Active(cached)
  BY <1>1, <1>2, SameAge DEF LossInv, Stamped
<1> QED
  BY <1>1, <1>3 DEF Stored

(* A write keeps what is known, unless it raced. *)
LEMMA WriteKeeps ==
  ASSUME TypeOK, LossInv, NEW w \in Writers, WriteMerged(w)
  PROVE  LossInv'
<1>1. Stamped'
  BY WriteFacts DEF Stamped
<1>2. ASSUME ~raced', NEW f \in Fields, known'.values[f] # Unset
      PROVE  cached'.values[f] = known'.values[f]
  <2>1. ~raced /\ Stored \in {NoRecord, existing[w]}
    BY <1>2 DEF WriteMerged
  <2>2. CASE incoming[w].values[f] # Unset
    BY <2>2, WriteFacts
  <2>3. CASE incoming[w].values[f] = Unset
    <3>1. Active(known) /\ known'.values[f] = known.values[f]
      BY <1>2, <2>3, WriteFacts
    <3>2. Stored = cached /\ cached # NoRecord
      BY <2>1, <3>1, KnownIsStored
    <3>3. existing[w] = cached
      BY <2>1, <3>2
    <3>4. cached'.values[f] = cached.values[f]
      BY <2>3, <3>2, <3>3, WriteFacts
    <3>5. cached.values[f] = known.values[f]
      BY <1>2, <2>1, <3>1 DEF LossInv, KeepsUnlessRaced, KeepsEverySignal
    <3> QED
      BY <3>1, <3>4, <3>5
  <2> QED
    BY <2>2, <2>3
<1>3. cached' # NoRecord
  BY WriteFacts, RecordFacts
<1> QED
  BY <1>1, <1>2, <1>3 DEF LossInv, KeepsUnlessRaced, KeepsEverySignal

(* A lookup deletes only what is too old, unless it raced. *)
LEMMA CheckKeeps ==
  ASSUME TypeOK, LossInv, NEW r \in Readers, CheckAge(r)
  PROVE  LossInv'
<1>1. UNCHANGED <<backend, now, known>>
  BY DEF CheckAge
<1>2. CASE UNCHANGED <<cached, raced>>
  BY <1>1, <1>2 DEF LossInv, Stamped, KeepsUnlessRaced, KeepsEverySignal, Active
<1>3. CASE ~Active(existing[r]) /\ cached' = NoRecord /\ raced' = (raced \/ cached \notin {NoRecord, existing[r]})
  <2>1. ASSUME ~raced' PROVE ~Active(known)
    <3>1. ~raced /\ cached \in {NoRecord, existing[r]}
      BY <1>3, <2>1
    <3>2. ASSUME Active(known) PROVE FALSE
      <4>1. Stored = cached /\ cached # NoRecord
        BY <3>1, <3>2, KnownIsStored
      <4>2. cached \in Optional /\ known \in Optional /\ known # NoRecord
        BY <3>2 DEF TypeOK, Optional, Active
      <4>3. Active(cached)
        BY <3>2, <4>1, <4>2, SameAge DEF LossInv, Stamped
      <4> QED
        BY <1>3, <3>1, <4>1, <4>3
    <3> QED
      BY <3>2
  <2>2. Active(known)' <=> Active(known)
    BY <1>1 DEF Active
  <2>3. Stamped'
    BY <1>3 DEF Stamped
  <2> QED
    BY <2>1, <2>2, <2>3 DEF LossInv, KeepsUnlessRaced, KeepsEverySignal
<1> QED
  BY <1>2, <1>3 DEF CheckAge

(* Every step keeps the invariant. *)
LEMMA NextLossInv == TypeOK /\ LossInv /\ [Next]_vars => LossInv'
<1> SUFFICES ASSUME TypeOK, LossInv, [Next]_vars PROVE LossInv'
  OBVIOUS
<1>1. ASSUME UNCHANGED <<backend, now, cached, known, raced>> PROVE LossInv'
  BY <1>1 DEF LossInv, Stamped, KeepsUnlessRaced, KeepsEverySignal, Active
<1>2. CASE Tick
  <2>1. now' = now + 1 /\ UNCHANGED <<backend, cached, known, raced>>
    BY <1>2 DEF Tick
  <2>2. now \in Int /\ Ttl \in Int /\ known \in Optional
    BY Constants DEF TypeOK, Optional
  <2>3. known.updatedAt \in Int /\ known.writtenAt \in Int
    BY <2>2, RecordFacts DEF Optional
  <2>4. Active(known)' => Active(known)
    BY <2>1, <2>2, <2>3 DEF Active
  <2> QED
    BY <2>1, <2>4 DEF LossInv, Stamped, KeepsUnlessRaced, KeepsEverySignal
<1>3. CASE \E w \in Writers, f \in Fields, value \in Values \cup {Unset} : Signal(w, f, value)
  BY <1>1, <1>3 DEF Signal
<1>4. CASE \E w \in Writers : ReadExisting(w) \/ RefuseMerged(w)
  BY <1>1, <1>4 DEF ReadExisting, RefuseMerged
<1>5. CASE \E r \in Readers : LookupRedis(r) \/ LookupMemory(r)
  BY <1>1, <1>5 DEF LookupRedis, LookupMemory
<1>6. CASE UNCHANGED vars
  BY <1>1, <1>6 DEF vars
<1> QED
  BY <1>2, <1>3, <1>4, <1>5, <1>6, WriteKeeps, CheckKeeps DEF Next

(* "Both backends must merge rather than replace": for any interleaving of *)
(* any number of writers and lookups, a signal of a record still active is *)
(* lost only when a write or a deletion hit another record than the one    *)
(* that was read.                                                          *)
THEOREM KeepsUnlessRacedHolds == Spec => []KeepsUnlessRaced
<1>1. Init => LossInv
  BY DEF Init, LossInv, Stamped, KeepsUnlessRaced, KeepsEverySignal, Active
<1>2. LossInv => KeepsUnlessRaced
  BY DEF LossInv
<1> QED
  BY <1>1, <1>2, Typing, NextLossInv, PTL DEF Spec

-----------------------------------------------------------------------------
(* A 404 is final *)

(* No signal of the record has been disowned. *)
Fresh(record) == SignalsIn(record) \cap forgotten = {}

(* One lookup of the dict at a time: nothing else holds a record that a    *)
(* lookup is about to disown.                                              *)
Alone ==
    \A q \in Readers :
        /\ pc[q] \in {"idle", "check"}
        /\ pc[q] = "idle" => existing[q] = NoRecord
        /\ pc[q] = "check" => backend = "memory" /\ \A r \in Readers \ {q} : pc[r] = "idle"

FreshInv ==
    /\ Alone
    /\ forgotten \subseteq 1 .. signals
    /\ Fresh(Stored)
    /\ Fresh(answer)
    /\ \A w \in Writers : Fresh(incoming[w])
    /\ \A t \in Threads : Fresh(existing[t])

LEMMA NoneIn == SignalsIn(NoRecord) = {}
BY RecordFacts DEF SignalsIn, SetBy

(* A merge brings in no signal of its own, and leaves none out. *)
LEMMA MergedSignals ==
  ASSUME TypeOK, NEW w \in Writers, WriteMerged(w)
  PROVE  /\ SignalsIn(cached') \subseteq SignalsIn(incoming[w]) \cup SignalsIn(existing[w])
         /\ SignalsIn(incoming[w]) \subseteq SignalsIn(cached')
BY WriteFacts DEF SignalsIn, SetBy

(* Whatever a lookup disowns, no upsert has in its hands. *)
LEMMA Disowned ==
  ASSUME forgotten' = (1 .. signals) \ UnderWay, NEW w \in Writers
  PROVE  /\ SignalsIn(incoming[w]) \cap forgotten' = {}
         /\ SignalsIn(existing[w]) \cap forgotten' = {}
BY DEF UnderWay

(* A new signal has not been disowned, another step disowns what no upsert *)
(* is at work with, and what has expired stays expired.                    *)
LEMMA NextFreshInv == TypeOK /\ FreshInv /\ [Next]_vars => FreshInv'
<1> SUFFICES ASSUME TypeOK, FreshInv, [Next]_vars PROVE FreshInv'
  OBVIOUS
<1>t. /\ pc \in [Threads -> Steps] /\ incoming \in [Writers -> Optional] /\ existing \in [Threads -> Optional]
      /\ cached \in Optional /\ now \in Int /\ Ttl \in Int /\ signals \in Nat /\ Writers \cap Readers = {}
  BY Constants, CacheAssumption DEF TypeOK, Threads, Optional
<1>s. Stored \in {NoRecord, cached}
  BY DEF Stored
<1> USE <1>t DEF Goto
<1>1. ASSUME NEW w \in Writers, NEW f \in Fields, NEW value \in Values \cup {Unset}, Signal(w, f, value)
      PROVE  FreshInv'
  <2> DEFINE level == IF value = Unset THEN Unset ELSE [value |-> value, signal |-> signals']
             rec == [values |-> [NoSignal EXCEPT ![f] = level], updatedAt |-> now, writtenAt |-> now]
  <2>1. /\ UNCHANGED <<backend, now, cached, existing, answer, forgotten>> /\ signals' = signals + 1
        /\ incoming' = [incoming EXCEPT ![w] = rec] /\ pc' = [pc EXCEPT ![w] = "read"]
    BY <1>1 DEF Signal
  <2>2. SignalsIn(rec) \subseteq {signals'}
    BY DEF SignalsIn, SetBy, NoSignal
  <2> HIDE DEF rec
  <2>3. forgotten' \subseteq 1 .. signals /\ signals' \notin forgotten'
    BY <2>1 DEF FreshInv
  <2>4. \A u \in Writers : Fresh(incoming[u])'
    BY <2>1, <2>2, <2>3 DEF Fresh, FreshInv
  <2>5. Fresh(Stored)' /\ Fresh(answer)' /\ \A t \in Threads : Fresh(existing[t])'
    BY <2>1 DEF Fresh, FreshInv, Stored, Active
  <2>6. Alone'
    BY <2>1 DEF Alone, FreshInv, Threads
  <2> QED
    BY <2>1, <2>3, <2>4, <2>5, <2>6 DEF FreshInv
<1>2. ASSUME NEW w \in Writers, ReadExisting(w) \/ RefuseMerged(w) PROVE FreshInv'
  <2>1. UNCHANGED <<backend, now, cached, answer, signals, forgotten>>
    BY <1>2 DEF ReadExisting, RefuseMerged
  <2>2. \A u \in Writers : incoming'[u] \in {incoming[u], NoRecord}
    BY <1>2 DEF ReadExisting, RefuseMerged, ReturnUpsert
  <2>3. /\ \A t \in Threads : existing'[t] \in {existing[t], NoRecord, Stored}
        /\ \A r \in Readers : existing'[r] = existing[r] /\ pc'[r] = pc[r]
    BY <1>2 DEF ReadExisting, RefuseMerged, ReturnUpsert, Threads
  <2>4. (\A u \in Writers : Fresh(incoming[u])') /\ \A t \in Threads : Fresh(existing[t])'
    BY <2>1, <2>2, <2>3, NoneIn DEF Fresh, FreshInv
  <2>5. Fresh(Stored)' /\ Fresh(answer)'
    BY <2>1 DEF Fresh, FreshInv, Stored, Active
  <2> QED
    BY <2>1, <2>3, <2>4, <2>5 DEF FreshInv, Alone
<1>3. ASSUME NEW w \in Writers, WriteMerged(w) PROVE FreshInv'
  <2>1. UNCHANGED <<backend, now, answer, signals, forgotten>>
    BY <1>3 DEF WriteMerged
  <2>2. \A u \in Writers : incoming'[u] \in {incoming[u], NoRecord}
    BY <1>3 DEF WriteMerged, ReturnUpsert
  <2>3. /\ \A t \in Threads : existing'[t] \in {existing[t], NoRecord}
        /\ \A r \in Readers : existing'[r] = existing[r] /\ pc'[r] = pc[r]
    BY <1>3 DEF WriteMerged, ReturnUpsert, Threads
  <2>4. (\A u \in Writers : Fresh(incoming[u])') /\ \A t \in Threads : Fresh(existing[t])'
    BY <2>1, <2>2, <2>3, NoneIn DEF Fresh, FreshInv
  <2>5. Fresh(cached)'
    BY <1>3, <2>1, MergedSignals DEF Fresh, FreshInv, Threads
  <2>6. Fresh(Stored)' /\ Fresh(answer)'
    BY <2>1, <2>5, NoneIn DEF Fresh, FreshInv, Stored
  <2> QED
    BY <2>1, <2>3, <2>4, <2>6 DEF FreshInv, Alone
<1>4. ASSUME AnswerNone, UNCHANGED <<signals, incoming>>, Stored' = NoRecord, Alone',
             \A w \in Writers : existing'[w] = existing[w],
             \A r \in Readers : existing'[r] = NoRecord
      PROVE  FreshInv'
  <2>1. forgotten' = (1 .. signals) \ UnderWay /\ answer' = NoRecord
    BY <1>4 DEF AnswerNone
  <2>2. \A w \in Writers : Fresh(incoming[w])' /\ Fresh(existing[w])'
    BY <1>4, <2>1, Disowned DEF Fresh
  <2>3. Fresh(Stored)' /\ Fresh(answer)' /\ \A r \in Readers : Fresh(existing[r])'
    BY <1>4, <2>1, NoneIn DEF Fresh
  <2> QED
    BY <1>4, <2>1, <2>2, <2>3 DEF FreshInv, Threads
<1>5. ASSUME NEW r \in Readers, LookupRedis(r) PROVE FreshInv'
  <2>1. /\ backend = "redis" /\ UNCHANGED <<backend, now, cached, pc, incoming, existing, signals>>
        /\ Stored' = Stored
    BY <1>5 DEF LookupRedis, Stored, Active
  <2>2. Alone' /\ \A q \in Readers : existing[q] = NoRecord
    BY <2>1 DEF Alone, FreshInv
  <2>3. CASE Stored = NoRecord
    BY <1>4, <1>5, <2>1, <2>2, <2>3 DEF LookupRedis, Threads
  <2>4. CASE Stored # NoRecord
    BY <1>5, <2>1, <2>2, <2>4, NoneIn DEF LookupRedis, AnswerWith, FreshInv, Fresh
  <2> QED
    BY <2>3, <2>4
<1>6. ASSUME NEW r \in Readers, LookupMemory(r) PROVE FreshInv'
  <2>1. /\ backend = "memory" /\ UNCHANGED <<backend, now, cached, incoming, signals>>
        /\ Stored = cached /\ Stored' = cached /\ \A q \in Readers : pc[q] = "idle"
    BY <1>6 DEF LookupMemory, Stored
  <2>2. CASE cached = NoRecord
    <3>1. AnswerNone /\ UNCHANGED <<existing, pc>>
      BY <1>6, <2>2 DEF LookupMemory
    <3>2. Alone' /\ \A q \in Readers : existing'[q] = NoRecord
      BY <2>1, <3>1 DEF Alone, FreshInv
    <3> QED
      BY <1>4, <2>1, <2>2, <3>1, <3>2
  <2>3. CASE cached # NoRecord
    <3>1. /\ existing' = [existing EXCEPT ![r] = cached] /\ pc' = [pc EXCEPT ![r] = "check"]
          /\ UNCHANGED <<answer, forgotten>>
      BY <1>6, <2>3 DEF LookupMemory
    <3>2. Alone'
      BY <2>1, <3>1 DEF Alone, FreshInv, Threads
    <3>3. \A t \in Threads : Fresh(existing[t])'
      BY <2>1, <3>1 DEF Fresh, FreshInv
    <3> QED
      BY <2>1, <3>1, <3>2, <3>3 DEF Fresh, FreshInv
  <2> QED
    BY <2>2, <2>3
<1>7. ASSUME NEW r \in Readers, CheckAge(r) PROVE FreshInv'
  <2>1. /\ pc[r] = "check" /\ UNCHANGED <<backend, now, incoming, signals>>
        /\ pc' = [pc EXCEPT ![r] = "idle"] /\ existing' = [existing EXCEPT ![r] = NoRecord]
        /\ backend = "memory"
    BY <1>7 DEF CheckAge, FreshInv, Alone
  <2>2. Alone' /\ \A q \in Readers : existing'[q] = NoRecord
    BY <2>1 DEF Alone, FreshInv, Threads
  <2>3. CASE AnswerNone /\ cached' = NoRecord
    <3>1. Stored' = NoRecord
      BY <2>1, <2>3 DEF Stored
    <3> QED
      BY <1>4, <2>1, <2>2, <2>3, <3>1 DEF Threads
  <2>4. CASE AnswerWith(existing[r]) /\ cached' = cached
    <3>1. Stored' = Stored /\ answer' = existing[r] /\ forgotten' = forgotten
      BY <2>1, <2>4 DEF Stored, Active, AnswerWith
    <3>2. \A t \in Threads : Fresh(existing[t])'
      BY <2>1, <3>1, NoneIn DEF Fresh, FreshInv
    <3> QED
      BY <2>1, <2>2, <3>1, <3>2 DEF Fresh, FreshInv, Threads
  <2> QED
    BY <1>7, <2>3, <2>4 DEF CheckAge
<1>8. CASE Tick
  <2>1. now' = now + 1 /\ answer' = NoRecord
        /\ UNCHANGED <<backend, cached, pc, incoming, existing, signals, forgotten>>
    BY <1>8 DEF Tick
  <2>2. cached.updatedAt \in Int /\ cached.writtenAt \in Int
    BY RecordFacts DEF Optional
  <2>3. Stored' \in {NoRecord, Stored}
    BY <2>1, <2>2 DEF Stored, Active
  <2> QED
    BY <2>1, <2>3, NoneIn DEF Fresh, FreshInv, Alone
<1>9. CASE UNCHANGED vars
  BY <1>9 DEF vars, FreshInv, Fresh, Alone, Stored, Active
<1> QED
  BY <1>1, <1>2, <1>3, <1>5, <1>6, <1>7, <1>8, <1>9 DEF Next

LEMMA InitFreshInv == Init => FreshInv
<1> SUFFICES ASSUME Init PROVE FreshInv
  OBVIOUS
<1>1. Stored = NoRecord
  BY DEF Init, Stored
<1> QED
  BY <1>1, NoneIn DEF Init, FreshInv, Fresh, Alone, Threads

(* A policy that was told "nothing has changed for this subject" is never  *)
(* answered with an older signal again, with any number of upserts at work *)
(* around the lookup but those that had read it before.                    *)
THEOREM ForgottenStaysForgottenHolds == Spec => []ForgottenStaysForgotten
<1>1. FreshInv => ForgottenStaysForgotten
  BY DEF FreshInv, Fresh, ForgottenStaysForgotten
<1> QED
  BY <1>1, InitFreshInv, Typing, NextFreshInv, PTL DEF Spec

-----------------------------------------------------------------------------
(* What a signal is refused for *)

(* Every value of the record that is not accepted was stored unchecked, on *)
(* Redis by the write that made the record what it is.                     *)
Sourced(record) ==
    \A f \in SetBy(record) : record.values[f].value \in Invalid =>
        \E bad \in poison : /\ bad.signal = record.values[f].signal
                            /\ backend = "redis" => bad.at = record.writtenAt

PoisonInv ==
    /\ Sourced(cached)
    /\ \A w \in Writers : Sourced(existing[w])
    /\ backend = "redis" => \A w \in Writers : Accepted(existing[w])

LEMMA NoRecordFine == Accepted(NoRecord) /\ SetBy(NoRecord) = {}
BY RecordFacts DEF Accepted, SetBy

LEMMA AcceptedSourced == \A record : Accepted(record) => Sourced(record)
BY DEF Accepted, Sourced

(* What a write stores was accepted, or is the first record, unchecked.    *)
LEMMA WriteSourced ==
  ASSUME TypeOK, NEW w \in Writers, WriteMerged(w)
  PROVE  Sourced(cached)'
<1>1. cached' \in Record /\ cached'.writtenAt = now /\ incoming[w] \in Record /\ UNCHANGED backend
  BY WriteFacts DEF WriteMerged
<1>2. CASE existing[w] = NoRecord
  <2>1. SetBy(cached') = SetBy(incoming[w])
        /\ \A f \in Fields : cached'.values[f] = incoming[w].values[f]
    BY <1>2, WriteFacts DEF SetBy
  <2>2. ASSUME NEW f \in SetBy(cached'), cached'.values[f].value \in Invalid
        PROVE  [signal |-> cached'.values[f].signal, at |-> now] \in poison'
    <3>1. f \in SetBy(incoming[w]) /\ incoming[w].values[f] = cached'.values[f]
      BY <2>1, <2>2 DEF SetBy
    <3>2. ~Accepted(incoming[w]) /\ cached'.values[f].signal \in SignalsIn(incoming[w])
      BY <2>2, <3>1 DEF Accepted, SignalsIn
    <3> QED
      BY <3>2 DEF WriteMerged
  <2> QED
    BY <1>1, <2>2 DEF Sourced
<1>3. CASE existing[w] # NoRecord
  <2>1. Accepted(cached')
    BY <1>3 DEF WriteMerged
  <2> QED
    BY <2>1 DEF Sourced, Accepted
<1> QED
  BY <1>2, <1>3

LEMMA NextPoisonInv == TypeOK /\ PoisonInv /\ [Next]_vars => PoisonInv'
<1> SUFFICES ASSUME TypeOK, PoisonInv, [Next]_vars PROVE PoisonInv'
  OBVIOUS
<1>t. existing \in [Threads -> Optional] /\ Writers \cap Readers = {}
  BY CacheAssumption DEF TypeOK, Threads, Optional
<1>1. ASSUME UNCHANGED backend, poison \subseteq poison',
             cached' \in {cached, NoRecord} \/ Sourced(cached)',
             \A w \in Writers :
                existing'[w] \in {existing[w], NoRecord}
                \/ (existing'[w] = cached /\ (backend = "redis" => Accepted(cached)))
      PROVE  PoisonInv'
  <2>1. \A record : Sourced(record) => Sourced(record)'
    BY <1>1 DEF Sourced
  <2> QED
    BY <1>1, <2>1, NoRecordFine DEF PoisonInv, Sourced, Accepted
<1>2. CASE \E w \in Writers, f \in Fields, value \in Values \cup {Unset} : Signal(w, f, value)
  BY <1>1, <1>2 DEF Signal
<1>3. ASSUME NEW w \in Writers, ReadExisting(w) PROVE PoisonInv'
  BY <1>1, <1>3, <1>t, NoRecordFine DEF ReadExisting, ReturnUpsert, Stored, Threads
<1>4. ASSUME NEW w \in Writers, WriteMerged(w) PROVE PoisonInv'
  BY <1>1, <1>4, <1>t, WriteSourced DEF WriteMerged, ReturnUpsert, Threads
<1>5. ASSUME NEW w \in Writers, RefuseMerged(w) PROVE PoisonInv'
  BY <1>1, <1>5, <1>t DEF RefuseMerged, ReturnUpsert, Threads
<1>6. CASE \E r \in Readers : LookupRedis(r) \/ LookupMemory(r) \/ CheckAge(r)
  BY <1>1, <1>6, <1>t DEF LookupRedis, LookupMemory, CheckAge, Threads
<1>7. CASE Tick
  BY <1>1, <1>7 DEF Tick
<1>8. CASE UNCHANGED vars
  BY <1>1, <1>8 DEF vars
<1> QED
  BY <1>2, <1>3, <1>4, <1>5, <1>6, <1>7, <1>8 DEF Next

(* A refused signal met a value that was stored unchecked. *)
LEMMA StepRefuses ==
  ASSUME TypeOK, FreshInv, PoisonInv, [Next]_vars, NEW w \in Writers, Refused(w)
  PROVE  Poisoned
<1>1. ReadExisting(w) \/ WriteMerged(w) \/ RefuseMerged(w)
  <2>1. Writers \cap Readers = {} /\ pc \in [Writers \cup Readers -> Steps]
    BY CacheAssumption DEF TypeOK
  <2>2. pc[w] # "idle" /\ pc'[w] = "idle"
    BY DEF Refused
  <2>3. ASSUME NEW v \in Writers, ReadExisting(v) \/ WriteMerged(v) \/ RefuseMerged(v) PROVE v = w
    BY <2>1, <2>2, <2>3 DEF ReadExisting, WriteMerged, RefuseMerged, ReturnUpsert, Goto
  <2>4. ASSUME NEW v \in Writers, NEW f \in Fields, NEW value \in Values \cup {Unset}, Signal(v, f, value)
        PROVE  FALSE
    BY <2>1, <2>2, <2>4 DEF Signal, Goto
  <2>5. ASSUME NEW r \in Readers, LookupRedis(r) \/ LookupMemory(r) \/ CheckAge(r) PROVE FALSE
    BY <2>1, <2>2, <2>5 DEF LookupRedis, LookupMemory, CheckAge, Goto
  <2>6. ~Tick /\ ~UNCHANGED vars
    BY <2>2 DEF Tick, vars
  <2> QED
    BY <2>3, <2>4, <2>5, <2>6 DEF Next
<1>2. ~WriteMerged(w)
  BY MergedSignals DEF Refused
<1>3. CASE ReadExisting(w)
  <2>1. backend = "redis" /\ ~Accepted(Stored)
    <3>1. pc \in [Writers \cup Readers -> Steps]
      BY DEF TypeOK
    <3> QED
      BY <1>3, <3>1 DEF ReadExisting, Refused, Goto
  <2>2. Stored = cached /\ Active(cached)
    BY <2>1, NoRecordFine DEF Stored
  <2>3. PICK f \in SetBy(cached) : cached.values[f].value \in Invalid
    BY <2>1, <2>2 DEF Accepted
  <2>4. PICK bad \in poison : bad.signal = cached.values[f].signal /\ bad.at = cached.writtenAt
    BY <2>1, <2>3 DEF PoisonInv, Sourced
  <2>5. bad.signal \in SignalsIn(Stored)
    BY <2>2, <2>3, <2>4 DEF SignalsIn
  <2> QED
    BY <2>1, <2>2, <2>4, <2>5 DEF Active, FreshInv, Fresh, Poisoned
<1>4. CASE RefuseMerged(w)
  <2>1. /\ incoming[w] \in Optional /\ incoming[w] # NoRecord /\ existing[w] \in Optional
        /\ existing[w] # NoRecord /\ Accepted(incoming[w]) /\ ~Accepted(Merge(existing[w], incoming[w]))
    BY <1>4 DEF RefuseMerged, Refused, TypeOK, Optional
  <2>2. PICK f \in Fields : /\ Merge(existing[w], incoming[w]).values[f] # Unset
                            /\ Merge(existing[w], incoming[w]).values[f].value \in Invalid
    BY <2>1 DEF Accepted, SetBy
  <2>3. Merge(existing[w], incoming[w]).values[f] = existing[w].values[f]
    BY <2>1, <2>2, MergeFacts DEF Accepted, SetBy, Optional
  <2>4. f \in SetBy(existing[w]) /\ existing[w].values[f].value \in Invalid
    BY <2>2, <2>3 DEF SetBy
  <2>5. PICK bad \in poison : bad.signal = existing[w].values[f].signal
    BY <2>4 DEF PoisonInv, Sourced
  <2>6. backend # "redis"
    BY <2>4 DEF PoisonInv, Accepted
  <2>7. bad.signal \in SignalsIn(existing[w])
    BY <2>4, <2>5 DEF SignalsIn
  <2> QED
    BY <2>6, <2>7 DEF FreshInv, Fresh, Threads, Poisoned
<1> QED
  BY <1>1, <1>2, <1>3, <1>4

(* A signal with an accepted value is refused only while a value that was  *)
(* stored unchecked is there: on Redis less than a Ttl after it was, in    *)
(* the dict as long as no lookup has answered 404.                         *)
THEOREM RefusedOnlyForPoisonHolds == Spec => RefusedOnlyForPoison
<1>1. Init => PoisonInv
  BY NoRecordFine DEF Init, PoisonInv, Sourced
<1>2. TypeOK /\ FreshInv /\ PoisonInv /\ [Next]_vars =>
        [\A w \in Writers : Refused(w) => Poisoned]_vars
  BY StepRefuses
<1> QED
  BY <1>1, <1>2, InitFreshInv, NextFreshInv, NextPoisonInv, Typing, PTL DEF Spec, RefusedOnlyForPoison
=============================================================================
