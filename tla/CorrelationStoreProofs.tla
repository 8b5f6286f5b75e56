------------------------ MODULE CorrelationStoreProofs ------------------------
(* Proofs about the correlation store, for any sessions, subjects, threads *)
(* and any calls that break off.                                           *)
(*                                                                         *)
(* First RedisIndex: its types, that a registered session is found, that   *)
(* nothing hides a record from deregister, when one outlives its TTL,      *)
(* and that towards its callers the store is SessionDirectory.             *)
(*                                                                         *)
(* Then SessionIndex, as the instance Memory: that records can be removed  *)
(* and registered sessions are found, and what holds until calls overlap:  *)
(* none raises, no expired record is returned, the store is the directory. *)
(* Last, the types of both.                                                *)
EXTENDS CorrelationStore, SequenceTheorems, TLAPS


(* What the assumptions say of the constants. *)
LEMMA Constants ==
    /\ NoSid \notin Sids /\ NoSubject \notin Subjects
    /\ \A sid \in Sids : Owner[sid] \in Subjects
    /\ Ttl \in Nat /\ Ttl > 0 /\ MaxTime \in Nat
    /\ Forever \in Nat /\ Forever > MaxTime + Ttl /\ Never = Forever
  BY RedisIndexAssumption DEF Forever, Never

(* The thread's session. *)
LEMMA JobIsSid ==
  ASSUME TypeOK, NEW t \in Threads, pc[t] # "idle"
  PROVE  job[t] \in Sids /\ Owner[job[t]] \in Subjects
  BY Constants DEF TypeOK

(* What SetHash does to one subject, and leaves to the others. *)
OneHash(s, sids, until) ==
    /\ fields' \in [Subjects -> SUBSET Sids]
    /\ hashUntil' \in [Subjects -> 0 .. Forever]
    /\ \A r \in Subjects : fields'[r] = {} <=> hashUntil'[r] = 0
    /\ fields'[s] = sids
    /\ sids = {} => hashUntil'[s] = 0
    /\ sids # {} => hashUntil'[s] = until
    /\ \A r \in Subjects \ {s} : fields'[r] = fields[r] /\ hashUntil'[r] = hashUntil[r]

LEMMA SetHashTypes ==
  ASSUME TypeOK, NEW s \in Subjects, NEW sids \in SUBSET Sids, NEW until \in 1 .. Forever,
         SetHash(s, sids, until)
  PROVE  OneHash(s, sids, until)
<1>1. fields \in [Subjects -> SUBSET Sids] /\ hashUntil \in [Subjects -> 0 .. Forever]
  BY DEF TypeOK
<1>2. (IF sids = {} THEN 0 ELSE until) \in 0 .. Forever
  BY Constants
<1>3. /\ fields' \in [Subjects -> SUBSET Sids] /\ fields'[s] = sids
      /\ \A r \in Subjects \ {s} : fields'[r] = fields[r]
  BY <1>1 DEF SetHash
<1>4. /\ hashUntil' \in [Subjects -> 0 .. Forever] /\ hashUntil'[s] = (IF sids = {} THEN 0 ELSE until)
      /\ \A r \in Subjects \ {s} : hashUntil'[r] = hashUntil[r]
  BY <1>1, <1>2 DEF SetHash
<1>5. \A r \in Subjects : fields[r] = {} <=> hashUntil[r] = 0
  BY DEF TypeOK
<1>6. until # 0
  OBVIOUS
<1> QED
  BY <1>3, <1>4, <1>5, <1>6 DEF OneHash

(* What the three commands that change a hash make of it. *)
LEMMA HashChange ==
  ASSUME TypeOK, NEW t \in Threads, Hset(t) \/ Expire(t) \/ Hdel(t)
  PROVE  LET s == Owner[job[t]] IN
         /\ fields' \in [Subjects -> SUBSET Sids]
         /\ hashUntil' \in [Subjects -> 0 .. Forever]
         /\ \A r \in Subjects : fields'[r] = {} <=> hashUntil'[r] = 0
         /\ job[t] \in Sids /\ s \in Subjects
         /\ \A r \in Subjects \ {s} : fields'[r] = fields[r] /\ hashUntil'[r] = hashUntil[r]
         /\ Hset(t) => /\ fields'[s] = Hash(s) \cup {job[t]}
                       /\ hashUntil'[s] = IF Hash(s) = {} THEN Forever ELSE hashUntil[s]
         /\ Expire(t) => /\ fields'[s] = Hash(s)
                         /\ hashUntil'[s] = IF Hash(s) = {} THEN 0 ELSE now + Ttl
         /\ Hdel(t) => /\ fields'[s] = Hash(s) \ {job[t]}
                       /\ hashUntil'[s] = IF fields'[s] = {} THEN 0 ELSE hashUntil[s]
<1> DEFINE s == Owner[job[t]]
<1>1. job[t] \in Sids /\ s \in Subjects
  BY JobIsSid DEF Hset, Expire, Hdel
<1>2. Hash(s) \in SUBSET Sids
  BY <1>1 DEF Hash, TypeOK
<1>3. now \in Nat /\ now <= MaxTime /\ hashUntil[s] \in 0 .. Forever
  BY <1>1, Constants DEF TypeOK
<1>4. Hash(s) # {} => hashUntil[s] > now
  BY DEF Hash
<1>5. now + Ttl \in 1 .. Forever /\ Forever \in 1 .. Forever /\ (Hash(s) # {} => hashUntil[s] \in 1 .. Forever)
  BY <1>3, <1>4, Constants
<1> HIDE DEF s
<1>6. CASE Hset(t)
  <2> DEFINE sids == Hash(s) \cup {job[t]}
             until == IF Hash(s) = {} THEN Forever ELSE hashUntil[s]
  <2>1. SetHash(s, sids, until)
    BY <1>6 DEF Hset, s
  <2>2. pc[t] = "hset"
    BY <1>6 DEF Hset
  <2>3. sids \in SUBSET Sids /\ sids # {}
    BY <1>1, <1>2
  <2>4. until \in 1 .. Forever
    BY <1>5
  <2> HIDE DEF sids, until
  <2>5. OneHash(s, sids, until)
    BY <1>1, <2>1, <2>3, <2>4, SetHashTypes
  <2> QED
    BY <1>1, <2>2, <2>3, <2>5 DEF OneHash, s, sids, until, Expire, Hdel
<1>7. CASE Expire(t)
  <2> DEFINE sids == Hash(s)
             until == now + Ttl
  <2>1. SetHash(s, sids, until)
    BY <1>7 DEF Expire, s
  <2>2. pc[t] = "expire"
    BY <1>7 DEF Expire
  <2>3. sids \in SUBSET Sids /\ until \in 1 .. Forever
    BY <1>2, <1>5
  <2> HIDE DEF sids, until
  <2>4. OneHash(s, sids, until)
    BY <1>1, <2>1, <2>3, SetHashTypes
  <2> QED
    BY <1>1, <2>2, <2>4 DEF OneHash, s, sids, until, Hset, Hdel
<1>8. CASE Hdel(t)
  <2> DEFINE sids == Hash(s) \ {job[t]}
             until == IF Hash(s) = {} THEN Forever ELSE hashUntil[s]
  <2>1. SetHash(s, sids, until)
    BY <1>8 DEF Hdel, SetHash, s
  <2>2. pc[t] = "hdel"
    BY <1>8 DEF Hdel
  <2>3. sids \in SUBSET Sids /\ until \in 1 .. Forever
    BY <1>2, <1>5
  <2>4. sids # {} => until = hashUntil[s]
    OBVIOUS
  <2> HIDE DEF sids, until
  <2>5. OneHash(s, sids, until)
    BY <1>1, <2>1, <2>3, SetHashTypes
  <2>6. hashUntil'[s] = IF fields'[s] = {} THEN 0 ELSE hashUntil[s]
    BY <2>4, <2>5 DEF OneHash
  <2> QED
    BY <1>1, <2>2, <2>5, <2>6 DEF OneHash, s, sids, Hset, Expire
<1> QED
  BY <1>6, <1>7, <1>8

(* Every step keeps the types. *)
LEMMA NextTypeOK == TypeOK /\ [Next]_vars => TypeOK'
<1> SUFFICES ASSUME TypeOK, [Next]_vars PROVE TypeOK'
  OBVIOUS
<1> USE Constants DEF TypeOK, Steps, Goto, Start, Return, history
<1>1. ASSUME NEW t \in Threads, NEW sid \in Sids, Register(t, sid) PROVE TypeOK'
  BY <1>1 DEF Register
<1>2. ASSUME NEW t \in Threads, NEW sid \in Sids, Deregister(t, sid) PROVE TypeOK'
  BY <1>2 DEF Deregister
<1>3. ASSUME NEW t \in Threads, NEW sid \in Sids, DeregisterUnknown(t, sid) PROVE TypeOK'
  BY <1>3 DEF DeregisterUnknown, vars
<1>4. ASSUME NEW t \in Threads, Hset(t) PROVE TypeOK'
  BY <1>4, HashChange DEF Hset
<1>5. ASSUME NEW t \in Threads, Expire(t) PROVE TypeOK'
  <2>1. job[t] \in Sids
    BY <1>5, JobIsSid DEF Expire
  <2>2. late' \subseteq Sids
    BY <1>5, <2>1 DEF Expire
  <2>3. limitedAt' \in [Sids -> 0 .. Never]
    BY <1>5, <2>1 DEF Expire
  <2> QED
    BY <1>5, <2>2, <2>3, HashChange DEF Expire
<1>6. ASSUME NEW t \in Threads, SetSession(t) PROVE TypeOK'
  BY <1>6, JobIsSid DEF SetSession
<1>7. ASSUME NEW t \in Threads, Hdel(t) PROVE TypeOK'
  BY <1>7, HashChange DEF Hdel
<1>8. ASSUME NEW t \in Threads, DeleteSession(t) PROVE TypeOK'
  BY <1>8, JobIsSid DEF DeleteSession
<1>9. ASSUME NEW t \in Threads, Break(t) PROVE TypeOK'
  BY <1>9 DEF Break
<1>10. ASSUME NEW s \in Subjects, SessionsFor(s) PROVE TypeOK'
  BY <1>10 DEF SessionsFor, Hash
<1>11. CASE Tick
  BY <1>11 DEF Tick
<1>12. CASE UNCHANGED vars
  BY <1>12 DEF vars
<1> QED
  BY <1>1, <1>2, <1>3, <1>4, <1>5, <1>6, <1>7, <1>8, <1>9, <1>10, <1>11, <1>12 DEF Next

(* The variables keep to their types: in particular a hash without fields  *)
(* does not exist.                                                         *)
THEOREM Typing == Spec => []TypeOK
<1>1. Init => TypeOK
  BY Constants DEF Init, TypeOK, Steps
<1> QED
  BY <1>1, NextTypeOK, PTL DEF Spec
-----------------------------------------------------------------------------
Registering == {"hset", "expire", "set"}

Deregistering == {"hdel", "delete"}

(* A session is registered by one call, and deregistered only after its    *)
(* session key was written.                                                *)
Once ==
    /\ \A t \in Threads : pc[t] \in Registering => job[t] \in begun /\ indexedAt[job[t]] = Never
    /\ \A t, u \in Threads : pc[t] \in Registering /\ pc[u] \in Registering /\ job[t] = job[u] => t = u
    /\ \A t \in Threads : pc[t] \in Deregistering => job[t] \in dropped /\ indexedAt[job[t]] # Never
    /\ \A t \in Threads : pc[t] = "hset" => limitedAt[job[t]] = Never
    /\ \A sid \in Sids : limitedAt[sid] # Never \/ indexedAt[sid] # Never => sid \in begun
    /\ \A sid \in Sids : sessionUntil[sid] # 0 => indexedAt[sid] # Never
    /\ \A sid \in Sids : recordedAt[sid] <= now
    /\ \A s \in Subjects : \A sid \in fields[s] : Owner[sid] = s

(* A hash never holds a session of another subject. *)
LEMMA FieldsOwned ==
  ASSUME TypeOK, Once, NEW t \in Threads, Hset(t) \/ Expire(t) \/ Hdel(t)
  PROVE  \A s \in Subjects : \A sid \in fields'[s] : Owner[sid] = s
<1> DEFINE s == Owner[job[t]]
<1>1. /\ s \in Subjects
      /\ \A r \in Subjects \ {s} : fields'[r] = fields[r]
      /\ fields'[s] \subseteq Hash(s) \cup {job[t]}
  BY HashChange
<1>2. Hash(s) \subseteq fields[s]
  BY DEF Hash
<1>3. \A r \in Subjects : \A sid \in fields[r] : Owner[sid] = r
  BY DEF Once
<1> QED
  BY <1>1, <1>2, <1>3

(* Every step keeps it. *)
LEMMA NextOnce == TypeOK /\ Once /\ [Next]_vars => Once'
<1> SUFFICES ASSUME TypeOK, Once, [Next]_vars PROVE Once'
  OBVIOUS
<1> USE Constants DEF TypeOK, Once, Registering, Deregistering, Goto, Start, Return, history
<1>1. ASSUME NEW t \in Threads, NEW sid \in Sids, Register(t, sid) PROVE Once'
  BY <1>1 DEF Register
<1>2. ASSUME NEW t \in Threads, NEW sid \in Sids, Deregister(t, sid) PROVE Once'
  BY <1>2 DEF Deregister
<1>3. ASSUME NEW t \in Threads, NEW sid \in Sids, DeregisterUnknown(t, sid) PROVE Once'
  BY <1>3 DEF DeregisterUnknown, vars
<1>4. ASSUME NEW t \in Threads, Hset(t) PROVE Once'
  <2>1. job[t] \in Sids
    BY <1>4, JobIsSid DEF Hset
  <2>2. \A sid \in Sids : recordedAt'[sid] <= now'
    BY <1>4, <2>1 DEF Hset
  <2>3. /\ \A u \in Threads : pc'[u] = (IF u = t THEN "expire" ELSE pc[u])
        /\ pc[t] = "hset"
        /\ UNCHANGED <<job, begun, limitedAt, indexedAt, dropped, sessionUntil>>
    BY <1>4 DEF Hset
  <2>4. \A s \in Subjects : \A sid \in fields'[s] : Owner[sid] = s
    BY <1>4, FieldsOwned
  <2> HIDE DEF TypeOK
  <2> QED
    BY <2>2, <2>3, <2>4
<1>5. ASSUME NEW t \in Threads, Expire(t) PROVE Once'
  <2>1. \A s \in Subjects : \A sid \in fields'[s] : Owner[sid] = s
    BY <1>5, FieldsOwned
  <2>2. /\ \A u \in Threads : pc'[u] = (IF u = t THEN "set" ELSE pc[u])
        /\ pc[t] = "expire"
        /\ limitedAt' = [limitedAt EXCEPT ![job[t]] = now]
        /\ UNCHANGED <<now, job, begun, indexedAt, recordedAt, dropped, sessionUntil>>
    BY <1>5 DEF Expire
  <2> HIDE DEF TypeOK
  <2> QED
    BY <2>1, <2>2
<1>6. ASSUME NEW t \in Threads, SetSession(t) PROVE Once'
  BY <1>6, JobIsSid DEF SetSession
<1>7. ASSUME NEW t \in Threads, Hdel(t) PROVE Once'
  <2>1. \A s \in Subjects : \A sid \in fields'[s] : Owner[sid] = s
    BY <1>7, FieldsOwned
  <2>2. /\ \A u \in Threads : pc'[u] = (IF u = t THEN "delete" ELSE pc[u])
        /\ pc[t] = "hdel"
        /\ UNCHANGED <<now, job, begun, limitedAt, indexedAt, recordedAt, dropped, sessionUntil>>
    BY <1>7 DEF Hdel
  <2> HIDE DEF TypeOK
  <2> QED
    BY <2>1, <2>2
<1>8. ASSUME NEW t \in Threads, DeleteSession(t) PROVE Once'
  BY <1>8, JobIsSid DEF DeleteSession
<1>9. ASSUME NEW t \in Threads, Break(t) PROVE Once'
  BY <1>9 DEF Break
<1>10. ASSUME NEW s \in Subjects, SessionsFor(s) PROVE Once'
  BY <1>10 DEF SessionsFor
<1>11. CASE Tick
  BY <1>11 DEF Tick
<1>12. CASE UNCHANGED vars
  BY <1>12 DEF vars
<1> QED
  BY <1>1, <1>2, <1>3, <1>4, <1>5, <1>6, <1>7, <1>8, <1>9, <1>10, <1>11, <1>12 DEF Next

-----------------------------------------------------------------------------
(* The record of a session from its EXPIRE on: in a hash that lasts.       *)
Found ==
    \A sid \in Sids \ (dropped \cup late) :
        /\ now < recordedAt[sid] + Ttl
        /\ indexedAt[sid] # Never \/ \E t \in Threads : pc[t] = "set" /\ job[t] = sid
        => sid \in fields[Owner[sid]] /\ hashUntil[Owner[sid]] >= recordedAt[sid] + Ttl

(* The session key goes only after the record. *)
Indexed ==
    /\ \A sid \in Sids : indexedAt[sid] # Never =>
          sessionUntil[sid] = indexedAt[sid] + Ttl \/ sid \notin fields[Owner[sid]]
    /\ \A t \in Threads : pc[t] = "delete" => job[t] \notin fields[Owner[job[t]]]

(* A session without another of its subject has the hash for itself.       *)
Prolonged ==
    \A sid \in Sids : sid \in fields[Owner[sid]] /\ ~Renewed(sid) /\ limitedAt[sid] # Never =>
        hashUntil[Owner[sid]] <= limitedAt[sid] + Ttl

RecordInv == Found /\ Indexed /\ Prolonged

(* Only a command on the hash, or the clock, touches these; a call that    *)
(* begins, returns or breaks off does not.                                 *)
LEMMA RecordsUntouched ==
  ASSUME TypeOK, RecordInv,
         UNCHANGED <<now, fields, hashUntil, sessionUntil, recordedAt, limitedAt, indexedAt, late>>,
         begun \subseteq begun', dropped \subseteq dropped',
         \A t \in Threads : pc'[t] \in {"set", "delete"} => pc'[t] = pc[t] /\ job'[t] = job[t]
  PROVE  RecordInv'
<1>1. Found'
  BY DEF RecordInv, Found
<1>2. Indexed'
  BY DEF RecordInv, Indexed
<1>3. Prolonged'
  BY DEF RecordInv, Prolonged, Renewed
<1> QED
  BY <1>1, <1>2, <1>3 DEF RecordInv

LEMMA HsetKeeps ==
  ASSUME TypeOK, Once, RecordInv, NEW t \in Threads, Hset(t)
  PROVE  RecordInv'
<1> DEFINE s == Owner[job[t]]
<1>1. /\ job[t] \in Sids /\ s \in Subjects
      /\ fields'[s] = Hash(s) \cup {job[t]}
      /\ hashUntil'[s] = IF Hash(s) = {} THEN Forever ELSE hashUntil[s]
      /\ \A r \in Subjects \ {s} : fields'[r] = fields[r] /\ hashUntil'[r] = hashUntil[r]
  BY HashChange
<1>2. /\ pc[t] = "hset" /\ indexedAt[job[t]] = Never /\ limitedAt[job[t]] = Never /\ job[t] \in begun
      /\ \A u \in Threads : pc[u] = "set" => job[u] # job[t]
      /\ \A u \in Threads : pc[u] = "delete" => job[u] # job[t]
  BY DEF Hset, Once, Registering, Deregistering
<1>3. /\ \A u \in Threads : pc'[u] = (IF u = t THEN "expire" ELSE pc[u])
      /\ \A sid \in Sids \ {job[t]} : recordedAt'[sid] = recordedAt[sid]
      /\ UNCHANGED <<now, job, sessionUntil, begun, limitedAt, indexedAt, dropped, late>>
  BY <1>1 DEF Hset, TypeOK, Goto
<1>4. /\ now \in Int /\ Ttl \in Int /\ \A sid \in Sids : Owner[sid] \in Subjects /\ recordedAt[sid] \in Int
      /\ \A r \in Subjects : hashUntil[r] \in Int
  BY Constants DEF TypeOK
<1>5. \A u \in Threads : pc[u] \in {"set", "delete"} => job[u] \in Sids
  BY JobIsSid
<1>6. Found'
  <2> SUFFICES ASSUME NEW sid \in Sids \ (dropped \cup late), now < recordedAt'[sid] + Ttl,
                      indexedAt[sid] # Never \/ \E u \in Threads : pc'[u] = "set" /\ job[u] = sid
               PROVE  sid \in fields'[Owner[sid]] /\ hashUntil'[Owner[sid]] >= recordedAt'[sid] + Ttl
    BY <1>3 DEF Found
  <2>1. sid # job[t]
    BY <1>2, <1>3
  <2>2. sid \in fields[Owner[sid]] /\ hashUntil[Owner[sid]] >= recordedAt[sid] + Ttl
    BY <1>3, <2>1 DEF RecordInv, Found
  <2>3. now < hashUntil[Owner[sid]]
    BY <1>3, <1>4, <2>1, <2>2
  <2> QED
    BY <1>1, <1>3, <1>4, <2>1, <2>2, <2>3 DEF Hash
<1>7. Indexed'
  BY <1>1, <1>2, <1>3, <1>4, <1>5 DEF RecordInv, Indexed, Hash
<1>8. Prolonged'
  <2> SUFFICES ASSUME NEW sid \in Sids, ~Renewed(sid), sid \in fields'[Owner[sid]], limitedAt[sid] # Never
               PROVE  hashUntil'[Owner[sid]] <= limitedAt[sid] + Ttl
    BY <1>3 DEF Prolonged, Renewed
  <2>1. CASE sid = job[t]
    BY <1>2, <1>3, <2>1
  <2>2. CASE sid # job[t]
    <3>1. Owner[sid] # s
      BY <1>2, <2>2 DEF Renewed
    <3> QED
      BY <1>1, <1>3, <1>4, <3>1 DEF RecordInv, Prolonged
  <2> QED
    BY <2>1, <2>2
<1> QED
  BY <1>6, <1>7, <1>8 DEF RecordInv

LEMMA ExpireKeeps ==
  ASSUME TypeOK, Once, RecordInv, NEW t \in Threads, Expire(t)
  PROVE  RecordInv'
<1> DEFINE s == Owner[job[t]]
<1>1. /\ job[t] \in Sids /\ s \in Subjects
      /\ fields'[s] = Hash(s)
      /\ hashUntil'[s] = IF Hash(s) = {} THEN 0 ELSE now + Ttl
      /\ \A r \in Subjects \ {s} : fields'[r] = fields[r] /\ hashUntil'[r] = hashUntil[r]
  BY HashChange
<1>2. /\ pc[t] = "expire" /\ indexedAt[job[t]] = Never /\ job[t] \in begun
      /\ \A u \in Threads : pc[u] = "set" => job[u] # job[t]
      /\ \A sid \in Sids : recordedAt[sid] <= now
  BY DEF Expire, Once, Registering
<1>3. /\ \A u \in Threads : pc'[u] = (IF u = t THEN "set" ELSE pc[u])
      /\ UNCHANGED <<now, job, sessionUntil, begun, recordedAt, indexedAt, dropped>>
      /\ limitedAt' = [limitedAt EXCEPT ![job[t]] = now]
      /\ late \subseteq late' /\ (job[t] \notin late' => job[t] \in Hash(s))
  BY <1>1 DEF Expire, TypeOK, Goto
<1>4. /\ now \in Nat /\ Ttl \in Nat /\ \A sid \in Sids : Owner[sid] \in Subjects /\ recordedAt[sid] \in Int
      /\ \A r \in Subjects : hashUntil[r] \in Int
      /\ \A sid \in Sids : indexedAt[sid] \in Nat /\ limitedAt[sid] \in Nat
      /\ limitedAt \in [Sids -> 0 .. Never]
  BY Constants DEF TypeOK
<1>5. \A u \in Threads : pc[u] \in {"set", "delete"} => job[u] \in Sids
  BY JobIsSid
<1>6. Found'
  <2> SUFFICES ASSUME NEW sid \in Sids \ (dropped \cup late'), now < recordedAt[sid] + Ttl,
                      indexedAt[sid] # Never \/ \E u \in Threads : pc'[u] = "set" /\ job[u] = sid
               PROVE  sid \in fields'[Owner[sid]] /\ hashUntil'[Owner[sid]] >= recordedAt[sid] + Ttl
    BY <1>3 DEF Found
  <2>1. CASE sid = job[t]
    BY <1>1, <1>2, <1>3, <1>4, <2>1
  <2>2. CASE sid # job[t]
    <3>1. sid \in fields[Owner[sid]] /\ hashUntil[Owner[sid]] >= recordedAt[sid] + Ttl
      BY <1>3, <2>2 DEF RecordInv, Found
    <3>2. now < hashUntil[Owner[sid]] /\ recordedAt[sid] <= now
      BY <1>2, <1>4, <3>1
    <3> QED
      BY <1>1, <1>4, <3>1, <3>2 DEF Hash
  <2> QED
    BY <2>1, <2>2
<1>7. Indexed'
  BY <1>1, <1>2, <1>3, <1>4, <1>5 DEF RecordInv, Indexed, Hash
<1>8. Prolonged'
  <2> SUFFICES ASSUME NEW sid \in Sids, ~Renewed(sid), sid \in fields'[Owner[sid]], limitedAt'[sid] # Never
               PROVE  hashUntil'[Owner[sid]] <= limitedAt'[sid] + Ttl
    BY <1>3 DEF Prolonged, Renewed
  <2>1. CASE sid = job[t]
    BY <1>1, <1>2, <1>3, <1>4, <2>1
  <2>2. CASE sid # job[t]
    <3>1. Owner[sid] # s
      BY <1>2, <2>2 DEF Renewed
    <3> QED
      BY <1>1, <1>3, <1>4, <2>2, <3>1 DEF RecordInv, Prolonged
  <2> QED
    BY <2>1, <2>2
<1> QED
  BY <1>6, <1>7, <1>8 DEF RecordInv

LEMMA HdelKeeps ==
  ASSUME TypeOK, Once, RecordInv, NEW t \in Threads, Hdel(t)
  PROVE  RecordInv'
<1> DEFINE s == Owner[job[t]]
<1>1. /\ job[t] \in Sids /\ s \in Subjects
      /\ fields'[s] = Hash(s) \ {job[t]}
      /\ hashUntil'[s] = IF fields'[s] = {} THEN 0 ELSE hashUntil[s]
      /\ \A r \in Subjects \ {s} : fields'[r] = fields[r] /\ hashUntil'[r] = hashUntil[r]
  BY HashChange
<1>2. pc[t] = "hdel" /\ job[t] \in dropped
  BY DEF Hdel, Once, Deregistering
<1>3. /\ \A u \in Threads : pc'[u] = (IF u = t THEN "delete" ELSE pc[u])
      /\ UNCHANGED <<now, job, sessionUntil, begun, recordedAt, limitedAt, indexedAt, dropped, late>>
  BY <1>1 DEF Hdel, TypeOK, Goto, history
<1>4. /\ now \in Nat /\ Ttl \in Nat /\ \A sid \in Sids : Owner[sid] \in Subjects /\ recordedAt[sid] \in Int
      /\ \A r \in Subjects : hashUntil[r] \in Int
      /\ \A sid \in Sids : indexedAt[sid] \in Nat
  BY Constants DEF TypeOK
<1>5. \A u \in Threads : pc[u] \in {"set", "delete"} => job[u] \in Sids
  BY JobIsSid
<1>6. Found'
  <2> SUFFICES ASSUME NEW sid \in Sids \ (dropped \cup late), now < recordedAt[sid] + Ttl,
                      indexedAt[sid] # Never \/ \E u \in Threads : pc'[u] = "set" /\ job[u] = sid
               PROVE  sid \in fields'[Owner[sid]] /\ hashUntil'[Owner[sid]] >= recordedAt[sid] + Ttl
    BY <1>3 DEF Found
  <2>1. sid # job[t]
    BY <1>2
  <2>2. sid \in fields[Owner[sid]] /\ hashUntil[Owner[sid]] >= recordedAt[sid] + Ttl
    BY <1>3 DEF RecordInv, Found
  <2>3. now < hashUntil[Owner[sid]]
    BY <1>4, <2>2
  <2> QED
    BY <1>1, <1>4, <2>1, <2>2, <2>3 DEF Hash
<1>7. Indexed'
  BY <1>1, <1>2, <1>3, <1>4, <1>5 DEF RecordInv, Indexed, Hash
<1>8. Prolonged'
  <2> SUFFICES ASSUME NEW sid \in Sids, ~Renewed(sid), sid \in fields'[Owner[sid]], limitedAt[sid] # Never
               PROVE  hashUntil'[Owner[sid]] <= limitedAt[sid] + Ttl
    BY <1>3 DEF Prolonged, Renewed
  <2>1. sid \in fields[Owner[sid]] /\ hashUntil'[Owner[sid]] = hashUntil[Owner[sid]]
    BY <1>1, <1>4 DEF Hash
  <2> QED
    BY <1>3, <2>1 DEF RecordInv, Prolonged
<1> QED
  BY <1>6, <1>7, <1>8 DEF RecordInv

LEMMA SetSessionKeeps ==
  ASSUME TypeOK, Once, RecordInv, NEW t \in Threads, SetSession(t)
  PROVE  RecordInv'
<1>1. /\ pc[t] = "set" /\ job[t] \in Sids
      /\ \A u \in Threads : pc'[u] = (IF u = t THEN "idle" ELSE pc[u])
      /\ \A u \in Threads \ {t} : job'[u] = job[u]
      /\ UNCHANGED <<now, fields, hashUntil, recordedAt, limitedAt, begun, dropped, late>>
      /\ sessionUntil'[job[t]] = now + Ttl /\ indexedAt'[job[t]] = now
      /\ \A sid \in Sids \ {job[t]} : sessionUntil'[sid] = sessionUntil[sid] /\ indexedAt'[sid] = indexedAt[sid]
  BY JobIsSid DEF SetSession, TypeOK, Return
<1>2. Found'
  BY <1>1 DEF RecordInv, Found
<1>3. Indexed'
  BY <1>1 DEF RecordInv, Indexed
<1>4. Prolonged'
  BY <1>1 DEF RecordInv, Prolonged, Renewed
<1> QED
  BY <1>2, <1>3, <1>4 DEF RecordInv

LEMMA DeleteSessionKeeps ==
  ASSUME TypeOK, Once, RecordInv, NEW t \in Threads, DeleteSession(t)
  PROVE  RecordInv'
<1>1. /\ pc[t] = "delete" /\ job[t] \in Sids
      /\ \A u \in Threads : pc'[u] = (IF u = t THEN "idle" ELSE pc[u])
      /\ \A u \in Threads \ {t} : job'[u] = job[u]
      /\ UNCHANGED <<now, fields, hashUntil, recordedAt, limitedAt, indexedAt, begun, dropped, late>>
      /\ \A sid \in Sids \ {job[t]} : sessionUntil'[sid] = sessionUntil[sid]
  BY JobIsSid DEF DeleteSession, TypeOK, Return, history
<1>2. Found'
  BY <1>1 DEF RecordInv, Found
<1>3. Indexed'
  BY <1>1 DEF RecordInv, Indexed
<1>4. Prolonged'
  BY <1>1 DEF RecordInv, Prolonged, Renewed
<1> QED
  BY <1>2, <1>3, <1>4 DEF RecordInv

LEMMA TickKeeps == ASSUME TypeOK, RecordInv, Tick PROVE RecordInv'
<1>1. now' = now + 1 /\ now \in Nat /\ Ttl \in Nat /\ \A sid \in Sids : recordedAt[sid] \in Nat
  BY Constants DEF Tick, TypeOK
<1>2. /\ UNCHANGED <<fields, hashUntil, sessionUntil, pc, job, begun, recordedAt, limitedAt, indexedAt, dropped, late>>
      /\ \A sid \in Sids : Owner[sid] \in Subjects /\ hashUntil[Owner[sid]] \in Int
  BY Constants DEF Tick, history, TypeOK
<1>3. Found'
  BY <1>1, <1>2 DEF RecordInv, Found
<1>4. Indexed'
  BY <1>2 DEF RecordInv, Indexed
<1>5. Prolonged'
  BY <1>1, <1>2 DEF RecordInv, Prolonged, Renewed
<1> QED
  BY <1>3, <1>4, <1>5 DEF RecordInv

(* Every step keeps the invariant. *)
LEMMA NextRecordInv == TypeOK /\ Once /\ RecordInv /\ [Next]_vars => RecordInv'
<1> SUFFICES ASSUME TypeOK, Once, RecordInv, [Next]_vars PROVE RecordInv'
  OBVIOUS
<1>t. pc \in [Threads -> Steps] /\ job \in [Threads -> Sids \cup {NoSid}]
  BY DEF TypeOK
<1> USE <1>t DEF Goto, Start, Return, history
<1>1. ASSUME NEW t \in Threads, NEW sid \in Sids,
             Register(t, sid) \/ Deregister(t, sid) \/ DeregisterUnknown(t, sid)
      PROVE  RecordInv'
  BY <1>1, RecordsUntouched DEF Register, Deregister, DeregisterUnknown, vars
<1>2. ASSUME NEW t \in Threads, Break(t) PROVE RecordInv'
  BY <1>2, RecordsUntouched DEF Break
<1>3. CASE \E s \in Subjects : SessionsFor(s)
  BY <1>3, RecordsUntouched DEF SessionsFor
<1>4. CASE UNCHANGED vars
  BY <1>4, RecordsUntouched DEF vars
<1> QED
  BY <1>1, <1>2, <1>3, <1>4, HsetKeeps, ExpireKeeps, HdelKeeps, SetSessionKeeps, DeleteSessionKeeps, TickKeeps
  DEF Next

LEMMA InitInv == Init => TypeOK /\ Once /\ RecordInv
<1> SUFFICES ASSUME Init PROVE TypeOK /\ Once /\ RecordInv
  OBVIOUS
<1>1. TypeOK
  BY Constants DEF Init, TypeOK, Steps
<1>2. Once
  BY DEF Init, Once, Registering, Deregistering
<1>3. RecordInv
  BY DEF Init, RecordInv, Found, Indexed, Prolonged
<1> QED
  BY <1>1, <1>2, <1>3

(* A session whose register call has returned is found for a whole Ttl,    *)
(* unless it was deregistered or its hash expired between HSET and EXPIRE. *)
THEOREM RegisteredIsFoundHolds == Spec => []RegisteredIsFound
<1>1. TypeOK /\ RecordInv => RegisteredIsFound
  <2> SUFFICES ASSUME TypeOK, RecordInv, NEW sid \in Sids \ (dropped \cup late),
                      indexedAt[sid] # Never, now < recordedAt[sid] + Ttl
               PROVE  sid \in Hash(Owner[sid])
    BY DEF RegisteredIsFound
  <2>1. sid \in fields[Owner[sid]] /\ hashUntil[Owner[sid]] >= recordedAt[sid] + Ttl
    BY DEF RecordInv, Found
  <2>2. now \in Int /\ Ttl \in Int /\ recordedAt[sid] \in Int /\ hashUntil[Owner[sid]] \in Int
    BY Constants DEF TypeOK
  <2> QED
    BY <2>1, <2>2 DEF Hash
<1> QED
  BY <1>1, InitInv, NextTypeOK, NextOnce, NextRecordInv, PTL DEF Spec

(* deregister overlooks only records whose session key was never written   *)
(* or has outlived its Ttl.                                                *)
THEOREM OverlooksOnlyUnindexedHolds == Spec => []OverlooksOnlyUnindexed
<1>1. TypeOK /\ RecordInv => OverlooksOnlyUnindexed
  BY Constants DEF TypeOK, RecordInv, Indexed, OverlooksOnlyUnindexed, Hash
<1> QED
  BY <1>1, InitInv, NextTypeOK, NextOnce, NextRecordInv, PTL DEF Spec

(* A record is gone a Ttl after its registration's EXPIRE, unless another  *)
(* login of the subject renewed the hash, or the registration has not come *)
(* to its EXPIRE, or never will.                                           *)
THEOREM ExpiresUnlessRenewedHolds == Spec => []ExpiresUnlessRenewed
<1>1. TypeOK /\ RecordInv => ExpiresUnlessRenewed
  <2> SUFFICES ASSUME TypeOK, RecordInv, NEW sid \in Sids, sid \in Hash(Owner[sid]),
                      limitedAt[sid] # Never, ~Renewed(sid)
               PROVE  now < limitedAt[sid] + Ttl
    BY DEF ExpiresUnlessRenewed
  <2>1. sid \in fields[Owner[sid]] /\ hashUntil[Owner[sid]] > now
    BY DEF Hash
  <2>2. hashUntil[Owner[sid]] <= limitedAt[sid] + Ttl
    BY <2>1 DEF RecordInv, Prolonged
  <2>3. now \in Int /\ Ttl \in Int /\ limitedAt[sid] \in Int /\ hashUntil[Owner[sid]] \in Int
    BY Constants DEF TypeOK
  <2> QED
    BY <2>1, <2>2, <2>3
<1> QED
  BY <1>1, InitInv, NextTypeOK, NextOnce, NextRecordInv, PTL DEF Spec

-----------------------------------------------------------------------------
(* The sessions that lookups find. *)
Live == {sid \in Sids : sid \in Hash(Owner[sid])}

(* What becomes of the map when the sessions found are known.              *)
LEMMA MappingOf ==
    /\ Mapping = [sid \in Sids |-> IF sid \in Live THEN Owner[sid] ELSE NoSubject]
    /\ Mapping' = [sid \in Sids |-> IF sid \in Live' THEN Owner[sid] ELSE NoSubject]
  BY DEF Mapping, Live

(* Sessions that go are a Deregister of the directory.                     *)
LEMMA FewerLive ==
  ASSUME Live' \subseteq Live, UNCHANGED answer
  PROVE  Directory!Next
<1>1. Live \ Live' \in SUBSET Sids
  BY DEF Live
<1>2. Mapping' = [sid \in Sids |-> IF sid \in Live \ Live' THEN NoSubject ELSE Mapping[sid]]
  BY MappingOf
<1>3. Directory!Deregister(Live \ Live')
  BY <1>2 DEF Directory!Deregister
<1> QED
  BY <1>1, <1>3 DEF Directory!Next

(* Every step of the store is one of the directory, or none.               *)
LEMMA NextImplements == TypeOK /\ Once /\ [Next]_vars => [Directory!Next]_<<Mapping, answer>>
<1> SUFFICES ASSUME TypeOK, Once, [Next]_vars PROVE [Directory!Next]_<<Mapping, answer>>
  OBVIOUS
<1>1. ASSUME UNCHANGED <<now, fields, hashUntil, answer>> PROVE UNCHANGED <<Mapping, answer>>
  BY <1>1 DEF Mapping, Hash
<1>2. ASSUME NEW t \in Threads, Hset(t) PROVE Directory!Next
  <2>0. PICK s \in Subjects : s = Owner[job[t]]
    BY <1>2, JobIsSid DEF Hset
  <2>1. /\ job[t] \in Sids /\ s = Owner[job[t]]
        /\ fields'[s] = Hash(s) \cup {job[t]}
        /\ hashUntil'[s] = IF Hash(s) = {} THEN Forever ELSE hashUntil[s]
        /\ \A r \in Subjects \ {s} : fields'[r] = fields[r] /\ hashUntil'[r] = hashUntil[r]
    BY <1>2, <2>0, HashChange
  <2>2. UNCHANGED <<now, answer>> /\ now \in Nat /\ now < Forever
    BY <1>2, Constants DEF Hset, TypeOK
  <2>3. Hash(s)' = Hash(s) \cup {job[t]} /\ \A r \in Subjects \ {s} : Hash(r)' = Hash(r)
    BY <2>1, <2>2 DEF Hash
  <2>4. Live' = Live \cup {job[t]}
    BY <2>1, <2>3, Constants DEF Live
  <2>5. Mapping' = [Mapping EXCEPT ![job[t]] = s]
    BY <2>1, <2>4, MappingOf
  <2>6. Directory!Register(job[t], s)
    BY <2>2, <2>5 DEF Directory!Register
  <2> QED
    BY <2>1, <2>6 DEF Directory!Next
<1>3. ASSUME NEW t \in Threads, Expire(t) \/ Hdel(t) PROVE Directory!Next
  <2>0. PICK s \in Subjects : s = Owner[job[t]]
    BY <1>3, JobIsSid DEF Expire, Hdel
  <2>1. /\ job[t] \in Sids /\ s = Owner[job[t]]
        /\ fields'[s] \subseteq Hash(s)
        /\ \A r \in Subjects \ {s} : fields'[r] = fields[r] /\ hashUntil'[r] = hashUntil[r]
    BY <1>3, <2>0, HashChange
  <2>2. UNCHANGED <<now, answer>>
    BY <1>3 DEF Expire, Hdel
  <2>3. Hash(s)' \subseteq Hash(s) /\ \A r \in Subjects \ {s} : Hash(r)' = Hash(r)
    BY <2>1, <2>2 DEF Hash
  <2>4. Live' \subseteq Live
    BY <2>1, <2>3, Constants DEF Live
  <2> QED
    BY <2>2, <2>4, FewerLive
<1>4. CASE Tick
  <2>1. now' = now + 1 /\ UNCHANGED <<fields, hashUntil, answer>> /\ now \in Nat
        /\ \A r \in Subjects : hashUntil[r] \in Nat
    BY <1>4, Constants DEF Tick, TypeOK
  <2>2. \A r \in Subjects : Hash(r)' \subseteq Hash(r)
    BY <2>1 DEF Hash
  <2>3. Live' \subseteq Live
    BY <2>2, Constants DEF Live
  <2> QED
    BY <2>1, <2>3, FewerLive
<1>5. ASSUME NEW s \in Subjects, SessionsFor(s) PROVE Directory!Next
  <2>1. Hash(s) \subseteq Sids /\ \A sid \in Hash(s) : Owner[sid] = s
    BY DEF Hash, Once, TypeOK
  <2>2. {sid \in Sids : Mapping[sid] = s} = Hash(s)
    BY <2>1, Constants DEF Mapping
  <2>3. Mapping' = Mapping /\ answer' = Hash(s)
    BY <1>5 DEF SessionsFor, Mapping, Hash
  <2>4. Directory!SessionsFor(s)
    BY <2>2, <2>3 DEF Directory!SessionsFor
  <2> QED
    BY <2>4 DEF Directory!Next
<1>6. ASSUME NEW t \in Threads, NEW sid \in Sids,
             Register(t, sid) \/ Deregister(t, sid) \/ DeregisterUnknown(t, sid)
      PROVE  UNCHANGED <<Mapping, answer>>
  BY <1>1, <1>6 DEF Register, Deregister, DeregisterUnknown, vars
<1>7. ASSUME NEW t \in Threads, SetSession(t) \/ DeleteSession(t) \/ Break(t)
      PROVE  UNCHANGED <<Mapping, answer>>
  BY <1>1, <1>7 DEF SetSession, DeleteSession, Break
<1>8. CASE UNCHANGED vars
  BY <1>1, <1>8 DEF vars
<1> QED
  BY <1>2, <1>3, <1>4, <1>5, <1>6, <1>7, <1>8 DEF Next

(* "Same semantics, backed by a Redis hash": for all interleavings of      *)
(* commands and calls broken off anywhere, the store is the atomic map of  *)
(* SessionDirectory.                                                       *)
THEOREM RedisImplementsDirectory == Spec => ImplementsDirectory
<1>1. Init => Directory!Init
  <2> SUFFICES ASSUME Init PROVE Directory!Init
    OBVIOUS
  <2>1. \A sid \in Sids : sid \notin Hash(Owner[sid])
    BY Constants DEF Init, Hash
  <2>2. Mapping = [sid \in Sids |-> NoSubject] /\ answer = {}
    BY <2>1 DEF Mapping, Init
  <2> QED
    BY <2>2 DEF Directory!Init
<1> QED
  BY <1>1, InitInv, NextTypeOK, NextOnce, NextImplements, PTL DEF Spec, ImplementsDirectory, Directory!Spec


-----------------------------------------------------------------------------
(* The dictionaries of SessionIndex.  A subject's bucket matters while     *)
(* _by_subject has it; a thread may hold one that it has no longer.        *)
Records == UNION {[D -> Int] : D \in SUBSET Sids}

Sizes == {0} \cup {Memory!Cardinality(sids) : sids \in SUBSET Sids}

Calls ==
    [sid : Sids \cup {Memory!NoCall.sid}, subject : Subjects \cup {NoSubject}, at : Int,
     owner : Subjects \cup {NoSubject}, bucket : Nat, size : Sizes, cutoff : Int,
     expired : SUBSET Sids, sweeping : BOOLEAN]

(* The steps of sessions_for before, in and after its sweep. *)
Looking == {"iterate", "scan", "sweep", "read"}

(* sessions_for holds a bucket of its subject, or the empty default.       *)
HoldsBucket(t) ==
    call[t].sweeping => /\ call[t].subject \in Subjects
                        /\ call[t].bucket \in 0 .. Len(buckets[call[t].subject])

CallTyped(t) ==
    /\ mPc[t] = "insert" => /\ call[t].sid \in Sids
                            /\ call[t].subject \in SubjectsOf[call[t].sid]
                            /\ call[t].bucket \in 1 .. Len(buckets[call[t].subject])
    /\ mPc[t] \in {"remove", "clean"} => /\ call[t].sid \in Sids
                                         /\ call[t].owner \in SubjectsOf[call[t].sid]
    /\ mPc[t] \in Looking => call[t].sweeping
    /\ HoldsBucket(t)

MemoryTyped ==
    /\ mNow \in Nat
    /\ bySubject \in [Subjects -> Nat]
    /\ buckets \in [Subjects -> Seq(Records)]
    /\ \A s \in Subjects : bySubject[s] <= Len(buckets[s])
    /\ sessionTo \in [Sids -> Subjects \cup {NoSubject}]
    /\ \A sid \in Sids : sessionTo[sid] # NoSubject => sessionTo[sid] \in SubjectsOf[sid]
    /\ mPc \in [Threads -> Memory!Steps]
    /\ call \in [Threads -> Calls]
    /\ \A t \in Threads : CallTyped(t)

(* A step of one thread's call leaves the other calls where they were. *)
OnlyCall(t) == \A u \in Threads \ {t} : mPc'[u] = mPc[u] /\ call'[u] = call[u]

LEMMA MemoryConstants ==
    /\ NoSubject \notin Subjects
    /\ \A sid \in Sids : SubjectsOf[sid] \subseteq Subjects
    /\ MemoryTtl \in Nat
  BY RedisIndexAssumption, CorrelationStoreAssumption

LEMMA NoCallTyped == Memory!NoCall \in Calls /\ Memory!NoCall.sweeping = FALSE
  BY DEF Memory!NoCall, Calls, Sizes

LEMMA EmptyIsRecords == Memory!Empty \in Records
<1>1. Memory!Empty \in [{} -> Int]
  BY DEF Memory!Empty
<1> QED
  BY <1>1 DEF Records

LEMMA PutRecords ==
  ASSUME NEW b \in Records, NEW sid \in Sids, NEW at \in Int
  PROVE  /\ Memory!Put(b, sid, at) \in Records
         /\ DOMAIN Memory!Put(b, sid, at) = DOMAIN b \cup {sid}
         /\ \A x \in DOMAIN b \ {sid} : Memory!Put(b, sid, at)[x] = b[x]
<1>1. DOMAIN b \subseteq Sids /\ \A x \in DOMAIN b : b[x] \in Int
  BY DEF Records
<1>2. Memory!Put(b, sid, at) \in [DOMAIN b \cup {sid} -> Int]
  BY <1>1 DEF Memory!Put
<1> QED
  BY <1>1, <1>2 DEF Records, Memory!Put

LEMMA WithoutRecords ==
  ASSUME NEW b \in Records, NEW sid
  PROVE  /\ Memory!Without(b, sid) \in Records
         /\ DOMAIN Memory!Without(b, sid) = DOMAIN b \ {sid}
         /\ \A x \in DOMAIN b \ {sid} : Memory!Without(b, sid)[x] = b[x]
<1>1. DOMAIN b \subseteq Sids /\ \A x \in DOMAIN b : b[x] \in Int
  BY DEF Records
<1>2. Memory!Without(b, sid) \in [DOMAIN b \ {sid} -> Int]
  BY <1>1 DEF Memory!Without
<1> QED
  BY <1>1, <1>2 DEF Records, Memory!Without

(* The bucket of a subject is one. *)
LEMMA BucketTyped ==
  ASSUME MemoryTyped, NEW s \in Subjects
  PROVE  /\ Memory!Bucket(s) \in Records
         /\ DOMAIN Memory!Bucket(s) \subseteq Sids
         /\ \A sid \in DOMAIN Memory!Bucket(s) : Memory!Bucket(s)[sid] \in Int
<1>1. buckets[s] \in Seq(Records) /\ bySubject[s] \in Nat /\ bySubject[s] <= Len(buckets[s])
  BY DEF MemoryTyped
<1>2. bySubject[s] # 0 => buckets[s][bySubject[s]] \in Records
  BY <1>1, ElementOfSeq
<1>3. Memory!Bucket(s) \in Records
  BY <1>2, EmptyIsRecords DEF Memory!Bucket
<1> QED
  BY <1>3 DEF Records

Replaces(s, i, b) == buckets' = [buckets EXCEPT ![s][i] = b]

(* One bucket object is replaced. *)
LEMMA BucketReplaced ==
  ASSUME MemoryTyped, NEW s \in Subjects, NEW i \in 1 .. Len(buckets[s]), NEW b \in Records,
         Replaces(s, i, b), UNCHANGED bySubject
  PROVE  /\ buckets' \in [Subjects -> Seq(Records)]
         /\ \A r \in Subjects : Len(buckets'[r]) = Len(buckets[r])
         /\ Memory!Bucket(s)' = IF bySubject[s] = i THEN b ELSE Memory!Bucket(s)
         /\ \A r \in Subjects \ {s} : Memory!Bucket(r)' = Memory!Bucket(r)
<1> DEFINE seq == [buckets[s] EXCEPT ![i] = b]
<1>1. buckets \in [Subjects -> Seq(Records)] /\ bySubject[s] \in Nat /\ bySubject[s] <= Len(buckets[s])
  BY DEF MemoryTyped
<1>2. buckets' = [buckets EXCEPT ![s] = seq]
  BY DEF Replaces
<1>3. /\ seq \in Seq(Records) /\ Len(seq) = Len(buckets[s])
      /\ \A j \in 1 .. Len(buckets[s]) : seq[j] = IF j = i THEN b ELSE buckets[s][j]
  BY <1>1, ExceptSeq
<1> HIDE DEF seq
<1>4. buckets'[s] = seq /\ \A r \in Subjects \ {s} : buckets'[r] = buckets[r]
  BY <1>1, <1>2
<1> QED
  BY <1>1, <1>2, <1>3, <1>4 DEF Memory!Bucket

(* Buckets are added, never taken away.                                    *)
LEMMA StillHolds ==
  ASSUME MemoryTyped, NEW t \in Threads, buckets' \in [Subjects -> Seq(Records)],
         \A s \in Subjects : Len(buckets'[s]) >= Len(buckets[s]),
         UNCHANGED <<call[t].sweeping, call[t].subject, call[t].bucket>>
  PROVE  HoldsBucket(t)'
<1>1. HoldsBucket(t)
  BY DEF MemoryTyped, CallTyped
<1>2. SUFFICES ASSUME call[t].sweeping
               PROVE  call[t].subject \in Subjects /\ call[t].bucket \in 0 .. Len(buckets'[call[t].subject])
  BY DEF HoldsBucket
<1>3. call[t].subject \in Subjects /\ call[t].bucket \in 0 .. Len(buckets[call[t].subject])
  BY <1>1, <1>2 DEF HoldsBucket
<1>4. buckets'[call[t].subject] \in Seq(Records) /\ buckets[call[t].subject] \in Seq(Records)
  BY <1>3 DEF MemoryTyped
<1>5. Len(buckets'[call[t].subject]) \in Nat /\ Len(buckets[call[t].subject]) \in Nat
  BY <1>4, LenProperties
<1> QED
  BY <1>3, <1>5

LEMMA IdleTyped == ASSUME NEW t, mPc'[t] = "idle", call'[t] = Memory!NoCall PROVE CallTyped(t)'
  BY NoCallTyped DEF CallTyped, HoldsBucket, Looking

(* What one thread's step must leave so that everything keeps its type. *)
LEMMA StaysTyped ==
  ASSUME MemoryTyped, NEW t \in Threads, OnlyCall(t),
         mNow' \in Nat, bySubject' \in [Subjects -> Nat], buckets' \in [Subjects -> Seq(Records)],
         \A s \in Subjects : Len(buckets'[s]) >= Len(buckets[s]) /\ bySubject'[s] <= Len(buckets'[s]),
         sessionTo' \in [Sids -> Subjects \cup {NoSubject}],
         \A sid \in Sids : sessionTo'[sid] \in {NoSubject, sessionTo[sid]} \cup SubjectsOf[sid],
         mPc' \in [Threads -> Memory!Steps], call' \in [Threads -> Calls], CallTyped(t)'
  PROVE  MemoryTyped'
<1>1. \A sid \in Sids : sessionTo'[sid] # NoSubject => sessionTo'[sid] \in SubjectsOf[sid]
  BY DEF MemoryTyped
<1>2. ASSUME NEW u \in Threads PROVE CallTyped(u)'
  <2>1. CASE u = t
    BY <2>1
  <2>2. CASE u # t
    <3>1. mPc'[u] = mPc[u] /\ call'[u] = call[u] /\ CallTyped(u)
      BY <2>2 DEF OnlyCall, MemoryTyped
    <3>2. HoldsBucket(u)'
      BY <3>1, StillHolds
    <3>3. ASSUME mPc[u] = "insert"
          PROVE  call[u].bucket \in 1 .. Len(buckets'[call[u].subject])
      <4>1. /\ call[u].subject \in Subjects
            /\ call[u].bucket \in 1 .. Len(buckets[call[u].subject])
        BY <3>1, <3>3, MemoryConstants DEF CallTyped
      <4>2. Len(buckets'[call[u].subject]) >= Len(buckets[call[u].subject])
        BY <4>1
      <4>3. buckets'[call[u].subject] \in Seq(Records) /\ buckets[call[u].subject] \in Seq(Records)
        BY <4>1 DEF MemoryTyped
      <4>4. Len(buckets'[call[u].subject]) \in Nat /\ Len(buckets[call[u].subject]) \in Nat
        BY <4>3, LenProperties
      <4> QED
        BY <4>1, <4>2, <4>4
    <3> QED
      BY <3>1, <3>2, <3>3 DEF CallTyped
  <2> QED
    BY <2>1, <2>2
<1> QED
  BY <1>1, <1>2 DEF MemoryTyped

(* The store's lengths when nothing happens to the buckets. *)
LEMMA SameLengths ==
  ASSUME MemoryTyped, UNCHANGED <<bySubject, buckets>>
  PROVE  /\ bySubject' \in [Subjects -> Nat] /\ buckets' \in [Subjects -> Seq(Records)]
         /\ \A s \in Subjects : Len(buckets'[s]) >= Len(buckets[s]) /\ bySubject'[s] <= Len(buckets'[s])
         /\ \A s \in Subjects : Memory!Bucket(s)' = Memory!Bucket(s)
<1>1. \A s \in Subjects : Len(buckets[s]) \in Nat
  BY LenProperties DEF MemoryTyped
<1> QED
  BY <1>1 DEF MemoryTyped, Memory!Bucket

(* register's first step: the subject has a bucket, the lookups' buckets   *)
(* hold what they held.                                                    *)
LEMMA RegisterDoes ==
  ASSUME MemoryTyped, NEW t \in Threads, NEW sid \in Sids, NEW s \in SubjectsOf[sid],
         Memory!Register(t, sid, s)
  PROVE  /\ mPc[t] = "idle" /\ mPc'[t] = "insert" /\ OnlyCall(t)
         /\ call'[t].sid = sid /\ call'[t].subject = s /\ ~call'[t].sweeping
         /\ call'[t].bucket = bySubject'[s] /\ bySubject'[s] # 0
         /\ \A r \in Subjects : bySubject[r] # 0 => bySubject'[r] = bySubject[r]
         /\ \A r \in Subjects : Memory!Bucket(r)' = Memory!Bucket(r)
         /\ UNCHANGED <<mNow, sessionTo, mAnswer, errors, raced>>
         /\ overlapped' = (overlapped \/ \E u \in Threads : mPc[u] # "idle")
         /\ MemoryTyped'
<1> DEFINE bucket == IF bySubject[s] = 0 THEN Len(buckets[s]) + 1 ELSE bySubject[s]
           c == [Memory!NoCall EXCEPT !.sid = sid, !.subject = s, !.at = mNow, !.bucket = bucket]
<1>1. s \in Subjects
  BY MemoryConstants
<1>2. /\ bySubject \in [Subjects -> Nat] /\ bySubject[s] <= Len(buckets[s]) /\ Len(buckets[s]) \in Nat
      /\ buckets \in [Subjects -> Seq(Records)] /\ call \in [Threads -> Calls] /\ mPc \in [Threads -> Memory!Steps]
  BY <1>1, LenProperties DEF MemoryTyped
<1>3. /\ buckets' = IF bySubject[s] = 0 THEN [buckets EXCEPT ![s] = Append(@, Memory!Empty)] ELSE buckets
      /\ bySubject' = [bySubject EXCEPT ![s] = bucket]
      /\ call' = [call EXCEPT ![t] = c]
      /\ mPc[t] = "idle" /\ mPc' = [mPc EXCEPT ![t] = "insert"]
      /\ UNCHANGED <<mNow, sessionTo, mAnswer, errors, raced>>
      /\ overlapped' = (overlapped \/ \E u \in Threads : mPc[u] # "idle")
  BY DEF Memory!Register, Memory!Begin, Memory!Goto
<1>4. bucket \in Nat \ {0} /\ (bySubject[s] # 0 => bucket = bySubject[s])
  BY <1>1, <1>2
<1>6. /\ buckets' \in [Subjects -> Seq(Records)]
      /\ Len(buckets'[s]) >= Len(buckets[s]) /\ bucket <= Len(buckets'[s])
      /\ \A r \in Subjects \ {s} : buckets'[r] = buckets[r]
      /\ buckets'[s][bucket] = Memory!Bucket(s)
  <2>1. CASE bySubject[s] = 0
    <3>1. /\ Append(buckets[s], Memory!Empty) \in Seq(Records)
          /\ Len(Append(buckets[s], Memory!Empty)) = Len(buckets[s]) + 1
          /\ Append(buckets[s], Memory!Empty)[Len(buckets[s]) + 1] = Memory!Empty
      BY <1>1, <1>2, EmptyIsRecords, AppendProperties
    <3> QED
      BY <1>1, <1>2, <1>3, <2>1, <3>1 DEF Memory!Bucket
  <2>2. CASE bySubject[s] # 0
    BY <1>1, <1>2, <1>3, <2>2 DEF Memory!Bucket
  <2> QED
    BY <2>1, <2>2
<1> HIDE DEF bucket
<1>5. c \in Calls /\ c.sid = sid /\ c.subject = s /\ c.bucket = bucket /\ c.sweeping = FALSE
  <2>1. mNow \in Int
    BY DEF MemoryTyped
  <2> QED
    BY <1>1, <1>4, <2>1, NoCallTyped DEF Calls
<1> HIDE DEF c
<1>7. /\ bySubject' \in [Subjects -> Nat] /\ bySubject'[s] = bucket
      /\ \A r \in Subjects \ {s} : bySubject'[r] = bySubject[r]
  BY <1>1, <1>2, <1>3, <1>4
<1>8. \A r \in Subjects : Memory!Bucket(r)' = Memory!Bucket(r)
  <2>1. Memory!Bucket(s)' = buckets'[s][bucket]
    BY <1>4, <1>7 DEF Memory!Bucket
  <2>2. \A r \in Subjects \ {s} : Memory!Bucket(r)' = Memory!Bucket(r)
    BY <1>6, <1>7 DEF Memory!Bucket
  <2> QED
    BY <1>6, <2>1, <2>2
<1>9. /\ mPc' \in [Threads -> Memory!Steps] /\ mPc'[t] = "insert"
      /\ call' \in [Threads -> Calls] /\ call'[t] = c /\ OnlyCall(t)
  BY <1>2, <1>3, <1>5 DEF OnlyCall, Memory!Steps
<1>10. CallTyped(t)'
  BY <1>1, <1>2, <1>4, <1>5, <1>6, <1>7, <1>9, LenProperties DEF CallTyped, Looking, HoldsBucket
<1>11. MemoryTyped'
  <2>1. \A r \in Subjects : Len(buckets'[r]) >= Len(buckets[r]) /\ bySubject'[r] <= Len(buckets'[r])
    <3>1. \A r \in Subjects : Len(buckets[r]) \in Nat /\ bySubject[r] <= Len(buckets[r])
      BY LenProperties DEF MemoryTyped
    <3>2. \A r \in Subjects \ {s} : buckets'[r] = buckets[r] /\ bySubject'[r] = bySubject[r]
      BY <1>6, <1>7
    <3>3. Len(buckets'[s]) >= Len(buckets[s]) /\ bySubject'[s] <= Len(buckets'[s])
      BY <1>6, <1>7
    <3> QED
      BY <3>1, <3>2, <3>3
  <2> QED
    BY <1>3, <1>6, <1>7, <1>9, <1>10, <2>1, StaysTyped DEF MemoryTyped
<1> QED
  BY <1>3, <1>4, <1>5, <1>7, <1>8, <1>9, <1>11

(* Its second step: the record goes into the bucket the thread holds.      *)
LEMMA InsertDoes ==
  ASSUME MemoryTyped, NEW t \in Threads, Memory!Insert(t)
  PROVE  LET c == call[t] IN
         /\ mPc[t] = "insert" /\ mPc'[t] = "idle" /\ OnlyCall(t)
         /\ c.sid \in Sids /\ c.subject \in Subjects /\ c.subject \in SubjectsOf[c.sid]
         /\ UNCHANGED <<mNow, bySubject, mAnswer, errors, overlapped>>
         /\ raced' = (raced \/ Memory!Doomed(c.sid))
         /\ c.at \in Int
         /\ sessionTo'[c.sid] = c.subject
         /\ \A sid \in Sids \ {c.sid} : sessionTo'[sid] = sessionTo[sid]
         /\ \A s \in Subjects :
               Memory!Bucket(s)' = IF s = c.subject /\ bySubject[s] = c.bucket
                                   THEN Memory!Put(Memory!Bucket(s), c.sid, c.at)
                                   ELSE Memory!Bucket(s)
         /\ MemoryTyped'
<1>0. PICK sid, s, i, at, b : /\ sid = call[t].sid /\ s = call[t].subject /\ i = call[t].bucket
                             /\ at = call[t].at /\ b = Memory!Put(buckets[s][i], sid, at)
  OBVIOUS
<1>1. /\ mPc[t] = "insert" /\ mPc' = [mPc EXCEPT ![t] = "idle"]
      /\ call' = [call EXCEPT ![t] = Memory!NoCall]
      /\ Replaces(s, i, b)
      /\ sessionTo' = [sessionTo EXCEPT ![sid] = s]
      /\ raced' = (raced \/ Memory!Doomed(sid))
      /\ UNCHANGED <<mNow, bySubject, mAnswer, errors, overlapped>>
  BY <1>0 DEF Memory!Insert, Memory!Return, Memory!Goto, Replaces
<1>2. CallTyped(t)
  BY DEF MemoryTyped
<1>3. sid \in Sids /\ s \in SubjectsOf[sid] /\ s \in Subjects /\ i \in 1 .. Len(buckets[s])
  BY <1>0, <1>1, <1>2, MemoryConstants DEF CallTyped
<1>4. buckets[s] \in Seq(Records) /\ buckets[s][i] \in Records /\ at \in Int
  BY <1>0, <1>3, ElementOfSeq DEF MemoryTyped, Calls
<1>5. b \in Records
  BY <1>0, <1>3, <1>4, PutRecords
<1>6. /\ mPc' \in [Threads -> Memory!Steps] /\ mPc'[t] = "idle"
      /\ call' \in [Threads -> Calls] /\ call'[t] = Memory!NoCall /\ OnlyCall(t)
      /\ sessionTo' \in [Sids -> Subjects \cup {NoSubject}] /\ sessionTo'[sid] = s
      /\ \A x \in Sids \ {sid} : sessionTo'[x] = sessionTo[x]
  BY <1>1, <1>3, NoCallTyped DEF MemoryTyped, OnlyCall, Memory!Steps
<1>7. bySubject[s] = i => Memory!Bucket(s) = buckets[s][i]
  BY <1>3 DEF Memory!Bucket
<1>8. /\ buckets' \in [Subjects -> Seq(Records)]
      /\ \A r \in Subjects : Len(buckets'[r]) = Len(buckets[r])
      /\ Memory!Bucket(s)' = IF bySubject[s] = i THEN b ELSE Memory!Bucket(s)
      /\ \A r \in Subjects \ {s} : Memory!Bucket(r)' = Memory!Bucket(r)
  BY <1>1, <1>3, <1>5, BucketReplaced
<1>9. MemoryTyped'
  <2>1. \A r \in Subjects : Len(buckets'[r]) >= Len(buckets[r]) /\ bySubject'[r] <= Len(buckets'[r])
    <3>1. \A r \in Subjects : Len(buckets[r]) \in Nat /\ bySubject[r] <= Len(buckets[r])
      BY LenProperties DEF MemoryTyped
    <3> QED
      BY <1>1, <1>8, <3>1
  <2>2. CallTyped(t)'
    BY <1>6, IdleTyped
  <2>3. mNow' \in Nat /\ bySubject' \in [Subjects -> Nat]
    BY <1>1 DEF MemoryTyped
  <2>4. \A x \in Sids : sessionTo'[x] \in {NoSubject, sessionTo[x]} \cup SubjectsOf[x]
    BY <1>3, <1>6
  <2> QED
    BY <1>6, <1>8, <2>1, <2>2, <2>3, <2>4, StaysTyped
<1>10. Memory!Bucket(s)' = IF bySubject[s] = i THEN Memory!Put(Memory!Bucket(s), sid, at) ELSE Memory!Bucket(s)
  BY <1>0, <1>7, <1>8
<1> QED
  BY <1>0, <1>1, <1>3, <1>4, <1>6, <1>8, <1>9, <1>10

(* What a step does that changes no bucket and not the clock. *)
Quiet(t) ==
    /\ OnlyCall(t)
    /\ UNCHANGED <<mNow, bySubject, buckets>>
    /\ \A s \in Subjects : Memory!Bucket(s)' = Memory!Bucket(s)
    /\ MemoryTyped'

LEMMA StaysQuiet ==
  ASSUME MemoryTyped, NEW t \in Threads, OnlyCall(t), UNCHANGED <<mNow, bySubject, buckets>>,
         sessionTo' \in [Sids -> Subjects \cup {NoSubject}],
         \A sid \in Sids : sessionTo'[sid] \in {NoSubject, sessionTo[sid]},
         mPc' \in [Threads -> Memory!Steps], call' \in [Threads -> Calls], CallTyped(t)'
  PROVE  Quiet(t)
<1>1. mNow' \in Nat
  BY DEF MemoryTyped
<1>2. MemoryTyped'
  BY <1>1, SameLengths, StaysTyped
<1> QED
  BY <1>2, SameLengths DEF Quiet

(* The first step of deregister, called by the store's users. *)
LEMMA DeregisterDoes ==
  ASSUME MemoryTyped, NEW t \in Threads, NEW sid \in Sids, Memory!Deregister(t, sid)
  PROVE  /\ mPc[t] = "idle" /\ mPc'[t] = "remove"
         /\ call'[t].sid = sid /\ call'[t].owner = sessionTo[sid] /\ ~call'[t].sweeping
         /\ sessionTo[sid] # NoSubject /\ sessionTo'[sid] = NoSubject
         /\ \A x \in Sids \ {sid} : sessionTo'[x] = sessionTo[x]
         /\ UNCHANGED <<mAnswer, errors, raced>>
         /\ overlapped' = (overlapped \/ \E u \in Threads : mPc[u] # "idle")
         /\ Quiet(t)
<1> DEFINE owner == sessionTo[sid]
           c == [Memory!NoCall EXCEPT !.sid = sid, !.owner = owner]
<1>1. /\ mPc[t] = "idle" /\ mPc' = [mPc EXCEPT ![t] = "remove"]
      /\ call' = [call EXCEPT ![t] = c]
      /\ owner # NoSubject /\ sessionTo' = [sessionTo EXCEPT ![sid] = NoSubject]
      /\ UNCHANGED <<mNow, bySubject, buckets, mAnswer, errors, raced>>
      /\ overlapped' = (overlapped \/ \E u \in Threads : mPc[u] # "idle")
  BY DEF Memory!Deregister, Memory!Begin, Memory!Goto, Memory!TakeReverse
<1>2. owner \in Subjects /\ owner \in SubjectsOf[sid]
  BY <1>1 DEF MemoryTyped
<1> HIDE DEF owner
<1>3. c \in Calls /\ c.sid = sid /\ c.owner = owner /\ c.sweeping = FALSE
  BY <1>2, NoCallTyped DEF Calls
<1> HIDE DEF c
<1>4. /\ mPc' \in [Threads -> Memory!Steps] /\ mPc'[t] = "remove"
      /\ call' \in [Threads -> Calls] /\ call'[t] = c /\ OnlyCall(t)
      /\ sessionTo' \in [Sids -> Subjects \cup {NoSubject}] /\ sessionTo'[sid] = NoSubject
      /\ \A x \in Sids \ {sid} : sessionTo'[x] = sessionTo[x]
  BY <1>1, <1>3 DEF MemoryTyped, OnlyCall, Memory!Steps
<1>5. CallTyped(t)'
  BY <1>2, <1>3, <1>4 DEF CallTyped, Looking, HoldsBucket
<1>6. Quiet(t)
  BY <1>1, <1>4, <1>5, StaysQuiet
<1> QED
  BY <1>1, <1>3, <1>4, <1>6 DEF owner

(* Its second step: the record leaves the bucket that lookups read.        *)
Drops(t, sid, owner) ==
    /\ mPc[t] = "remove" /\ OnlyCall(t)
    /\ sid \in Sids /\ owner \in Subjects /\ owner \in SubjectsOf[sid]
    /\ UNCHANGED <<mNow, bySubject, sessionTo, mAnswer, errors, raced, overlapped>>
    /\ \A s \in Subjects : DOMAIN Memory!Bucket(s)' = IF s = owner THEN DOMAIN Memory!Bucket(s) \ {sid} ELSE DOMAIN Memory!Bucket(s)

LEMMA RemoveDoes ==
  ASSUME MemoryTyped, NEW t \in Threads, Memory!Remove(t)
  PROVE  /\ Drops(t, call[t].sid, call[t].owner)
         /\ mPc[t] = "remove" /\ OnlyCall(t)
         /\ IF call[t].sweeping THEN mPc'[t] \in {"clean", "sweep"} ELSE mPc'[t] \in {"clean", "idle"}
         /\ mPc'[t] # "idle" => call'[t] = call[t]
         /\ mPc'[t] = "clean" => bySubject[call[t].owner] # 0
         /\ UNCHANGED <<mNow, bySubject, sessionTo, mAnswer, errors, raced, overlapped>>
         /\ \A s \in Subjects : \A x \in DOMAIN Memory!Bucket(s)' : Memory!Bucket(s)'[x] = Memory!Bucket(s)[x]
         /\ MemoryTyped'
<1>0. PICK sid, s, i, b : /\ sid = call[t].sid /\ s = call[t].owner /\ i = bySubject[s]
                         /\ b = Memory!Without(buckets[s][i], sid)
  OBVIOUS
<1>1. /\ mPc[t] = "remove"
      /\ UNCHANGED <<mNow, bySubject, sessionTo, mAnswer, errors, raced, overlapped>>
      /\ IF i = 0 THEN Memory!Deregistered(t) /\ UNCHANGED buckets
         ELSE /\ Replaces(s, i, b)
              /\ mPc' = [mPc EXCEPT ![t] = "clean"]
              /\ UNCHANGED call
  BY <1>0 DEF Memory!Remove, Memory!Goto, Replaces, Memory!history
<1>2. CallTyped(t)
  BY DEF MemoryTyped
<1>3. /\ sid \in Sids /\ s \in SubjectsOf[sid] /\ s \in Subjects
  BY <1>0, <1>1, <1>2, MemoryConstants DEF CallTyped
<1>4. buckets[s] \in Seq(Records) /\ i \in Nat /\ i <= Len(buckets[s]) /\ Len(buckets[s]) \in Nat
  BY <1>0, <1>3, LenProperties DEF MemoryTyped
<1>5. /\ mPc' \in [Threads -> Memory!Steps] /\ call' \in [Threads -> Calls] /\ OnlyCall(t)
      /\ IF call[t].sweeping THEN mPc'[t] \in {"clean", "sweep"} ELSE mPc'[t] \in {"clean", "idle"}
      /\ call'[t] = IF mPc'[t] = "idle" THEN Memory!NoCall ELSE call[t]
      /\ mPc'[t] = "clean" => bySubject[s] # 0
  BY <1>0, <1>1, NoCallTyped
  DEF MemoryTyped, OnlyCall, Memory!Steps, Memory!Deregistered, Memory!Return, Memory!Goto
<1>6. /\ buckets' \in [Subjects -> Seq(Records)]
      /\ \A r \in Subjects : Len(buckets'[r]) >= Len(buckets[r]) /\ bySubject'[r] <= Len(buckets'[r])
      /\ \A r \in Subjects \ {s} : Memory!Bucket(r)' = Memory!Bucket(r)
      /\ DOMAIN Memory!Bucket(s)' = DOMAIN Memory!Bucket(s) \ {sid}
      /\ \A x \in DOMAIN Memory!Bucket(s)' : Memory!Bucket(s)'[x] = Memory!Bucket(s)[x]
  <2>1. CASE i = 0
    <3>1. DOMAIN Memory!Bucket(s) = {}
      BY <1>0, <2>1 DEF Memory!Bucket, Memory!Empty
    <3> QED
      BY <1>1, <1>3, <2>1, <3>1, SameLengths
  <2>2. CASE i # 0
    <3>1. /\ i \in 1 .. Len(buckets[s]) /\ buckets[s][i] = Memory!Bucket(s) /\ bySubject[s] = i
      BY <1>0, <1>4, <2>2 DEF Memory!Bucket
    <3>2. Memory!Bucket(s) \in Records
      BY <1>3, BucketTyped
    <3>3. /\ b \in Records /\ DOMAIN b = DOMAIN Memory!Bucket(s) \ {sid}
          /\ \A x \in DOMAIN b : b[x] = Memory!Bucket(s)[x]
      <4>1. b = Memory!Without(Memory!Bucket(s), sid)
        BY <1>0, <3>1
      <4> QED
        BY <3>2, <4>1, WithoutRecords
    <3>4. /\ buckets' \in [Subjects -> Seq(Records)]
          /\ \A r \in Subjects : Len(buckets'[r]) = Len(buckets[r])
          /\ Memory!Bucket(s)' = b
          /\ \A r \in Subjects \ {s} : Memory!Bucket(r)' = Memory!Bucket(r)
      BY <1>1, <1>3, <2>2, <3>1, <3>3, BucketReplaced
    <3>5. \A r \in Subjects : Len(buckets[r]) \in Nat /\ bySubject[r] <= Len(buckets[r])
      BY LenProperties DEF MemoryTyped
    <3> QED
      BY <1>1, <3>3, <3>4, <3>5
  <2> QED
    BY <2>1, <2>2
<1>7. MemoryTyped'
  <2>1. CallTyped(t)'
    <3>1. CASE mPc'[t] = "idle"
      BY <1>5, <3>1, IdleTyped
    <3>2. CASE mPc'[t] # "idle"
      BY <1>0, <1>3, <1>5, <1>6, <3>2, StillHolds DEF CallTyped, Looking
    <3> QED
      BY <3>1, <3>2
  <2>2. mNow' \in Nat /\ bySubject' \in [Subjects -> Nat] /\ sessionTo' \in [Sids -> Subjects \cup {NoSubject}]
        /\ \A x \in Sids : sessionTo'[x] \in {NoSubject, sessionTo[x]} \cup SubjectsOf[x]
    BY <1>1 DEF MemoryTyped
  <2> QED
    BY <1>5, <1>6, <2>1, <2>2, StaysTyped
<1>8. ASSUME NEW r \in Subjects
      PROVE  /\ DOMAIN Memory!Bucket(r)' = IF r = s THEN DOMAIN Memory!Bucket(r) \ {sid} ELSE DOMAIN Memory!Bucket(r)
             /\ \A x \in DOMAIN Memory!Bucket(r)' : Memory!Bucket(r)'[x] = Memory!Bucket(r)[x]
  <2>1. CASE r = s
    BY <1>6, <2>1
  <2>2. CASE r # s
    BY <1>6, <2>2
  <2> QED
    BY <2>1, <2>2
<1>9. Drops(t, sid, s)
  BY <1>1, <1>3, <1>5, <1>8 DEF Drops
<1>10. \A r \in Subjects : \A x \in DOMAIN Memory!Bucket(r)' : Memory!Bucket(r)'[x] = Memory!Bucket(r)[x]
  BY <1>8
<1> QED
  BY <1>0, <1>1, <1>5, <1>7, <1>9, <1>10

(* Its last step: an empty bucket is deleted, lookups see no difference.   *)
LEMMA CleanDoes ==
  ASSUME MemoryTyped, NEW t \in Threads, Memory!Clean(t)
  PROVE  LET c == call[t] IN
         /\ mPc[t] = "clean" /\ OnlyCall(t)
         /\ c.owner \in Subjects
         /\ mPc'[t] \in {"idle", "sweep"}
         /\ mPc'[t] = "sweep" => c.sweeping /\ call'[t] = c
         /\ UNCHANGED <<mNow, sessionTo, mAnswer, overlapped>>
         /\ bySubject[c.owner] # 0 => UNCHANGED errors
         /\ \A s \in Subjects : \/ bySubject'[s] = bySubject[s]
                                \/ /\ s = c.owner /\ bySubject'[s] = 0
                                   /\ raced' = (raced \/ \E u \in Threads : mPc[u] = "insert" /\ call[u].subject = s)
         /\ raced => raced'
         /\ \A s \in Subjects : Memory!Bucket(s)' = Memory!Bucket(s)
         /\ MemoryTyped'
<1>0. PICK s : s = call[t].owner
  OBVIOUS
<1>1. /\ mPc[t] = "clean"
      /\ UNCHANGED <<mNow, buckets, sessionTo, mAnswer, overlapped>>
      /\ \/ /\ bySubject[s] = 0 /\ Memory!Raise(t, "KeyError") /\ UNCHANGED <<bySubject, raced>>
         \/ /\ bySubject[s] # 0
            /\ bySubject' = IF Memory!Bucket(s) = Memory!Empty THEN [bySubject EXCEPT ![s] = 0] ELSE bySubject
            /\ Memory!Deregistered(t)
            /\ raced' = (raced \/ Memory!Orphans(s))
            /\ UNCHANGED errors
  BY <1>0 DEF Memory!Clean
<1>2. CallTyped(t)
  BY DEF MemoryTyped
<1>3. /\ s \in Subjects /\ bySubject \in [Subjects -> Nat]
  BY <1>0, <1>1, <1>2, MemoryConstants DEF CallTyped, MemoryTyped
<1>4. /\ mPc' \in [Threads -> Memory!Steps] /\ call' \in [Threads -> Calls] /\ OnlyCall(t)
      /\ mPc'[t] \in {"idle", "sweep"}
      /\ mPc'[t] = "idle" => call'[t] = Memory!NoCall
      /\ mPc'[t] = "sweep" => call[t].sweeping /\ call'[t] = call[t]
  BY <1>1, NoCallTyped
  DEF MemoryTyped, OnlyCall, Memory!Steps, Memory!Deregistered, Memory!Return, Memory!Raise, Memory!Goto
<1>5. /\ bySubject' \in [Subjects -> Nat]
      /\ bySubject' = bySubject \/ (bySubject' = [bySubject EXCEPT ![s] = 0] /\ Memory!Bucket(s) = Memory!Empty
                                    /\ raced' = (raced \/ Memory!Orphans(s)))
  BY <1>1, <1>3
<1>6. ASSUME NEW r \in Subjects
      PROVE  /\ \/ bySubject'[r] = bySubject[r]
                \/ /\ r = s /\ bySubject'[r] = 0
                   /\ raced' = (raced \/ \E u \in Threads : mPc[u] = "insert" /\ call[u].subject = r)
             /\ Memory!Bucket(r)' = Memory!Bucket(r)
  BY <1>1, <1>3, <1>5 DEF Memory!Bucket, Memory!Orphans
<1>7. MemoryTyped'
  <2>1. CallTyped(t)'
    <3>1. CASE mPc'[t] = "idle"
      BY <1>4, <3>1, IdleTyped
    <3>2. CASE mPc'[t] = "sweep"
      <4>1. HoldsBucket(t)'
        BY <1>1, <1>2, <1>4, <3>2 DEF CallTyped, HoldsBucket
      <4> QED
        BY <1>4, <3>2, <4>1 DEF CallTyped, Looking
    <3> QED
      BY <1>4, <3>1, <3>2
  <2>2. /\ mNow' \in Nat /\ sessionTo' \in [Sids -> Subjects \cup {NoSubject}]
        /\ \A x \in Sids : sessionTo'[x] \in {NoSubject, sessionTo[x]} \cup SubjectsOf[x]
        /\ buckets' \in [Subjects -> Seq(Records)]
    BY <1>1 DEF MemoryTyped
  <2>3. \A r \in Subjects : Len(buckets'[r]) >= Len(buckets[r]) /\ bySubject'[r] <= Len(buckets'[r])
    <3>1. \A r \in Subjects : Len(buckets[r]) \in Nat /\ bySubject[r] <= Len(buckets[r])
      BY LenProperties DEF MemoryTyped
    <3> QED
      BY <1>1, <1>6, <3>1
  <2> QED
    BY <1>4, <1>5, <2>1, <2>2, <2>3, StaysTyped
<1>8. bySubject[s] # 0 => UNCHANGED errors
  BY <1>1
<1>9. raced => raced'
  <2>1. raced' = raced \/ raced' = (raced \/ Memory!Orphans(s))
    BY <1>1
  <2> QED
    BY <2>1, Zenon
<1> QED
  BY <1>0, <1>1, <1>3, <1>4, <1>6, <1>7, <1>8, <1>9

(* sessions_for begins: it holds the bucket that the subject has now.      *)
LEMMA SessionsForDoes ==
  ASSUME MemoryTyped, NEW t \in Threads, NEW s \in Subjects, Memory!SessionsFor(t, s)
  PROVE  /\ mPc[t] = "idle" /\ mPc'[t] = "iterate"
         /\ call'[t].subject = s /\ call'[t].bucket = bySubject[s] /\ call'[t].sweeping
         /\ UNCHANGED <<sessionTo, mAnswer, errors, raced>>
         /\ overlapped' = (overlapped \/ \E u \in Threads : mPc[u] # "idle")
         /\ Quiet(t)
<1>0. PICK bucket, cutoff : bucket = bySubject[s] /\ cutoff = mNow - MemoryTtl
  OBVIOUS
<1> DEFINE c == [Memory!NoCall EXCEPT !.subject = s, !.bucket = bucket, !.cutoff = cutoff, !.sweeping = TRUE]
<1>1. /\ mPc[t] = "idle" /\ mPc' = [mPc EXCEPT ![t] = "iterate"]
      /\ call' = [call EXCEPT ![t] = c]
      /\ UNCHANGED <<mNow, bySubject, buckets, sessionTo, mAnswer, errors, raced>>
      /\ overlapped' = (overlapped \/ \E u \in Threads : mPc[u] # "idle")
  BY <1>0 DEF Memory!SessionsFor, Memory!Begin, Memory!Goto, Memory!store
<1>2. bucket \in Nat /\ bucket <= Len(buckets[s]) /\ cutoff \in Int
  BY <1>0, MemoryConstants DEF MemoryTyped
<1>3. c \in Calls /\ c.subject = s /\ c.bucket = bucket /\ c.sweeping = TRUE
  BY <1>2, NoCallTyped DEF Calls
<1> HIDE DEF c
<1>4. /\ mPc' \in [Threads -> Memory!Steps] /\ mPc'[t] = "iterate"
      /\ call' \in [Threads -> Calls] /\ call'[t] = c /\ OnlyCall(t)
  BY <1>1, <1>3 DEF MemoryTyped, OnlyCall, Memory!Steps
<1>5. CallTyped(t)'
  <2>1. buckets[s] \in Seq(Records) /\ buckets' = buckets
    BY <1>1 DEF MemoryTyped
  <2>2. Len(buckets[s]) \in Nat
    BY <2>1, LenProperties
  <2> QED
    BY <1>2, <1>3, <1>4, <2>1, <2>2 DEF CallTyped, Looking, HoldsBucket
<1>6. sessionTo' \in [Sids -> Subjects \cup {NoSubject}] /\ \A sid \in Sids : sessionTo'[sid] \in {NoSubject, sessionTo[sid]}
  BY <1>1 DEF MemoryTyped
<1>7. Quiet(t)
  BY <1>1, <1>4, <1>5, <1>6, StaysQuiet
<1> QED
  BY <1>0, <1>1, <1>3, <1>4, <1>7


(* A sweep's bucket holds session ids.                                     *)
LEMMA HeldTyped ==
  ASSUME MemoryTyped, NEW t \in Threads, mPc[t] \in Looking
  PROVE  /\ Memory!Held(t) \in Records /\ DOMAIN Memory!Held(t) \subseteq Sids
         /\ Memory!Cardinality(DOMAIN Memory!Held(t)) \in Sizes
<1>1. CallTyped(t)
  BY DEF MemoryTyped
<1>2. call[t].subject \in Subjects /\ call[t].bucket \in 0 .. Len(buckets[call[t].subject])
  BY <1>1 DEF CallTyped, HoldsBucket
<1>3. buckets[call[t].subject] \in Seq(Records)
  BY <1>2 DEF MemoryTyped
<1>4. call[t].bucket # 0 => buckets[call[t].subject][call[t].bucket] \in Records
  BY <1>2, <1>3, ElementOfSeq
<1>5. Memory!Held(t) \in Records
  BY <1>4, EmptyIsRecords DEF Memory!Held
<1>6. DOMAIN Memory!Held(t) \subseteq Sids
  BY <1>5 DEF Records
<1> QED
  BY <1>5, <1>6 DEF Sizes

(* Within sessions_for only locals change.                                 *)
LEMMA LocalStep ==
  ASSUME MemoryTyped, NEW t \in Threads, NEW step \in Memory!Steps, NEW c \in Calls,
         mPc' = [mPc EXCEPT ![t] = step], call' = [call EXCEPT ![t] = c],
         UNCHANGED <<mNow, bySubject, buckets, sessionTo>>,
         step \notin {"insert", "remove", "clean"},
         step \in Looking => c.sweeping,
         c.sweeping => /\ c.subject \in Subjects
                       /\ c.bucket \in 0 .. Len(buckets[c.subject])
  PROVE  /\ mPc'[t] = step /\ call'[t] = c /\ Quiet(t)
<1>1. /\ mPc' \in [Threads -> Memory!Steps] /\ mPc'[t] = step
      /\ call' \in [Threads -> Calls] /\ call'[t] = c /\ OnlyCall(t)
  BY DEF MemoryTyped, OnlyCall
<1>2. CallTyped(t)'
  BY <1>1 DEF CallTyped, Looking, HoldsBucket
<1>3. sessionTo' \in [Sids -> Subjects \cup {NoSubject}] /\ \A sid \in Sids : sessionTo'[sid] \in {NoSubject, sessionTo[sid]}
  BY DEF MemoryTyped
<1> QED
  BY <1>1, <1>2, <1>3, StaysQuiet

(* The iterator over the bucket is made.                                   *)
LEMMA IterateDoes ==
  ASSUME MemoryTyped, NEW t \in Threads, Memory!Iterate(t)
  PROVE  /\ mPc[t] = "iterate" /\ mPc'[t] = "scan"
         /\ call'[t] = [call[t] EXCEPT !.size = Memory!Cardinality(DOMAIN Memory!Held(t))]
         /\ UNCHANGED <<sessionTo, mAnswer, errors, raced, overlapped>>
         /\ Quiet(t)
<1>0. PICK c : c = [call[t] EXCEPT !.size = Memory!Cardinality(DOMAIN Memory!Held(t))]
  OBVIOUS
<1>1. mPc[t] = "iterate" /\ "scan" \in Memory!Steps \ {"insert", "remove", "clean"} /\ "iterate" \in Looking
  BY DEF Memory!Iterate, Memory!Steps, Looking
<1>2. /\ mPc' = [mPc EXCEPT ![t] = "scan"]
      /\ UNCHANGED <<mNow, bySubject, buckets, sessionTo, mAnswer, errors, raced, overlapped>>
  BY DEF Memory!Iterate, Memory!Goto, Memory!store, Memory!history
<1>3. call' = [call EXCEPT ![t] = c]
  BY <1>0 DEF Memory!Iterate
<1>4. /\ call[t] \in Calls /\ call[t].sweeping /\ call[t].subject \in Subjects
      /\ call[t].bucket \in 0 .. Len(buckets[call[t].subject])
  BY <1>1 DEF MemoryTyped, CallTyped, HoldsBucket
<1>5. /\ c \in Calls /\ c.sweeping = call[t].sweeping
      /\ c.subject = call[t].subject /\ c.bucket = call[t].bucket
  <2>1. Memory!Cardinality(DOMAIN Memory!Held(t)) \in Sizes
    BY <1>1, HeldTyped
  <2> QED
    BY <1>0, <1>4, <2>1 DEF Calls
<1>6. mPc'[t] = "scan" /\ call'[t] = c /\ Quiet(t)
  BY <1>1, <1>2, <1>3, <1>4, <1>5, LocalStep
<1> QED
  BY <1>0, <1>1, <1>2, <1>6

(* The expired sessions are collected, or the size has changed.            *)
LEMMA ScanDoes ==
  ASSUME MemoryTyped, NEW t \in Threads, Memory!Scan(t)
  PROVE  /\ mPc[t] = "scan"
         /\ \/ /\ mPc'[t] = "sweep" /\ UNCHANGED errors
               /\ call'[t] = [call[t] EXCEPT !.expired = Memory!Expired(Memory!Held(t), call[t].cutoff)]
            \/ mPc'[t] = "idle" /\ Memory!Cardinality(DOMAIN Memory!Held(t)) # call[t].size
         /\ UNCHANGED <<sessionTo, mAnswer, raced, overlapped>>
         /\ Quiet(t)
<1>0. PICK c : c = [call[t] EXCEPT !.expired = Memory!Expired(Memory!Held(t), call[t].cutoff)]
  OBVIOUS
<1>1. /\ mPc[t] = "scan" /\ {"sweep", "idle"} \subseteq Memory!Steps \ {"insert", "remove", "clean"}
      /\ {"scan", "sweep"} \subseteq Looking /\ "idle" \notin Looking
  BY DEF Memory!Scan, Memory!Steps, Looking
<1>2. UNCHANGED <<mNow, bySubject, buckets, sessionTo, mAnswer, raced, overlapped>>
  BY DEF Memory!Scan, Memory!store, Memory!history
<1>3. /\ call[t] \in Calls /\ call[t].sweeping /\ call[t].subject \in Subjects
      /\ call[t].bucket \in 0 .. Len(buckets[call[t].subject])
  BY <1>1 DEF MemoryTyped, CallTyped, HoldsBucket
<1>4. /\ c \in Calls /\ c.sweeping = call[t].sweeping
      /\ c.subject = call[t].subject /\ c.bucket = call[t].bucket
  <2>1. Memory!Expired(Memory!Held(t), call[t].cutoff) \in SUBSET Sids
    BY <1>1, HeldTyped DEF Memory!Expired
  <2> QED
    BY <1>0, <1>3, <2>1 DEF Calls
<1>5. \/ /\ mPc' = [mPc EXCEPT ![t] = "sweep"] /\ call' = [call EXCEPT ![t] = c]
         /\ UNCHANGED errors
      \/ /\ Memory!Cardinality(DOMAIN Memory!Held(t)) # call[t].size
         /\ mPc' = [mPc EXCEPT ![t] = "idle"] /\ call' = [call EXCEPT ![t] = Memory!NoCall]
  BY <1>0 DEF Memory!Scan, Memory!Goto, Memory!Raise, Memory!Return
<1>6. CASE mPc' = [mPc EXCEPT ![t] = "sweep"] /\ call' = [call EXCEPT ![t] = c] /\ UNCHANGED errors
  <2>1. mPc'[t] = "sweep" /\ call'[t] = c /\ Quiet(t)
    BY <1>1, <1>2, <1>3, <1>4, <1>6, LocalStep
  <2> QED
    BY <1>0, <1>1, <1>2, <1>6, <2>1
<1>7. CASE /\ Memory!Cardinality(DOMAIN Memory!Held(t)) # call[t].size
           /\ mPc' = [mPc EXCEPT ![t] = "idle"] /\ call' = [call EXCEPT ![t] = Memory!NoCall]
  <2>1. mPc'[t] = "idle" /\ Quiet(t)
    BY <1>1, <1>2, <1>7, NoCallTyped, LocalStep
  <2> QED
    BY <1>1, <1>2, <1>7, <2>1
<1> QED
  BY <1>5, <1>6, <1>7

(* The sweep turns to one expired session: the first step of deregister,   *)
(* and the call is over at once without a reverse entry.                   *)
Sweeps(t, sid) ==
    /\ mPc[t] = "sweep" /\ call[t].sweeping /\ call[t].subject \in Subjects
    /\ mPc'[t] = IF sessionTo[sid] = NoSubject THEN "sweep" ELSE "remove"
    /\ call'[t] = [call[t] EXCEPT !.expired = @ \ {sid}, !.sid = sid, !.owner = sessionTo[sid]]
    /\ call[t] \in Calls
    /\ sessionTo[sid] # NoSubject => sessionTo[sid] \in SubjectsOf[sid]
    /\ sessionTo'[sid] = NoSubject
    /\ \A x \in Sids \ {sid} : sessionTo'[x] = sessionTo[x]
    /\ UNCHANGED <<mAnswer, errors, raced, overlapped>>
    /\ Quiet(t)
LEMMA SweepDoes ==
  ASSUME MemoryTyped, NEW t \in Threads, Memory!Sweep(t)
  PROVE  \E sid \in Sids : Sweeps(t, sid)
<1>1. mPc[t] = "sweep" /\ "sweep" \in Looking
  BY DEF Memory!Sweep, Looking
<1>2. /\ call[t] \in Calls /\ call[t].sweeping /\ call[t].subject \in Subjects
      /\ call[t].expired \subseteq Sids /\ CallTyped(t)
  BY <1>1 DEF MemoryTyped, CallTyped, HoldsBucket, Calls
<1>3. PICK sid \in Sids :
        /\ sessionTo' = [sessionTo EXCEPT ![sid] = NoSubject]
        /\ call' = [call EXCEPT ![t].expired = @ \ {sid}, ![t].sid = sid, ![t].owner = sessionTo[sid]]
        /\ IF sessionTo[sid] = NoSubject THEN UNCHANGED mPc ELSE mPc' = [mPc EXCEPT ![t] = "remove"]
        /\ UNCHANGED <<mNow, bySubject, buckets, mAnswer, errors, raced, overlapped>>
  BY <1>2 DEF Memory!Sweep, Memory!TakeReverse, Memory!Goto, Memory!history
<1>4. PICK c : c = [call[t] EXCEPT !.expired = @ \ {sid}, !.sid = sid, !.owner = sessionTo[sid]]
  OBVIOUS
<1>5. /\ sessionTo[sid] \in Subjects \cup {NoSubject}
      /\ sessionTo[sid] # NoSubject => sessionTo[sid] \in SubjectsOf[sid]
  BY DEF MemoryTyped
<1>6. /\ c \in Calls /\ c.sweeping = call[t].sweeping /\ c.sid = sid /\ c.owner = sessionTo[sid]
      /\ c.subject = call[t].subject /\ c.bucket = call[t].bucket
  BY <1>2, <1>4, <1>5 DEF Calls
<1>7. /\ mPc' \in [Threads -> Memory!Steps]
      /\ mPc'[t] = IF sessionTo[sid] = NoSubject THEN "sweep" ELSE "remove"
      /\ \A u \in Threads \ {t} : mPc'[u] = mPc[u]
  BY <1>1, <1>3 DEF MemoryTyped, Memory!Steps
<1>8. call' \in [Threads -> Calls] /\ call'[t] = c /\ \A u \in Threads \ {t} : call'[u] = call[u]
  BY <1>3, <1>4, <1>6 DEF MemoryTyped
<1>9. /\ sessionTo' \in [Sids -> Subjects \cup {NoSubject}] /\ sessionTo'[sid] = NoSubject
      /\ \A x \in Sids \ {sid} : sessionTo'[x] = sessionTo[x]
  BY <1>3 DEF MemoryTyped
<1>10. CallTyped(t)'
  <2>1. HoldsBucket(t)'
    BY <1>2, <1>3, <1>6, <1>8 DEF CallTyped, HoldsBucket
  <2> QED
    BY <1>2, <1>5, <1>6, <1>7, <1>8, <2>1 DEF CallTyped, Looking
<1>11. Quiet(t)
  BY <1>3, <1>7, <1>8, <1>9, <1>10, StaysQuiet DEF OnlyCall
<1> QED
  BY <1>1, <1>2, <1>3, <1>4, <1>5, <1>7, <1>8, <1>9, <1>11 DEF Sweeps

(* With nothing left to sweep the bucket is fetched once more ...          *)
LEMMA FetchDoes ==
  ASSUME MemoryTyped, NEW t \in Threads, Memory!Fetch(t)
  PROVE  /\ mPc[t] = "sweep" /\ mPc'[t] = "read"
         /\ call[t] \in Calls /\ call[t].expired = {} /\ call[t].sweeping /\ call[t].subject \in Subjects
         /\ call'[t] = [call[t] EXCEPT !.bucket = bySubject[call[t].subject]]
         /\ UNCHANGED <<sessionTo, mAnswer, errors, raced, overlapped>>
         /\ Quiet(t)
<1>0. PICK bucket, c : bucket = bySubject[call[t].subject] /\ c = [call[t] EXCEPT !.bucket = bucket]
  OBVIOUS
<1>1. /\ mPc[t] = "sweep" /\ "read" \in Memory!Steps \ {"insert", "remove", "clean"} /\ "sweep" \in Looking
      /\ call[t].expired = {}
  BY DEF Memory!Fetch, Memory!Steps, Looking
<1>2. /\ mPc' = [mPc EXCEPT ![t] = "read"]
      /\ UNCHANGED <<mNow, bySubject, buckets, sessionTo, mAnswer, errors, raced, overlapped>>
  BY DEF Memory!Fetch, Memory!Goto, Memory!store, Memory!history
<1>3. call' = [call EXCEPT ![t] = c]
  BY <1>0 DEF Memory!Fetch
<1>4. call[t] \in Calls /\ call[t].sweeping /\ call[t].subject \in Subjects
  BY <1>1 DEF MemoryTyped, CallTyped, HoldsBucket
<1>5. bucket \in Nat /\ bucket \in 0 .. Len(buckets[call[t].subject])
  <2>1. buckets[call[t].subject] \in Seq(Records) /\ bucket \in Nat /\ bucket <= Len(buckets[call[t].subject])
    BY <1>0, <1>4 DEF MemoryTyped
  <2>2. Len(buckets[call[t].subject]) \in Nat
    BY <2>1, LenProperties
  <2> QED
    BY <2>1, <2>2
<1>6. /\ c \in Calls /\ c.sweeping = call[t].sweeping
      /\ c.subject = call[t].subject /\ c.bucket = bucket
  BY <1>0, <1>4, <1>5 DEF Calls
<1>7. mPc'[t] = "read" /\ call'[t] = c /\ Quiet(t)
  BY <1>1, <1>2, <1>3, <1>4, <1>5, <1>6, LocalStep
<1> QED
  BY <1>0, <1>1, <1>2, <1>4, <1>7

(* ... and what it holds is the answer.                                    *)
LEMMA ReadDoes ==
  ASSUME MemoryTyped, NEW t \in Threads, Memory!Read(t)
  PROVE  /\ mPc[t] = "read" /\ mPc'[t] = "idle"
         /\ call[t].sweeping /\ call[t].subject \in Subjects
         /\ mAnswer' = DOMAIN Memory!Held(t)
         /\ UNCHANGED <<sessionTo, errors, raced, overlapped>>
         /\ Quiet(t)
<1>1. mPc[t] = "read" /\ "idle" \in Memory!Steps \ {"insert", "remove", "clean"} /\ "read" \in Looking /\ "idle" \notin Looking
  BY DEF Memory!Read, Memory!Steps, Looking
<1>2. /\ mPc' = [mPc EXCEPT ![t] = "idle"] /\ call' = [call EXCEPT ![t] = Memory!NoCall]
      /\ mAnswer' = DOMAIN Memory!Held(t)
      /\ UNCHANGED <<mNow, bySubject, buckets, sessionTo, errors, raced, overlapped>>
  BY DEF Memory!Read, Memory!Return, Memory!Goto, Memory!store, Memory!history
<1>3. call[t].sweeping /\ call[t].subject \in Subjects
  BY <1>1 DEF MemoryTyped, CallTyped, HoldsBucket
<1>4. mPc'[t] = "idle" /\ Quiet(t)
  BY <1>1, <1>2, NoCallTyped, LocalStep
<1> QED
  BY <1>1, <1>2, <1>3, <1>4

LEMMA MemoryTickDoes ==
  ASSUME MemoryTyped, Memory!Tick
  PROVE  /\ UNCHANGED <<bySubject, buckets, sessionTo, mPc, call, mAnswer, errors, raced, overlapped>>
         /\ \A s \in Subjects : Memory!Bucket(s)' = Memory!Bucket(s)
         /\ MemoryTyped'
<1>1. /\ mNow' \in Nat
      /\ UNCHANGED <<bySubject, buckets, sessionTo, mPc, call, mAnswer, errors, raced, overlapped>>
  BY DEF Memory!Tick, Memory!store, Memory!history, MemoryTyped
<1>2. MemoryTyped'
  BY <1>1 DEF MemoryTyped, CallTyped, HoldsBucket
<1> QED
  BY <1>1, <1>2, SameLengths

LEMMA NextMemoryTyped == MemoryTyped /\ [Memory!Next]_Memory!vars => MemoryTyped'
<1>1. ASSUME MemoryTyped, UNCHANGED Memory!vars PROVE MemoryTyped'
  BY <1>1 DEF Memory!vars, MemoryTyped, CallTyped, HoldsBucket
<1> QED
  BY <1>1, RegisterDoes, InsertDoes, DeregisterDoes, RemoveDoes, CleanDoes, SessionsForDoes, IterateDoes,
     ScanDoes, SweepDoes, FetchDoes, ReadDoes, MemoryTickDoes DEF Quiet, Sweeps, Memory!Next

-----------------------------------------------------------------------------
(* The iRule registers a session under the subject that logged it in.      *)
OneSubject == \A sid \in Sids : \A r, s \in SubjectsOf[sid] : r = s

(* A record that lookups find is known to the reverse index, unless the    *)
(* thread that took the entry is about to remove the record.               *)
Removable ==
    \A s \in Subjects : \A sid \in DOMAIN Memory!Bucket(s) :
        /\ s \in SubjectsOf[sid]
        /\ sessionTo[sid] = s \/ (\E u \in Threads : mPc[u] = "remove" /\ call[u].sid = sid)

LEMMA RemovableUntouched ==
  ASSUME Removable, NEW t \in Threads, OnlyCall(t), mPc[t] # "remove", UNCHANGED sessionTo,
         \A s \in Subjects : Memory!Bucket(s)' = Memory!Bucket(s)
  PROVE  Removable'
<1>1. \A u \in Threads : mPc[u] = "remove" => mPc'[u] = "remove" /\ call'[u] = call[u]
  BY DEF OnlyCall
<1> QED
  BY <1>1 DEF Removable

(* An entry of the reverse index is taken, for a thread that removes.      *)
LEMMA RemovableTaken ==
  ASSUME MemoryTyped, Removable, NEW t \in Threads, OnlyCall(t), mPc[t] # "remove", NEW sid \in Sids,
         sessionTo[sid] = NoSubject \/ (mPc'[t] = "remove" /\ call'[t].sid = sid),
         \A x \in Sids \ {sid} : sessionTo'[x] = sessionTo[x],
         \A s \in Subjects : Memory!Bucket(s)' = Memory!Bucket(s)
  PROVE  Removable'
<1>1. \A u \in Threads : mPc[u] = "remove" => mPc'[u] = "remove" /\ call'[u] = call[u]
  BY DEF OnlyCall
<1>2. \A s \in Subjects : DOMAIN Memory!Bucket(s) \subseteq Sids /\ s # NoSubject
  BY BucketTyped, MemoryConstants
<1> QED
  BY <1>1, <1>2 DEF Removable

LEMMA NextRemovable ==
  ASSUME OneSubject, MemoryTyped, Removable, [Memory!Next]_Memory!vars
  PROVE  Removable'
<1>1. ASSUME NEW t \in Threads, NEW sid \in Sids, Memory!Deregister(t, sid) PROVE Removable'
  BY <1>1, DeregisterDoes, RemovableTaken DEF Quiet
<1>2. ASSUME NEW t \in Threads, NEW sid \in Sids, NEW s \in SubjectsOf[sid], Memory!Register(t, sid, s)
      PROVE  Removable'
  BY <1>2, RegisterDoes, RemovableUntouched
<1>3. ASSUME NEW t \in Threads, NEW s \in Subjects, Memory!SessionsFor(t, s) PROVE Removable'
  BY <1>3, SessionsForDoes, RemovableUntouched DEF Quiet
<1>4. ASSUME NEW t \in Threads, Memory!Insert(t) PROVE Removable'
  <2>0. PICK sid, subject, at : sid = call[t].sid /\ subject = call[t].subject /\ at = call[t].at
    OBVIOUS
  <2>1. /\ mPc[t] = "insert" /\ OnlyCall(t) /\ sid \in Sids /\ subject \in SubjectsOf[sid]
        /\ sessionTo'[sid] = subject /\ \A x \in Sids \ {sid} : sessionTo'[x] = sessionTo[x]
        /\ at \in Int
    BY <1>4, <2>0, InsertDoes DEF MemoryTyped
  <2>2. ASSUME NEW s \in Subjects, NEW x \in DOMAIN Memory!Bucket(s)'
        PROVE  x \in Sids /\ (x \in DOMAIN Memory!Bucket(s) \/ (x = sid /\ s = subject))
    <3>1. Memory!Bucket(s) \in Records /\ DOMAIN Memory!Bucket(s) \subseteq Sids
      BY BucketTyped
    <3>2. DOMAIN Memory!Bucket(s)' = DOMAIN Memory!Bucket(s)
          \/ (s = subject /\ DOMAIN Memory!Bucket(s)' = DOMAIN Memory!Put(Memory!Bucket(s), sid, at))
      BY <1>4, <2>0, InsertDoes
    <3>3. DOMAIN Memory!Put(Memory!Bucket(s), sid, at) = DOMAIN Memory!Bucket(s) \cup {sid}
      BY <2>1, <3>1, PutRecords
    <3> QED
      BY <2>1, <3>1, <3>2, <3>3
  <2>3. \A u \in Threads : mPc[u] = "remove" => mPc'[u] = "remove" /\ call'[u] = call[u]
    BY <2>1 DEF OnlyCall
  <2>4. ASSUME NEW s \in Subjects, NEW x \in DOMAIN Memory!Bucket(s)'
        PROVE  /\ s \in SubjectsOf[x]
               /\ sessionTo'[x] = s \/ (\E u \in Threads : mPc'[u] = "remove" /\ call'[u].sid = x)
    <3>1. CASE x = sid
      <4>1. s \in SubjectsOf[x]
        BY <2>1, <2>2, <3>1 DEF Removable
      <4>2. s = subject
        BY <2>1, <3>1, <4>1 DEF OneSubject
      <4> QED
        BY <2>1, <3>1, <4>1, <4>2
    <3>2. CASE x # sid
      BY <2>1, <2>2, <2>3, <3>2 DEF Removable
    <3> QED
      BY <3>1, <3>2
  <2> QED
    BY <2>4 DEF Removable
<1>5. ASSUME NEW t \in Threads, Memory!Remove(t) PROVE Removable'
  <2>0. PICK sid, owner : sid = call[t].sid /\ owner = call[t].owner
    OBVIOUS
  <2>d. Drops(t, sid, owner)
    BY <1>5, <2>0, RemoveDoes
  <2>1. /\ OnlyCall(t) /\ sid \in Sids /\ owner \in SubjectsOf[sid] /\ UNCHANGED sessionTo
        /\ \A s \in Subjects : DOMAIN Memory!Bucket(s)' = IF s = owner THEN DOMAIN Memory!Bucket(s) \ {sid} ELSE DOMAIN Memory!Bucket(s)
    BY <2>d DEF Drops
  <2>2. ASSUME NEW s \in Subjects, NEW x \in DOMAIN Memory!Bucket(s)'
        PROVE  /\ s \in SubjectsOf[x]
               /\ sessionTo'[x] = s \/ (\E u \in Threads : mPc'[u] = "remove" /\ call'[u].sid = x)
    <3>1. x \in DOMAIN Memory!Bucket(s) /\ ~(x = sid /\ s = owner)
      BY <2>1, <2>2
    <3>2. s \in SubjectsOf[x] /\ x \in Sids
      BY <3>1, BucketTyped DEF Removable
    <3>3. x # sid
      BY <2>1, <3>1, <3>2 DEF OneSubject
    <3> QED
      BY <2>0, <2>1, <3>1, <3>2, <3>3 DEF Removable, OnlyCall
  <2> QED
    BY <2>2 DEF Removable
<1>6. ASSUME NEW t \in Threads, Memory!Clean(t) PROVE Removable'
  BY <1>6, CleanDoes, RemovableUntouched
<1>7. ASSUME NEW t \in Threads, Memory!Iterate(t) PROVE Removable'
  BY <1>7, IterateDoes, RemovableUntouched DEF Quiet
<1>8. ASSUME NEW t \in Threads, Memory!Scan(t) PROVE Removable'
  BY <1>8, ScanDoes, RemovableUntouched DEF Quiet
<1>9. ASSUME NEW t \in Threads, Memory!Sweep(t) PROVE Removable'
  <2>0. PICK sid \in Sids : Sweeps(t, sid)
    BY <1>9, SweepDoes
  <2>1. /\ mPc[t] = "sweep" /\ call[t] \in Calls
        /\ mPc'[t] = IF sessionTo[sid] = NoSubject THEN "sweep" ELSE "remove"
        /\ call'[t] = [call[t] EXCEPT !.expired = @ \ {sid}, !.sid = sid, !.owner = sessionTo[sid]]
        /\ \A x \in Sids \ {sid} : sessionTo'[x] = sessionTo[x]
        /\ Quiet(t)
    BY <2>0 DEF Sweeps
  <2>2. call'[t].sid = sid
    BY <2>1 DEF Calls
  <2> QED
    BY <2>1, <2>2, RemovableTaken DEF Quiet
<1>10. ASSUME NEW t \in Threads, Memory!Fetch(t) PROVE Removable'
  BY <1>10, FetchDoes, RemovableUntouched DEF Quiet
<1>11. ASSUME NEW t \in Threads, Memory!Read(t) PROVE Removable'
  BY <1>11, ReadDoes, RemovableUntouched DEF Quiet
<1>12. CASE Memory!Tick
  BY <1>12, MemoryTickDoes DEF Removable
<1>13. CASE UNCHANGED Memory!vars
  BY <1>13 DEF Memory!vars, Removable, Memory!Bucket
<1> QED
  BY <1>1, <1>2, <1>3, <1>4, <1>5, <1>6, <1>7, <1>8, <1>9, <1>10, <1>11, <1>12, <1>13 DEF Memory!Next

(* As long as none of the three orders has occurred: the reverse index    *)
(* leads to records, the entry that a removing thread took stays away, and *)
(* a registering thread holds the bucket that lookups read.                *)
Unraced ==
    ~raced => /\ \A sid \in Sids, s \in Subjects : sessionTo[sid] = s => sid \in DOMAIN Memory!Bucket(s)
              /\ \A u \in Threads : mPc[u] = "remove" => sessionTo[call[u].sid] = NoSubject
              /\ \A u \in Threads : mPc[u] = "insert" => bySubject[call[u].subject] = call[u].bucket

LEMMA UnracedUntouched ==
  ASSUME MemoryTyped, Unraced, NEW t \in Threads, OnlyCall(t), mPc'[t] \notin {"remove", "insert"}, UNCHANGED raced,
         \A x \in Sids : sessionTo'[x] \in {NoSubject, sessionTo[x]},
         \A s \in Subjects : Memory!Bucket(s)' = Memory!Bucket(s),
         UNCHANGED bySubject
  PROVE  Unraced'
<1>1. SUFFICES ASSUME ~raced PROVE Unraced'
  BY DEF Unraced
<1>2. /\ \A x \in Sids, s \in Subjects : sessionTo[x] = s => x \in DOMAIN Memory!Bucket(s)
      /\ \A u \in Threads : mPc[u] = "remove" => sessionTo[call[u].sid] = NoSubject
      /\ \A u \in Threads : mPc[u] = "insert" => bySubject[call[u].subject] = call[u].bucket
  BY <1>1 DEF Unraced
<1>3. \A u \in Threads : mPc[u] = "remove" => call[u].sid \in Sids
  BY DEF MemoryTyped, CallTyped
<1>4. \A x \in Sids, s \in Subjects : sessionTo'[x] = s => x \in DOMAIN Memory!Bucket(s)'
  BY <1>2, MemoryConstants
<1>5. \A u \in Threads : mPc'[u] \in {"remove", "insert"} => mPc'[u] = mPc[u] /\ call'[u] = call[u]
  BY DEF OnlyCall
<1> QED
  BY <1>2, <1>3, <1>4, <1>5 DEF Unraced

LEMMA NextUnraced == ASSUME MemoryTyped, Unraced, [Memory!Next]_Memory!vars PROVE Unraced'
<1>0. /\ \A u \in Threads : mPc[u] = "remove" => call[u].sid \in Sids
      /\ \A u \in Threads : mPc[u] = "insert" => /\ call[u].subject \in Subjects
                                                /\ call[u].bucket # 0
  BY MemoryConstants DEF MemoryTyped, CallTyped
<1>1. ASSUME NEW t \in Threads, NEW sid \in Sids, Memory!Deregister(t, sid) PROVE Unraced'
  <2>1. /\ OnlyCall(t) /\ mPc'[t] = "remove" /\ call'[t].sid = sid /\ sessionTo'[sid] = NoSubject
        /\ \A x \in Sids \ {sid} : sessionTo'[x] = sessionTo[x]
        /\ UNCHANGED <<raced, bySubject>>
        /\ \A s \in Subjects : Memory!Bucket(s)' = Memory!Bucket(s)
    BY <1>1, DeregisterDoes DEF Quiet
  <2>2. SUFFICES ASSUME ~raced PROVE Unraced'
    BY <2>1 DEF Unraced
  <2>3. /\ \A x \in Sids, s \in Subjects : sessionTo[x] = s => x \in DOMAIN Memory!Bucket(s)
        /\ \A u \in Threads : mPc[u] = "remove" => sessionTo[call[u].sid] = NoSubject
        /\ \A u \in Threads : mPc[u] = "insert" => bySubject[call[u].subject] = call[u].bucket
    BY <2>2 DEF Unraced
  <2>4. \A x \in Sids, s \in Subjects : sessionTo'[x] = s => x \in DOMAIN Memory!Bucket(s)'
    BY <2>1, <2>3, MemoryConstants
  <2>5. ASSUME NEW u \in Threads, mPc'[u] = "remove" PROVE sessionTo'[call'[u].sid] = NoSubject
    BY <1>0, <2>1, <2>3, <2>5 DEF OnlyCall
  <2>6. ASSUME NEW u \in Threads, mPc'[u] = "insert" PROVE bySubject'[call'[u].subject] = call'[u].bucket
    BY <2>1, <2>3, <2>6 DEF OnlyCall
  <2> QED
    BY <2>4, <2>5, <2>6 DEF Unraced
<1>2. ASSUME NEW t \in Threads, NEW sid \in Sids, NEW s \in SubjectsOf[sid], Memory!Register(t, sid, s)
      PROVE  Unraced'
  <2>1. /\ OnlyCall(t) /\ mPc'[t] = "insert" /\ call'[t].subject = s /\ call'[t].bucket = bySubject'[s]
        /\ \A r \in Subjects : bySubject[r] # 0 => bySubject'[r] = bySubject[r]
        /\ \A r \in Subjects : Memory!Bucket(r)' = Memory!Bucket(r)
        /\ UNCHANGED <<sessionTo, raced>>
    BY <1>2, RegisterDoes
  <2>2. SUFFICES ASSUME ~raced PROVE Unraced'
    BY <2>1 DEF Unraced
  <2>3. /\ \A x \in Sids, r \in Subjects : sessionTo[x] = r => x \in DOMAIN Memory!Bucket(r)
        /\ \A u \in Threads : mPc[u] = "remove" => sessionTo[call[u].sid] = NoSubject
        /\ \A u \in Threads : mPc[u] = "insert" => bySubject[call[u].subject] = call[u].bucket
    BY <2>2 DEF Unraced
  <2>4. ASSUME NEW u \in Threads, mPc'[u] = "insert" PROVE bySubject'[call'[u].subject] = call'[u].bucket
    BY <1>0, <2>1, <2>3, <2>4 DEF OnlyCall
  <2>5. ASSUME NEW u \in Threads, mPc'[u] = "remove" PROVE sessionTo'[call'[u].sid] = NoSubject
    BY <2>1, <2>3, <2>5 DEF OnlyCall
  <2> QED
    BY <2>1, <2>3, <2>4, <2>5 DEF Unraced
<1>3. ASSUME NEW t \in Threads, NEW s \in Subjects, Memory!SessionsFor(t, s) PROVE Unraced'
  BY <1>3, SessionsForDoes, UnracedUntouched DEF Quiet
<1>4. ASSUME NEW t \in Threads, Memory!Insert(t) PROVE Unraced'
  <2>0. PICK sid, subject, at : sid = call[t].sid /\ subject = call[t].subject /\ at = call[t].at
    OBVIOUS
  <2>1. /\ mPc[t] = "insert" /\ mPc'[t] = "idle" /\ OnlyCall(t) /\ sid \in Sids /\ subject \in Subjects
        /\ sessionTo'[sid] = subject /\ \A x \in Sids \ {sid} : sessionTo'[x] = sessionTo[x]
        /\ UNCHANGED bySubject /\ at \in Int
    BY <1>4, <2>0, InsertDoes DEF MemoryTyped
  <2>r. raced' = (raced \/ Memory!Doomed(sid))
    BY <1>4, <2>0 DEF Memory!Insert
  <2>2. SUFFICES ASSUME ~raced' PROVE Unraced'
    BY DEF Unraced
  <2>3. ~raced /\ \A u \in Threads : mPc[u] = "remove" => call[u].sid # sid
    BY <2>r, <2>2, Zenon DEF Memory!Doomed
  <2>4. /\ \A x \in Sids, s \in Subjects : sessionTo[x] = s => x \in DOMAIN Memory!Bucket(s)
        /\ \A u \in Threads : mPc[u] = "remove" => sessionTo[call[u].sid] = NoSubject
        /\ \A u \in Threads : mPc[u] = "insert" => bySubject[call[u].subject] = call[u].bucket
    BY <2>3 DEF Unraced
  <2>5. ASSUME NEW s \in Subjects
        PROVE  /\ DOMAIN Memory!Bucket(s) \subseteq DOMAIN Memory!Bucket(s)'
               /\ s = subject => sid \in DOMAIN Memory!Bucket(s)'
    <3>1. Memory!Bucket(s) \in Records
      BY BucketTyped
    <3>2. Memory!Bucket(s)' = IF s = subject THEN Memory!Put(Memory!Bucket(s), sid, at) ELSE Memory!Bucket(s)
      BY <1>4, <2>0, <2>1, <2>4, InsertDoes
    <3>3. DOMAIN Memory!Put(Memory!Bucket(s), sid, at) = DOMAIN Memory!Bucket(s) \cup {sid}
      BY <2>1, <3>1, PutRecords
    <3> QED
      BY <3>2, <3>3
  <2>6. ASSUME NEW x \in Sids, NEW s \in Subjects, sessionTo'[x] = s PROVE x \in DOMAIN Memory!Bucket(s)'
    BY <2>1, <2>4, <2>5, <2>6
  <2>7. ASSUME NEW u \in Threads, mPc'[u] = "remove" PROVE sessionTo'[call'[u].sid] = NoSubject
    BY <1>0, <2>1, <2>3, <2>4, <2>7 DEF OnlyCall
  <2>8. ASSUME NEW u \in Threads, mPc'[u] = "insert" PROVE bySubject'[call'[u].subject] = call'[u].bucket
    BY <2>1, <2>4, <2>8 DEF OnlyCall
  <2> QED
    BY <2>6, <2>7, <2>8 DEF Unraced
<1>5. ASSUME NEW t \in Threads, Memory!Remove(t) PROVE Unraced'
  <2>0. PICK sid, owner : sid = call[t].sid /\ owner = call[t].owner
    OBVIOUS
  <2>d. Drops(t, sid, owner)
    BY <1>5, <2>0, RemoveDoes
  <2>1. /\ mPc[t] = "remove" /\ OnlyCall(t) /\ sid \in Sids /\ UNCHANGED <<sessionTo, bySubject>>
        /\ \A s \in Subjects : DOMAIN Memory!Bucket(s)' = IF s = owner THEN DOMAIN Memory!Bucket(s) \ {sid} ELSE DOMAIN Memory!Bucket(s)
    BY <2>d DEF Drops
  <2>p. mPc'[t] \notin {"remove", "insert"}
    BY <1>5, RemoveDoes
  <2>r. UNCHANGED raced
    BY <1>5, RemoveDoes
  <2>2. SUFFICES ASSUME ~raced PROVE Unraced'
    BY <2>r DEF Unraced
  <2>3. /\ \A x \in Sids, s \in Subjects : sessionTo[x] = s => x \in DOMAIN Memory!Bucket(s)
        /\ \A u \in Threads : mPc[u] = "remove" => sessionTo[call[u].sid] = NoSubject
        /\ \A u \in Threads : mPc[u] = "insert" => bySubject[call[u].subject] = call[u].bucket
    BY <2>2 DEF Unraced
  <2>4. ASSUME NEW x \in Sids, NEW s \in Subjects, sessionTo'[x] = s PROVE x \in DOMAIN Memory!Bucket(s)'
    <3>1. x # sid
      BY <2>0, <2>1, <2>3, <2>4, MemoryConstants
    <3> QED
      BY <2>1, <2>3, <2>4, <3>1
  <2>5. \A u \in Threads : mPc'[u] \in {"remove", "insert"} => mPc'[u] = mPc[u] /\ call'[u] = call[u]
    BY <2>1, <2>p DEF OnlyCall
  <2> QED
    BY <2>1, <2>3, <2>4, <2>5 DEF Unraced
<1>6. ASSUME NEW t \in Threads, Memory!Clean(t) PROVE Unraced'
  <2>1. /\ mPc'[t] \notin {"remove", "insert"} /\ OnlyCall(t) /\ UNCHANGED sessionTo
        /\ \A s \in Subjects : Memory!Bucket(s)' = Memory!Bucket(s)
        /\ raced => raced'
    BY <1>6, CleanDoes
  <2>2. SUFFICES ASSUME ~raced' PROVE Unraced'
    BY DEF Unraced
  <2>3. ~raced
    BY <2>1, <2>2
  <2>4. /\ \A x \in Sids, s \in Subjects : sessionTo[x] = s => x \in DOMAIN Memory!Bucket(s)
        /\ \A u \in Threads : mPc[u] = "remove" => sessionTo[call[u].sid] = NoSubject
        /\ \A u \in Threads : mPc[u] = "insert" => bySubject[call[u].subject] = call[u].bucket
    BY <2>3 DEF Unraced
  <2>5. \A u \in Threads : mPc'[u] \in {"remove", "insert"} => mPc'[u] = mPc[u] /\ call'[u] = call[u]
    BY <2>1 DEF OnlyCall
  <2>6. ASSUME NEW u \in Threads, mPc'[u] = "insert" PROVE bySubject'[call'[u].subject] = call'[u].bucket
    <3>1. PICK s \in Subjects : s = call[u].subject /\ call'[u] = call[u] /\ mPc[u] = "insert"
      BY <1>0, <2>5, <2>6
    <3>2. \/ bySubject'[s] = bySubject[s]
          \/ raced' = (raced \/ \E v \in Threads : mPc[v] = "insert" /\ call[v].subject = s)
      BY <1>6, CleanDoes
    <3>3. bySubject'[s] = bySubject[s]
      BY <2>2, <3>1, <3>2, Zenon
    <3> QED
      BY <2>4, <3>1, <3>3
  <2> QED
    BY <2>1, <2>4, <2>5, <2>6 DEF Unraced
<1>7. ASSUME NEW t \in Threads, Memory!Iterate(t) PROVE Unraced'
  BY <1>7, IterateDoes, UnracedUntouched DEF Quiet
<1>8. ASSUME NEW t \in Threads, Memory!Scan(t) PROVE Unraced'
  BY <1>8, ScanDoes, UnracedUntouched DEF Quiet
<1>9. ASSUME NEW t \in Threads, Memory!Sweep(t) PROVE Unraced'
  <2>0. PICK sid \in Sids : Sweeps(t, sid)
    BY <1>9, SweepDoes
  <2>1. /\ call[t] \in Calls /\ mPc'[t] \in {"sweep", "remove"}
        /\ call'[t] = [call[t] EXCEPT !.expired = @ \ {sid}, !.sid = sid, !.owner = sessionTo[sid]]
        /\ sessionTo'[sid] = NoSubject
        /\ \A x \in Sids \ {sid} : sessionTo'[x] = sessionTo[x]
        /\ UNCHANGED raced
        /\ Quiet(t)
    BY <2>0 DEF Sweeps
  <2>2. /\ call'[t].sid = sid /\ OnlyCall(t) /\ UNCHANGED bySubject
        /\ \A s \in Subjects : Memory!Bucket(s)' = Memory!Bucket(s)
    BY <2>1 DEF Calls, Quiet
  <2>3. SUFFICES ASSUME ~raced PROVE Unraced'
    BY <2>1 DEF Unraced
  <2>4. /\ \A x \in Sids, s \in Subjects : sessionTo[x] = s => x \in DOMAIN Memory!Bucket(s)
        /\ \A u \in Threads : mPc[u] = "remove" => sessionTo[call[u].sid] = NoSubject
        /\ \A u \in Threads : mPc[u] = "insert" => bySubject[call[u].subject] = call[u].bucket
    BY <2>3 DEF Unraced
  <2>5. \A x \in Sids, s \in Subjects : sessionTo'[x] = s => x \in DOMAIN Memory!Bucket(s)'
    BY <2>1, <2>2, <2>4, MemoryConstants
  <2>6. ASSUME NEW u \in Threads, mPc'[u] = "remove" PROVE sessionTo'[call'[u].sid] = NoSubject
    <3>1. CASE u = t
      BY <2>1, <2>2, <3>1
    <3>2. CASE u # t
      BY <1>0, <2>1, <2>2, <2>4, <2>6, <3>2 DEF OnlyCall
    <3> QED
      BY <3>1, <3>2
  <2>7. ASSUME NEW u \in Threads, mPc'[u] = "insert" PROVE bySubject'[call'[u].subject] = call'[u].bucket
    BY <2>1, <2>2, <2>4, <2>7 DEF OnlyCall
  <2> QED
    BY <2>5, <2>6, <2>7 DEF Unraced
<1>10. ASSUME NEW t \in Threads, Memory!Fetch(t) PROVE Unraced'
  BY <1>10, FetchDoes, UnracedUntouched DEF Quiet
<1>11. ASSUME NEW t \in Threads, Memory!Read(t) PROVE Unraced'
  BY <1>11, ReadDoes, UnracedUntouched DEF Quiet
<1>12. CASE Memory!Tick
  BY <1>12, MemoryTickDoes DEF Unraced
<1>13. CASE UNCHANGED Memory!vars
  BY <1>13 DEF Memory!vars, Unraced, Memory!Bucket
<1> QED
  BY <1>1, <1>2, <1>3, <1>4, <1>5, <1>6, <1>7, <1>8, <1>9, <1>10, <1>11, <1>12, <1>13 DEF Memory!Next

-----------------------------------------------------------------------------
(* What was promised, the date of a record under way and the cutoff of a   *)
(* sweep are never ahead of the clock.                                     *)
CallDated(t) ==
    /\ call[t].at \in 0 .. mNow
    /\ call[t].sweeping => call[t].cutoff <= mNow - MemoryTtl

Promised == promised \in [Sids -> -1 .. mNow] /\ \A t \in Threads : CallDated(t)

(* What a step makes of the dates of its call.                             *)
Carries(t) ==
    /\ call'[t].at \in {0, mNow, call[t].at}
    /\ call'[t].sweeping => \/ call'[t].cutoff = mNow - MemoryTtl
                            \/ call[t].sweeping /\ call'[t].cutoff = call[t].cutoff

(* The steps after which another thread's call is where it was.            *)
Locals(t) ==
    \/ Memory!Remove(t) \/ Memory!Clean(t) \/ Memory!Iterate(t) \/ Memory!Sweep(t)
    \/ Memory!Fetch(t) \/ Memory!Read(t)

LEMMA NoCallAt == /\ Memory!NoCall \in Calls /\ Memory!NoCall.at = 0 /\ Memory!NoCall.expired = {}
                  /\ Memory!NoCall.sweeping = FALSE
  BY NoCallTyped DEF Memory!NoCall

(* None of them promises anything, dates anything or adds to its list.     *)
LEMMA LocalsCarry ==
  ASSUME MemoryTyped, NEW t \in Threads, Locals(t)
  PROVE  /\ Carries(t) /\ OnlyCall(t) /\ UNCHANGED <<promised, mNow>>
         /\ call'[t].expired \subseteq call[t].expired
<1>1. call \in [Threads -> Calls] /\ call[t] \in Calls
  BY DEF MemoryTyped
<1>2. OnlyCall(t)
  BY RemoveDoes, CleanDoes, IterateDoes, SweepDoes, FetchDoes, ReadDoes DEF Locals, Quiet, Sweeps
<1>3. UNCHANGED <<promised, mNow>>
  BY DEF Locals, Memory!Remove, Memory!Clean, Memory!Iterate, Memory!Sweep, Memory!Fetch, Memory!Read,
         Memory!TakeReverse, Memory!history
<1>4. CASE call'[t] = Memory!NoCall
  BY <1>2, <1>3, <1>4, NoCallAt DEF Carries
<1>5. CASE call'[t] = call[t]
  BY <1>2, <1>3, <1>5 DEF Carries
<1>6. CASE Memory!Remove(t) \/ Memory!Clean(t)
  <2>1. call'[t] \in {call[t], Memory!NoCall}
    BY <1>1, <1>6 DEF Memory!Remove, Memory!Clean, Memory!Deregistered, Memory!Raise, Memory!Return
  <2> QED
    BY <1>4, <1>5, <2>1
<1>7. CASE Memory!Iterate(t)
  <2>1. call'[t] = [call[t] EXCEPT !.size = Memory!Cardinality(DOMAIN Memory!Held(t))]
    BY <1>7, IterateDoes
  <2>2. /\ call'[t].at = call[t].at /\ call'[t].sweeping = call[t].sweeping
        /\ call'[t].cutoff = call[t].cutoff /\ call'[t].expired = call[t].expired
    BY <1>1, <2>1 DEF Calls
  <2> QED
    BY <1>2, <1>3, <2>2 DEF Carries
<1>8. CASE Memory!Sweep(t)
  <2>1. PICK sid \in Sids : Sweeps(t, sid)
    BY <1>8, SweepDoes
  <2>2. call'[t] = [call[t] EXCEPT !.expired = @ \ {sid}, !.sid = sid, !.owner = sessionTo[sid]]
    BY <2>1 DEF Sweeps
  <2>3. /\ call'[t].at = call[t].at /\ call'[t].sweeping = call[t].sweeping
        /\ call'[t].cutoff = call[t].cutoff /\ call'[t].expired = call[t].expired \ {sid}
    BY <1>1, <2>2 DEF Calls
  <2> QED
    BY <1>2, <1>3, <2>3 DEF Carries
<1>9. CASE Memory!Fetch(t)
  <2>1. call'[t] = [call[t] EXCEPT !.bucket = bySubject[call[t].subject]]
    BY <1>9, FetchDoes
  <2>2. /\ call'[t].at = call[t].at /\ call'[t].sweeping = call[t].sweeping
        /\ call'[t].cutoff = call[t].cutoff /\ call'[t].expired = call[t].expired
    BY <1>1, <2>1 DEF Calls
  <2> QED
    BY <1>2, <1>3, <2>2 DEF Carries
<1>10. CASE Memory!Read(t)
  <2>1. call'[t] = Memory!NoCall
    BY <1>1, <1>10 DEF Memory!Read, Memory!Return
  <2> QED
    BY <1>4, <2>1
<1> QED
  BY <1>6, <1>7, <1>8, <1>9, <1>10 DEF Locals

(* A call that begins, and what register and deregister promise.           *)
LEMMA BeginsCarry ==
  ASSUME MemoryTyped, NEW t \in Threads, NEW sid \in Sids, NEW s \in Subjects,
         Memory!Deregister(t, sid) \/ Memory!Register(t, sid, s)
  PROVE  /\ Carries(t) /\ UNCHANGED mNow /\ call'[t].expired = {}
         /\ \A u \in Threads \ {t} : call'[u] = call[u]
         /\ promised' = IF Memory!Deregister(t, sid) THEN [promised EXCEPT ![sid] = -1] ELSE promised
<1>1. call \in [Threads -> Calls] /\ mNow \in Nat /\ MemoryTtl \in Nat
  BY MemoryConstants DEF MemoryTyped
<1>2. CASE Memory!Deregister(t, sid)
  <2>1. /\ UNCHANGED mNow /\ promised' = [promised EXCEPT ![sid] = -1]
        /\ call' = [call EXCEPT ![t] = [Memory!NoCall EXCEPT !.sid = sid, !.owner = sessionTo[sid]]]
    BY <1>2 DEF Memory!Deregister, Memory!TakeReverse
  <2>2. call'[t].at = 0 /\ call'[t].expired = {} /\ ~call'[t].sweeping
    BY <1>1, <2>1, NoCallAt DEF Calls
  <2> QED
    BY <1>1, <1>2, <2>1, <2>2 DEF Carries
<1>3. CASE Memory!Register(t, sid, s)
  <2> DEFINE bucket == IF bySubject[s] = 0 THEN Len(buckets[s]) + 1 ELSE bySubject[s]
  <2>1. /\ UNCHANGED <<mNow, promised>> /\ mPc' = [mPc EXCEPT ![t] = "insert"]
        /\ call' = [call EXCEPT ![t] = [Memory!NoCall EXCEPT !.sid = sid, !.subject = s, !.at = mNow, !.bucket = bucket]]
    BY <1>3 DEF Memory!Register, Memory!Begin, Memory!Goto
  <2> HIDE DEF bucket
  <2>2. call'[t].at = mNow /\ call'[t].expired = {} /\ ~call'[t].sweeping
    BY <1>1, <2>1, NoCallAt DEF Calls
  <2>3. ~Memory!Deregister(t, sid)
    BY <2>1 DEF Memory!Deregister, Memory!Begin, Memory!Goto, MemoryTyped
  <2> QED
    BY <1>1, <2>1, <2>2, <2>3 DEF Carries
<1> QED
  BY <1>2, <1>3

LEMMA SessionsForCarries ==
  ASSUME MemoryTyped, NEW t \in Threads, NEW s \in Subjects, Memory!SessionsFor(t, s)
  PROVE  /\ Carries(t) /\ UNCHANGED <<mNow, promised>> /\ call'[t].expired = {}
         /\ \A u \in Threads \ {t} : call'[u] = call[u]
<1>0. PICK cutoff : cutoff = mNow - MemoryTtl
  OBVIOUS
<1>1. call \in [Threads -> Calls] /\ mNow \in Nat /\ MemoryTtl \in Nat
  BY MemoryConstants DEF MemoryTyped
<1>2. /\ UNCHANGED <<mNow, promised>>
      /\ call' = [call EXCEPT ![t] = [Memory!NoCall EXCEPT !.subject = s, !.bucket = bySubject[s],
                                                           !.cutoff = cutoff, !.sweeping = TRUE]]
  BY <1>0 DEF Memory!SessionsFor
<1>3. call'[t].at = 0 /\ call'[t].expired = {} /\ call'[t].cutoff = cutoff
  BY <1>1, <1>2, NoCallAt DEF Calls
<1> QED
  BY <1>0, <1>1, <1>2, <1>3 DEF Carries

LEMMA InsertCarries ==
  ASSUME MemoryTyped, NEW t \in Threads, Memory!Insert(t)
  PROVE  /\ call'[t] = Memory!NoCall /\ Carries(t) /\ UNCHANGED mNow
         /\ promised' = [promised EXCEPT ![call[t].sid] = call[t].at]
<1>1. call' = [call EXCEPT ![t] = Memory!NoCall] /\ call \in [Threads -> Calls]
  BY DEF Memory!Insert, Memory!Return, MemoryTyped
<1> QED
  BY <1>1, NoCallAt DEF Memory!Insert, Carries

LEMMA ScanCarries ==
  ASSUME MemoryTyped, NEW t \in Threads, Memory!Scan(t)
  PROVE  /\ Carries(t) /\ OnlyCall(t) /\ UNCHANGED <<mNow, promised>>
         /\ call'[t].expired \in {{}, Memory!Expired(Memory!Held(t), call[t].cutoff)}
<1>0. PICK expired : expired = Memory!Expired(Memory!Held(t), call[t].cutoff)
  OBVIOUS
<1>1. call \in [Threads -> Calls] /\ OnlyCall(t) /\ UNCHANGED <<mNow, promised>>
  BY ScanDoes DEF Memory!Scan, Memory!history, Quiet, MemoryTyped
<1>2. call'[t] = [call[t] EXCEPT !.expired = expired] \/ call'[t] = Memory!NoCall
  BY <1>0, <1>1 DEF Memory!Scan, Memory!Raise, Memory!Return
<1>3. CASE call'[t] = [call[t] EXCEPT !.expired = expired]
  BY <1>0, <1>1, <1>3 DEF Carries, Calls
<1>4. CASE call'[t] = Memory!NoCall
  BY <1>1, <1>4, NoCallAt DEF Carries
<1> QED
  BY <1>2, <1>3, <1>4

LEMMA NextPromised ==
  ASSUME MemoryTyped, Promised, [Memory!Next]_Memory!vars
  PROVE  Promised'
<1>0. /\ mNow \in Nat /\ MemoryTtl \in Nat /\ call \in [Threads -> Calls]
      /\ \A t \in Threads : call[t].at \in Int /\ call[t].cutoff \in Int
  BY MemoryConstants DEF MemoryTyped, Calls
<1>1. ASSUME NEW t \in Threads, Carries(t), UNCHANGED mNow,
             \A u \in Threads \ {t} : call'[u] = call[u], promised' \in [Sids -> -1 .. mNow]
      PROVE  Promised'
  <2>1. ASSUME NEW u \in Threads PROVE CallDated(u)'
    <3>1. CASE u = t
      <4>1. CallDated(t)
        BY DEF Promised
      <4> QED
        BY <1>0, <1>1, <3>1, <4>1 DEF CallDated, Carries
    <3>2. CASE u # t
      BY <1>1, <3>2 DEF Promised, CallDated
    <3> QED
      BY <3>1, <3>2
  <2> QED
    BY <1>1, <2>1 DEF Promised
<1>2. ASSUME NEW t \in Threads, NEW sid \in Sids, NEW s \in Subjects,
             Memory!Deregister(t, sid) \/ Memory!Register(t, sid, s)
      PROVE  Promised'
  <2>1. promised' \in [Sids -> -1 .. mNow]
    <3>1. promised' \in {promised, [promised EXCEPT ![sid] = -1]}
      BY <1>2, BeginsCarry
    <3> QED
      BY <1>0, <3>1 DEF Promised
  <2> QED
    BY <1>1, <1>2, <2>1, BeginsCarry
<1>3. ASSUME NEW t \in Threads, Memory!Insert(t) PROVE Promised'
  <2>1. /\ promised' = [promised EXCEPT ![call[t].sid] = call[t].at] /\ Carries(t) /\ UNCHANGED mNow
        /\ \A u \in Threads \ {t} : call'[u] = call[u]
    BY <1>3, InsertCarries, InsertDoes DEF OnlyCall
  <2>2. promised' \in [Sids -> -1 .. mNow]
    <3>1. call[t].at \in -1 .. mNow
      BY <1>0 DEF Promised, CallDated
    <3>2. promised \in [Sids -> -1 .. mNow]
      BY DEF Promised
    <3> QED
      BY <2>1, <3>1, <3>2
  <2> QED
    BY <1>1, <2>1, <2>2
<1>4. ASSUME NEW t \in Threads, Locals(t) \/ Memory!Scan(t) PROVE Promised'
  <2>1. /\ Carries(t) /\ UNCHANGED <<mNow, promised>> /\ \A u \in Threads \ {t} : call'[u] = call[u]
    BY <1>4, LocalsCarry, ScanCarries DEF OnlyCall
  <2> QED
    BY <1>1, <2>1 DEF Promised
<1>5. CASE Memory!Tick
  <2>1. mNow' = mNow + 1 /\ UNCHANGED <<call, promised>>
    BY <1>5 DEF Memory!Tick, Memory!history
  <2>2. \A t \in Threads : CallDated(t)'
    BY <1>0, <2>1 DEF Promised, CallDated
  <2> QED
    BY <1>0, <2>1, <2>2 DEF Promised
<1>6. CASE UNCHANGED Memory!vars
  BY <1>6 DEF Memory!vars, Promised, CallDated
<1> QED
  <2>1. ASSUME Memory!Next PROVE Promised'
    <3>1. ASSUME NEW t \in Threads, Memory!Remove(t) \/ Memory!Clean(t) PROVE Promised'
      BY <1>4, <3>1 DEF Locals
    <3>2. ASSUME NEW t \in Threads, Memory!Iterate(t) \/ Memory!Scan(t) \/ Memory!Sweep(t) \/ Memory!Fetch(t) \/ Memory!Read(t)
          PROVE  Promised'
      BY <1>4, <3>2 DEF Locals
    <3>3. ASSUME NEW t \in Threads, NEW sid \in Sids, Memory!Deregister(t, sid) PROVE Promised'
      <4>1. PICK s \in Subjects : s = sessionTo[sid]
        BY <3>3 DEF Memory!Deregister, MemoryTyped
      <4> QED
        BY <1>2, <3>3
    <3>4. ASSUME NEW t \in Threads, NEW sid \in Sids, NEW s \in SubjectsOf[sid], Memory!Register(t, sid, s)
          PROVE  Promised'
      BY <1>2, <3>4, MemoryConstants
    <3>5. ASSUME NEW t \in Threads, NEW s \in Subjects, Memory!SessionsFor(t, s) PROVE Promised'
      <4>1. /\ UNCHANGED <<mNow, promised>> /\ Carries(t) /\ \A u \in Threads \ {t} : call'[u] = call[u]
        BY <3>5, SessionsForCarries
      <4> QED
        BY <1>1, <4>1 DEF Promised
    <3> QED
      BY <2>1, <1>3, <1>5, <3>1, <3>2, <3>3, <3>4, <3>5 DEF Memory!Next
  <2> QED
    BY <1>6, <2>1

(* A bucket that _by_subject has no longer is empty, until an order that   *)
(* raced records.                                                          *)
LostEmpty ==
    ~raced => \A s \in Subjects : \A i \in 1 .. Len(buckets[s]) :
                 i # bySubject[s] => DOMAIN buckets[s][i] = {}

LEMMA LostEmptyReplaced ==
  ASSUME MemoryTyped, LostEmpty, ~raced, NEW s \in Subjects, NEW b, Replaces(s, bySubject[s], b), UNCHANGED bySubject
  PROVE  LostEmpty'
<1> DEFINE seq == [buckets[s] EXCEPT ![bySubject[s]] = b]
<1>1. buckets \in [Subjects -> Seq(Records)]
  BY DEF MemoryTyped
<1>2. buckets[s] \in Seq(Records) /\ buckets' = [buckets EXCEPT ![s] = seq]
  BY <1>1 DEF Replaces
<1>3. Len(buckets[s]) \in Nat /\ DOMAIN buckets[s] = 1 .. Len(buckets[s])
  BY <1>2, LenProperties
<1>4. /\ DOMAIN seq = DOMAIN buckets[s]
      /\ \A i \in DOMAIN buckets[s] : i # bySubject[s] => seq[i] = buckets[s][i]
  OBVIOUS
<1>5. Len(seq) = Len(buckets[s])
  BY <1>3, <1>4
<1> HIDE DEF seq
<1>6. buckets'[s] = seq /\ \A r \in Subjects \ {s} : buckets'[r] = buckets[r]
  BY <1>1, <1>2
<1>7. ASSUME NEW r \in Subjects, NEW i \in 1 .. Len(buckets'[r]), i # bySubject'[r]
      PROVE  DOMAIN buckets'[r][i] = {}
  <2>1. i \in 1 .. Len(buckets[r]) /\ i # bySubject[r] /\ buckets'[r][i] = buckets[r][i]
    <3>1. CASE r = s
      BY <1>3, <1>4, <1>5, <1>6, <1>7, <3>1
    <3>2. CASE r # s
      BY <1>6, <1>7, <3>2
    <3> QED
      BY <3>1, <3>2
  <2> QED
    BY <2>1 DEF LostEmpty
<1> QED
  BY <1>7 DEF LostEmpty

LEMMA NextLostEmpty ==
  ASSUME MemoryTyped, Unraced, LostEmpty, [Memory!Next]_Memory!vars
  PROVE  LostEmpty'
<1>1. ASSUME UNCHANGED <<buckets, bySubject, raced>> PROVE LostEmpty'
  BY <1>1 DEF LostEmpty
<1>2. ASSUME NEW t \in Threads, NEW sid \in Sids, NEW s \in SubjectsOf[sid], Memory!Register(t, sid, s)
      PROVE  LostEmpty'
  <2>1. s \in Subjects /\ buckets \in [Subjects -> Seq(Records)] /\ bySubject \in [Subjects -> Nat]
    BY MemoryConstants DEF MemoryTyped
  <2>2. /\ UNCHANGED raced
        /\ buckets' = IF bySubject[s] = 0 THEN [buckets EXCEPT ![s] = Append(@, Memory!Empty)] ELSE buckets
        /\ bySubject' = [bySubject EXCEPT ![s] = IF bySubject[s] = 0 THEN Len(buckets[s]) + 1 ELSE bySubject[s]]
    BY <1>2 DEF Memory!Register, Memory!Begin
  <2>3. CASE bySubject[s] # 0
    BY <1>1, <2>1, <2>2, <2>3
  <2>4. CASE bySubject[s] = 0
    <3>1. PICK seq : seq = Append(buckets[s], Memory!Empty)
      OBVIOUS
    <3>2. /\ Len(buckets[s]) \in Nat /\ Len(seq) = Len(buckets[s]) + 1
          /\ \A i \in 1 .. Len(buckets[s]) : seq[i] = buckets[s][i]
      BY <2>1, <3>1, EmptyIsRecords, AppendProperties, LenProperties
    <3>3. /\ buckets'[s] = seq /\ \A r \in Subjects \ {s} : buckets'[r] = buckets[r]
          /\ bySubject'[s] = Len(buckets[s]) + 1 /\ \A r \in Subjects \ {s} : bySubject'[r] = bySubject[r]
      BY <2>1, <2>2, <2>4, <3>1
    <3>4. ASSUME ~raced, NEW r \in Subjects, NEW i \in 1 .. Len(buckets'[r]), i # bySubject'[r]
          PROVE  DOMAIN buckets'[r][i] = {}
      <4>1. i \in 1 .. Len(buckets[r]) /\ i # bySubject[r] /\ buckets'[r][i] = buckets[r][i]
        <5>1. CASE r = s
          BY <2>4, <3>2, <3>3, <3>4, <5>1
        <5>2. CASE r # s
          BY <3>3, <3>4, <5>2
        <5> QED
          BY <5>1, <5>2
      <4> QED
        BY <3>4, <4>1 DEF LostEmpty
    <3> QED
      BY <2>2, <3>4 DEF LostEmpty
  <2> QED
    BY <2>3, <2>4
<1>3. ASSUME NEW t \in Threads, Memory!Insert(t) PROVE LostEmpty'
  <2>1. SUFFICES ASSUME ~raced' PROVE LostEmpty'
    BY DEF LostEmpty
  <2>2. /\ mPc[t] = "insert" /\ UNCHANGED bySubject /\ call[t].subject \in Subjects
        /\ raced' = (raced \/ Memory!Doomed(call[t].sid))
    BY <1>3, InsertDoes
  <2>3. ~raced
    BY <2>1, <2>2, Zenon
  <2>4. bySubject[call[t].subject] = call[t].bucket
    BY <2>2, <2>3 DEF Unraced
  <2>5. PICK b : Replaces(call[t].subject, call[t].bucket, b)
    BY <1>3 DEF Memory!Insert, Replaces
  <2> QED
    BY <2>2, <2>3, <2>4, <2>5, LostEmptyReplaced
<1>4. ASSUME NEW t \in Threads, Memory!Remove(t) PROVE LostEmpty'
  <2>1. /\ UNCHANGED <<bySubject, raced>> /\ call[t].owner \in Subjects
    BY <1>4, RemoveDoes DEF Drops
  <2>2. UNCHANGED buckets \/ \E b : Replaces(call[t].owner, bySubject[call[t].owner], b)
    BY <1>4 DEF Memory!Remove, Replaces
  <2>3. CASE UNCHANGED buckets
    BY <1>1, <2>1, <2>3
  <2>4. CASE ~raced /\ \E b : Replaces(call[t].owner, bySubject[call[t].owner], b)
    BY <2>1, <2>4, LostEmptyReplaced
  <2> QED
    BY <2>1, <2>2, <2>3, <2>4 DEF LostEmpty
<1>5. ASSUME NEW t \in Threads, Memory!Clean(t) PROVE LostEmpty'
  <2>0. PICK s : s = call[t].owner
    OBVIOUS
  <2>2. s \in Subjects /\ UNCHANGED buckets /\ (raced => raced')
    BY <1>5, <2>0, CleanDoes DEF Memory!Clean
  <2>3. SUFFICES ASSUME ~raced' PROVE LostEmpty'
    BY DEF LostEmpty
  <2>4. ~raced
    BY <2>2, <2>3
  <2>5. bySubject' = bySubject \/ (bySubject' = [bySubject EXCEPT ![s] = 0] /\ Memory!Bucket(s) = Memory!Empty)
    BY <1>5, <2>0 DEF Memory!Clean
  <2>6. ASSUME NEW r \in Subjects, NEW i \in 1 .. Len(buckets[r]), i # bySubject'[r]
        PROVE  DOMAIN buckets[r][i] = {}
    <3>1. CASE i # bySubject[r]
      BY <2>4, <2>6, <3>1 DEF LostEmpty
    <3>2. CASE i = bySubject[r]
      <4>1. r = s /\ Memory!Bucket(s) = Memory!Empty
        BY <2>5, <2>6, <3>2 DEF MemoryTyped
      <4>2. buckets[r][i] = Memory!Empty
        BY <2>6, <3>2, <4>1 DEF Memory!Bucket
      <4> QED
        BY <4>2 DEF Memory!Empty
    <3> QED
      BY <3>1, <3>2
  <2> QED
    BY <2>2, <2>6 DEF LostEmpty
<1>6. CASE Memory!Tick
  BY <1>1, <1>6, MemoryTickDoes
<1>7. CASE UNCHANGED Memory!vars
  BY <1>1, <1>7 DEF Memory!vars
<1> QED
  BY <1>1, <1>2, <1>3, <1>4, <1>5, <1>6, <1>7, DeregisterDoes, SessionsForDoes, IterateDoes, ScanDoes,
     SweepDoes, FetchDoes, ReadDoes DEF Sweeps, Quiet, Memory!Next

(* Until then what is promised and not over is in the bucket that lookups  *)
(* read, under its date, and no sweep has it on its list.                  *)
KeptIn(sid, s) ==
    /\ sessionTo[sid] = s /\ sid \in DOMAIN Memory!Bucket(s)
    /\ Memory!Bucket(s)[sid] = promised[sid]

Kept ==
    ~raced => \A sid \in Sids : Memory!Due(sid) => /\ \E s \in Subjects : KeptIn(sid, s)
                                                   /\ \A u \in Threads : sid \notin call[u].expired

(* A session is kept if the step takes neither its entries nor its time.   *)
LEMMA KeptStill ==
  ASSUME MemoryTyped, Kept, ~raced, NEW t \in Threads, \A u \in Threads \ {t} : call'[u] = call[u],
         NEW sid \in Sids, Memory!Due(sid), UNCHANGED <<sessionTo[sid], promised[sid]>>,
         sid \notin call'[t].expired \/ call'[t].expired \subseteq call[t].expired,
         \A s \in Subjects : sid \in DOMAIN Memory!Bucket(s) =>
             sid \in DOMAIN Memory!Bucket(s)' /\ Memory!Bucket(s)'[sid] = Memory!Bucket(s)[sid]
  PROVE  /\ \E s \in Subjects : KeptIn(sid, s)'
         /\ \A u \in Threads : sid \notin call'[u].expired
<1>1. /\ \E s \in Subjects : KeptIn(sid, s)
      /\ \A u \in Threads : sid \notin call[u].expired
  BY DEF Kept
<1>2. \E s \in Subjects : KeptIn(sid, s)'
  BY <1>1 DEF KeptIn
<1> QED
  BY <1>1, <1>2

LEMMA NextKept ==
  ASSUME OneSubject, MemoryTyped, Removable, Unraced, LostEmpty, Promised, Kept, [Memory!Next]_Memory!vars
  PROVE  Kept'
<1>0. /\ mNow \in Nat /\ MemoryTtl \in Nat /\ promised \in [Sids -> -1 .. mNow]
      /\ \A sid \in Sids : promised[sid] \in Int
  BY MemoryConstants DEF MemoryTyped, Promised
<1>1. ASSUME NEW t \in Threads, OnlyCall(t), UNCHANGED <<mNow, promised, sessionTo>>,
             raced => raced', call'[t].expired \subseteq call[t].expired,
             \A s \in Subjects : Memory!Bucket(s)' = Memory!Bucket(s)
      PROVE  Kept'
  <2>1. \A sid \in Sids : Memory!Due(sid)' = Memory!Due(sid)
    BY <1>1 DEF Memory!Due
  <2> QED
    BY <1>1, <2>1, KeptStill DEF Kept, OnlyCall
<1>2. ASSUME NEW t \in Threads, NEW sid \in Sids, Memory!Deregister(t, sid) PROVE Kept'
  <2>1. /\ \A u \in Threads \ {t} : call'[u] = call[u]
        /\ UNCHANGED <<mNow, raced>> /\ call'[t].expired = {}
        /\ promised' = [promised EXCEPT ![sid] = -1]
        /\ \A x \in Sids \ {sid} : sessionTo'[x] = sessionTo[x]
        /\ \A s \in Subjects : Memory!Bucket(s)' = Memory!Bucket(s)
    <3>1. \E s \in Subjects : s = sessionTo[sid]
      BY <1>2 DEF Memory!Deregister, MemoryTyped
    <3> QED
      BY <1>2, <3>1, BeginsCarry, DeregisterDoes DEF Quiet
  <2>2. SUFFICES ASSUME ~raced, NEW x \in Sids, Memory!Due(x)'
                 PROVE  /\ \E s \in Subjects : KeptIn(x, s)'
                        /\ \A u \in Threads : x \notin call'[u].expired
    BY <2>1 DEF Kept
  <2>3. x # sid /\ promised'[x] = promised[x]
    BY <1>0, <2>1, <2>2 DEF Memory!Due
  <2>4. Memory!Due(x)
    BY <2>1, <2>2, <2>3 DEF Memory!Due
  <2> QED
    BY <2>1, <2>2, <2>3, <2>4, KeptStill
<1>3. ASSUME NEW t \in Threads, NEW sid \in Sids, NEW s \in SubjectsOf[sid], Memory!Register(t, sid, s)
      PROVE  Kept'
  <2>1. s \in Subjects /\ mPc'[t] = "insert"
    BY <1>3, MemoryConstants, RegisterDoes
  <2>2. ~Memory!Deregister(t, sid)
    BY <2>1 DEF Memory!Deregister, Memory!Begin, Memory!Goto, MemoryTyped
  <2> QED
    BY <1>1, <1>3, <2>1, <2>2, RegisterDoes, BeginsCarry
<1>4. ASSUME NEW t \in Threads, NEW s \in Subjects, Memory!SessionsFor(t, s) PROVE Kept'
  <2>1. /\ OnlyCall(t) /\ UNCHANGED <<mNow, promised, sessionTo, raced>> /\ call'[t].expired = {}
        /\ \A r \in Subjects : Memory!Bucket(r)' = Memory!Bucket(r)
    BY <1>4, SessionsForDoes, SessionsForCarries DEF Quiet
  <2> QED
    BY <1>1, <2>1
<1>5. ASSUME NEW t \in Threads, Memory!Insert(t) PROVE Kept'
  <2>0. PICK sid, s, at : sid = call[t].sid /\ s = call[t].subject /\ at = call[t].at
    OBVIOUS
  <2>1. /\ mPc[t] = "insert" /\ OnlyCall(t) /\ sid \in Sids /\ s \in Subjects /\ s \in SubjectsOf[sid]
        /\ UNCHANGED <<mNow, bySubject>> /\ at \in Int
        /\ sessionTo'[sid] = s /\ \A x \in Sids \ {sid} : sessionTo'[x] = sessionTo[x]
        /\ raced' = (raced \/ Memory!Doomed(sid))
    BY <1>5, <2>0, InsertDoes
  <2>2. call'[t] = Memory!NoCall /\ promised' = [promised EXCEPT ![sid] = at]
    BY <1>5, <2>0, InsertCarries
  <2>3. SUFFICES ASSUME ~raced' PROVE Kept'
    BY DEF Kept
  <2>4. ~raced /\ ~Memory!Doomed(sid)
    BY <2>1, <2>3, Zenon
  <2>5. bySubject[s] = call[t].bucket
    BY <2>0, <2>1, <2>4 DEF Unraced
  <2>6. \A r \in Subjects : Memory!Bucket(r)' = IF r = s THEN Memory!Put(Memory!Bucket(r), sid, at) ELSE Memory!Bucket(r)
    BY <1>5, <2>0, <2>5, InsertDoes
  <2>7. ASSUME NEW x \in Sids, Memory!Due(x)'
        PROVE  /\ \E r \in Subjects : KeptIn(x, r)'
               /\ \A u \in Threads : x \notin call'[u].expired
    <3>1. CASE x = sid
      <4>1. Memory!Bucket(s)'[sid] = at /\ sid \in DOMAIN Memory!Bucket(s)'
        BY <2>1, <2>6 DEF Memory!Put
      <4>2. promised'[sid] = at
        BY <1>0, <2>1, <2>2
      <4>3. KeptIn(sid, s)'
        BY <2>1, <4>1, <4>2 DEF KeptIn
      <4>4. \A u \in Threads : sid \notin call'[u].expired
        BY <2>1, <2>2, <2>4, NoCallAt DEF Memory!Doomed, OnlyCall
      <4> QED
        BY <2>1, <3>1, <4>3, <4>4
    <3>2. CASE x # sid
      <4>1. promised'[x] = promised[x] /\ sessionTo'[x] = sessionTo[x]
        BY <1>0, <2>1, <2>2, <3>2
      <4>2. Memory!Due(x)
        BY <2>1, <2>7, <4>1 DEF Memory!Due
      <4>3. ASSUME NEW r \in Subjects, x \in DOMAIN Memory!Bucket(r)
            PROVE  x \in DOMAIN Memory!Bucket(r)' /\ Memory!Bucket(r)'[x] = Memory!Bucket(r)[x]
        <5>1. Memory!Bucket(r) \in Records
          BY BucketTyped
        <5>2. /\ DOMAIN Memory!Put(Memory!Bucket(r), sid, at) = DOMAIN Memory!Bucket(r) \cup {sid}
              /\ Memory!Put(Memory!Bucket(r), sid, at)[x] = Memory!Bucket(r)[x]
          <6>1. PICK b \in Records : b = Memory!Bucket(r)
            BY <5>1
          <6>2. x \in DOMAIN b \ {sid}
            BY <3>2, <4>3, <6>1
          <6>3. /\ DOMAIN Memory!Put(b, sid, at) = DOMAIN b \cup {sid}
                /\ \A y \in DOMAIN b \ {sid} : Memory!Put(b, sid, at)[y] = b[y]
            BY <2>1, PutRecords
          <6> QED
            BY <6>1, <6>2, <6>3
        <5> QED
          BY <2>6, <4>3, <5>2
      <4>4. x \notin call'[t].expired
        BY <2>2, NoCallAt
      <4> QED
        BY <2>1, <2>4, <4>1, <4>2, <4>3, <4>4, KeptStill DEF OnlyCall
    <3> QED
      BY <3>1, <3>2
  <2> QED
    BY <2>7 DEF Kept
<1>6. ASSUME NEW t \in Threads, Memory!Remove(t) PROVE Kept'
  <2>0. PICK sid, owner : sid = call[t].sid /\ owner = call[t].owner
    OBVIOUS
  <2>1. Drops(t, sid, owner) /\ call'[t].expired \subseteq call[t].expired /\ UNCHANGED promised
    BY <1>6, <2>0, RemoveDoes, LocalsCarry DEF Locals
  <2>2. /\ mPc[t] = "remove" /\ sid \in Sids /\ UNCHANGED <<mNow, sessionTo, raced>> /\ OnlyCall(t)
        /\ \A s \in Subjects : DOMAIN Memory!Bucket(s) \ {sid} \subseteq DOMAIN Memory!Bucket(s)'
    BY <2>1 DEF Drops
  <2>3. \A s \in Subjects : \A x \in DOMAIN Memory!Bucket(s)' : Memory!Bucket(s)'[x] = Memory!Bucket(s)[x]
    BY <1>6, RemoveDoes
  <2>4. SUFFICES ASSUME ~raced, NEW x \in Sids, Memory!Due(x)'
                 PROVE  /\ \E s \in Subjects : KeptIn(x, s)'
                        /\ \A u \in Threads : x \notin call'[u].expired
    BY <2>2 DEF Kept
  <2>5. Memory!Due(x)
    BY <2>1, <2>2, <2>4 DEF Memory!Due
  <2>6. sessionTo[sid] = NoSubject
    BY <2>0, <2>2, <2>4 DEF Unraced
  <2>7. x # sid
    BY <2>4, <2>5, <2>6, MemoryConstants DEF Kept, KeptIn
  <2> QED
    BY <2>1, <2>2, <2>3, <2>4, <2>5, <2>7, KeptStill DEF OnlyCall
<1>7. ASSUME NEW t \in Threads, Memory!Clean(t) PROVE Kept'
  BY <1>1, <1>7, CleanDoes, LocalsCarry DEF Locals
<1>8. ASSUME NEW t \in Threads, Memory!Iterate(t) PROVE Kept'
  <2>1. /\ OnlyCall(t) /\ UNCHANGED <<mNow, promised, sessionTo, raced>>
        /\ call'[t].expired \subseteq call[t].expired
    BY <1>8, IterateDoes, LocalsCarry DEF Locals
  <2>2. \A s \in Subjects : Memory!Bucket(s)' = Memory!Bucket(s)
    BY <1>8, IterateDoes DEF Quiet
  <2> QED
    BY <1>1, <2>1, <2>2
<1>9. ASSUME NEW t \in Threads, Memory!Scan(t) PROVE Kept'
  <2>1. /\ OnlyCall(t) /\ UNCHANGED <<mNow, promised, sessionTo, raced>>
        /\ \A s \in Subjects : Memory!Bucket(s)' = Memory!Bucket(s)
        /\ mPc[t] = "scan"
    BY <1>9, ScanDoes, ScanCarries DEF Quiet
  <2>2. SUFFICES ASSUME ~raced, NEW x \in Sids, Memory!Due(x)
                 PROVE  /\ \E s \in Subjects : KeptIn(x, s)'
                        /\ \A u \in Threads : x \notin call'[u].expired
    BY <2>1 DEF Kept, Memory!Due
  <2>3. PICK r \in Subjects : KeptIn(x, r)
    BY <2>2 DEF Kept
  <2>4. x \notin Memory!Expired(Memory!Held(t), call[t].cutoff)
    <3>1. CallTyped(t) /\ call[t] \in Calls /\ CallDated(t)
      BY DEF MemoryTyped, Promised
    <3>2. PICK s, i : /\ s \in Subjects /\ i \in 0 .. Len(buckets[s])
                    /\ s = call[t].subject /\ i = call[t].bucket
      BY <2>1, <3>1 DEF CallTyped, HoldsBucket, Looking
    <3>3. call[t].cutoff \in Int /\ call[t].cutoff <= mNow - MemoryTtl
      BY <2>1, <3>1 DEF CallTyped, CallDated, Looking, Calls
    <3>4. buckets[s] \in Seq(Records)
      BY <3>2 DEF MemoryTyped
    <3>5. Len(buckets[s]) \in Nat
      BY <3>4, LenProperties
    <3>6. CASE i # 0 /\ i = bySubject[s]
      <4>1. Memory!Held(t) = Memory!Bucket(s)
        BY <3>2, <3>6 DEF Memory!Held, Memory!Bucket
      <4>2. ASSUME x \in DOMAIN Memory!Bucket(s) PROVE s = r
        BY <2>2, <2>3, <3>2, <4>2 DEF KeptIn, Removable, OneSubject
      <4>3. promised[x] >= mNow - MemoryTtl
        BY <2>2 DEF Memory!Due
      <4>4. x \in DOMAIN Memory!Bucket(s) => ~(Memory!Bucket(s)[x] < call[t].cutoff)
        BY <1>0, <2>3, <3>3, <4>2, <4>3 DEF KeptIn
      <4> QED
        BY <4>1, <4>4 DEF Memory!Expired
    <3>7. CASE i = 0
      <4>1. DOMAIN Memory!Held(t) = {}
        BY <3>2, <3>7 DEF Memory!Held, Memory!Empty
      <4> QED
        BY <4>1 DEF Memory!Expired
    <3>8. CASE i # 0 /\ i # bySubject[s]
      <4>1. i \in 1 .. Len(buckets[s]) /\ Memory!Held(t) = buckets[s][i]
        BY <3>2, <3>5, <3>8 DEF Memory!Held
      <4>2. DOMAIN Memory!Held(t) = {}
        BY <2>2, <3>2, <3>8, <4>1 DEF LostEmpty
      <4> QED
        BY <4>2 DEF Memory!Expired
    <3> QED
      BY <3>6, <3>7, <3>8
  <2>5. x \notin call'[t].expired
    BY <1>9, <2>4, ScanCarries
  <2> QED
    BY <2>1, <2>2, <2>5, KeptStill DEF OnlyCall
<1>10. ASSUME NEW t \in Threads, Memory!Sweep(t) PROVE Kept'
  <2>0. PICK sid \in Sids : Sweeps(t, sid) /\ sid \in call[t].expired
    <3>1. PICK x \in call[t].expired :
             call' = [call EXCEPT ![t].expired = @ \ {x}, ![t].sid = x, ![t].owner = sessionTo[x]]
      BY <1>10 DEF Memory!Sweep
    <3>2. PICK y \in Sids : Sweeps(t, y)
      BY <1>10, SweepDoes
    <3>3. call \in [Threads -> Calls] /\ call[t] \in Calls
      BY DEF MemoryTyped
    <3>4. call'[t].sid = x
      BY <3>1, <3>3 DEF Calls
    <3>5. call'[t].sid = y
      <4>1. call'[t] = [call[t] EXCEPT !.expired = @ \ {y}, !.sid = y, !.owner = sessionTo[y]]
        BY <3>2 DEF Sweeps
      <4> QED
        BY <3>3, <4>1 DEF Calls
    <3> QED
      BY <3>1, <3>2, <3>4, <3>5
  <2>1. /\ UNCHANGED <<mNow, promised, raced>> /\ OnlyCall(t) /\ call'[t].expired \subseteq call[t].expired
        /\ \A x \in Sids \ {sid} : sessionTo'[x] = sessionTo[x]
        /\ \A s \in Subjects : Memory!Bucket(s)' = Memory!Bucket(s)
    BY <1>10, <2>0, LocalsCarry DEF Locals, Sweeps, Quiet
  <2>2. SUFFICES ASSUME ~raced, NEW x \in Sids, Memory!Due(x)
                 PROVE  /\ \E s \in Subjects : KeptIn(x, s)'
                        /\ \A u \in Threads : x \notin call'[u].expired
    BY <2>1 DEF Kept, Memory!Due
  <2>3. x # sid
    BY <2>0, <2>2 DEF Kept
  <2> QED
    BY <2>1, <2>2, <2>3, KeptStill DEF OnlyCall
<1>11. ASSUME NEW t \in Threads, Memory!Fetch(t) PROVE Kept'
  <2>1. /\ OnlyCall(t) /\ UNCHANGED <<mNow, promised, sessionTo, raced>>
        /\ call'[t].expired \subseteq call[t].expired
    BY <1>11, FetchDoes, LocalsCarry DEF Locals
  <2>2. \A s \in Subjects : Memory!Bucket(s)' = Memory!Bucket(s)
    BY <1>11, FetchDoes DEF Quiet
  <2> QED
    BY <1>1, <2>1, <2>2
<1>12. ASSUME NEW t \in Threads, Memory!Read(t) PROVE Kept'
  <2>1. /\ OnlyCall(t) /\ UNCHANGED <<mNow, promised, sessionTo, raced>>
        /\ call'[t].expired \subseteq call[t].expired
    BY <1>12, ReadDoes, LocalsCarry DEF Locals
  <2>2. \A s \in Subjects : Memory!Bucket(s)' = Memory!Bucket(s)
    BY <1>12, ReadDoes DEF Quiet
  <2> QED
    BY <1>1, <2>1, <2>2
<1>13. CASE Memory!Tick
  <2>1. /\ mNow' = mNow + 1 /\ UNCHANGED <<promised, raced, call, sessionTo>>
        /\ \A s \in Subjects : Memory!Bucket(s)' = Memory!Bucket(s)
    BY <1>13, MemoryTickDoes DEF Memory!Tick, Memory!history
  <2>2. \A sid \in Sids : Memory!Due(sid)' => Memory!Due(sid)
    BY <1>0, <2>1 DEF Memory!Due
  <2> QED
    BY <2>1, <2>2 DEF Kept, KeptIn
<1>14. CASE UNCHANGED Memory!vars
  BY <1>14 DEF Memory!vars, Kept, KeptIn, Memory!Due, Memory!Bucket
<1> QED
  BY <1>2, <1>3, <1>4, <1>5, <1>6, <1>7, <1>8, <1>9, <1>10, <1>11, <1>12, <1>13, <1>14 DEF Memory!Next

-----------------------------------------------------------------------------
(* As long as no two calls have overlapped, one thread at most is at work, *)
(* and what it read is what the store holds.                               *)
AloneAt(t) ==
    /\ mPc[t] = "clean" => bySubject[call[t].owner] # 0
    /\ mPc[t] = "scan" => call[t].size = Memory!Cardinality(DOMAIN Memory!Held(t))
    /\ mPc[t] \in {"insert", "iterate", "scan", "read"} => bySubject[call[t].subject] = call[t].bucket

Alone ==
    ~overlapped => /\ errors = {}
                   /\ \A t, u \in Threads : mPc[t] # "idle" /\ mPc[u] # "idle" => t = u
                   /\ \A t \in Threads : AloneAt(t)

(* The step goes on with a call, or begins one.                            *)
Works(t) == mPc[t] # "idle" /\ UNCHANGED overlapped

Begins == overlapped' = (overlapped \/ \E u \in Threads : mPc[u] # "idle")

LEMMA Solo ==
  ASSUME Alone, NEW t \in Threads, OnlyCall(t), Works(t) \/ Begins, ~overlapped'
  PROVE  /\ ~overlapped
         /\ \A u \in Threads \ {t} : mPc[u] = "idle" /\ mPc'[u] = "idle"
<1>1. ~overlapped /\ (Works(t) \/ \A u \in Threads : mPc[u] = "idle")
  <2>1. CASE Works(t)
    BY <2>1 DEF Works
  <2>2. CASE Begins
    BY <2>2, Zenon DEF Begins
  <2> QED
    BY <2>1, <2>2
<1>2. \A u \in Threads \ {t} : mPc[u] = "idle"
  BY <1>1 DEF Alone, Works
<1> QED
  BY <1>1, <1>2 DEF OnlyCall

LEMMA StaysAlone ==
  ASSUME Alone, NEW t \in Threads, OnlyCall(t), Works(t) \/ Begins,
         ~overlapped /\ AloneAt(t) => UNCHANGED errors /\ AloneAt(t)'
  PROVE  Alone'
<1>1. SUFFICES ASSUME ~overlapped' PROVE Alone'
  BY DEF Alone
<1>2. ~overlapped /\ \A u \in Threads \ {t} : mPc[u] = "idle" /\ mPc'[u] = "idle"
  BY <1>1, Solo
<1>3. errors' = {} /\ AloneAt(t)'
  BY <1>2 DEF Alone
<1>4. \A u \in Threads \ {t} : AloneAt(u)'
  BY <1>2 DEF AloneAt
<1> QED
  BY <1>2, <1>3, <1>4 DEF Alone

LEMMA NextAlone == ASSUME MemoryTyped, Alone, [Memory!Next]_Memory!vars PROVE Alone'
<1>1. ASSUME NEW t \in Threads, NEW sid \in Sids, Memory!Deregister(t, sid) PROVE Alone'
  <2>1. OnlyCall(t) /\ Begins /\ UNCHANGED errors /\ mPc'[t] = "remove"
    BY <1>1, DeregisterDoes DEF Quiet, Begins
  <2> QED
    BY <2>1, StaysAlone DEF AloneAt
<1>2. ASSUME NEW t \in Threads, NEW sid \in Sids, NEW s \in SubjectsOf[sid], Memory!Register(t, sid, s)
      PROVE  Alone'
  <2>1. /\ OnlyCall(t) /\ Begins /\ UNCHANGED errors /\ mPc'[t] = "insert"
        /\ bySubject'[call'[t].subject] = call'[t].bucket
    BY <1>2, RegisterDoes DEF Begins
  <2> QED
    BY <2>1, StaysAlone DEF AloneAt
<1>3. ASSUME NEW t \in Threads, NEW s \in Subjects, Memory!SessionsFor(t, s) PROVE Alone'
  <2>1. /\ OnlyCall(t) /\ Begins /\ UNCHANGED errors /\ mPc'[t] = "iterate"
        /\ bySubject'[call'[t].subject] = call'[t].bucket
    BY <1>3, SessionsForDoes DEF Quiet, Begins
  <2> QED
    BY <2>1, StaysAlone DEF AloneAt
<1>4. ASSUME NEW t \in Threads, Memory!Insert(t) PROVE Alone'
  <2>1. OnlyCall(t) /\ Works(t) /\ UNCHANGED errors /\ mPc'[t] = "idle"
    BY <1>4, InsertDoes DEF Works
  <2> QED
    BY <2>1, StaysAlone DEF AloneAt
<1>5. ASSUME NEW t \in Threads, Memory!Remove(t) PROVE Alone'
  <2>1. /\ OnlyCall(t) /\ mPc[t] = "remove" /\ UNCHANGED <<bySubject, errors>>
        /\ mPc'[t] # "idle" => call'[t] = call[t]
        /\ mPc'[t] = "clean" => bySubject[call[t].owner] # 0
    BY <1>5, RemoveDoes
  <2>2. mPc'[t] \in {"clean", "sweep", "idle"} /\ UNCHANGED overlapped
    BY <1>5, RemoveDoes
  <2>3. Works(t)
    BY <2>1, <2>2 DEF Works
  <2>4. AloneAt(t)'
    BY <2>1, <2>2 DEF AloneAt
  <2> QED
    BY <2>1, <2>3, <2>4, StaysAlone
<1>6. ASSUME NEW t \in Threads, Memory!Clean(t) PROVE Alone'
  <2>1. /\ OnlyCall(t) /\ Works(t) /\ mPc[t] = "clean" /\ mPc'[t] \in {"idle", "sweep"}
        /\ bySubject[call[t].owner] # 0 => UNCHANGED errors
    BY <1>6, CleanDoes DEF Works
  <2>2. AloneAt(t) => bySubject[call[t].owner] # 0
    BY <2>1 DEF AloneAt
  <2>3. AloneAt(t)'
    BY <2>1 DEF AloneAt
  <2> QED
    BY <2>1, <2>2, <2>3, StaysAlone
<1>7. ASSUME NEW t \in Threads, Memory!Iterate(t) PROVE Alone'
  <2>0. PICK size : size = Memory!Cardinality(DOMAIN Memory!Held(t))
    OBVIOUS
  <2>1. /\ OnlyCall(t) /\ Works(t) /\ UNCHANGED <<errors, bySubject, buckets>>
        /\ mPc[t] = "iterate" /\ mPc'[t] = "scan"
        /\ call'[t] = [call[t] EXCEPT !.size = size]
        /\ call[t] \in Calls
    BY <1>7, <2>0, IterateDoes DEF Works, Quiet, MemoryTyped
  <2>2. call'[t].size = size /\ call'[t].subject = call[t].subject /\ call'[t].bucket = call[t].bucket
    BY <2>1 DEF Calls
  <2>3. Memory!Held(t)' = Memory!Held(t)
    BY <2>1, <2>2 DEF Memory!Held
  <2>4. AloneAt(t) => AloneAt(t)'
    BY <2>0, <2>1, <2>2, <2>3 DEF AloneAt
  <2> QED
    BY <2>1, <2>4, StaysAlone
<1>8. ASSUME NEW t \in Threads, Memory!Scan(t) PROVE Alone'
  <2>1. OnlyCall(t) /\ Works(t) /\ mPc[t] = "scan"
    BY <1>8, ScanDoes DEF Works, Quiet
  <2>2. AloneAt(t) => mPc'[t] = "sweep" /\ UNCHANGED errors
    BY <1>8, <2>1, ScanDoes DEF AloneAt
  <2>3. mPc'[t] = "sweep" => AloneAt(t)'
    BY DEF AloneAt
  <2> QED
    BY <2>1, <2>2, <2>3, StaysAlone
<1>9. ASSUME NEW t \in Threads, Memory!Sweep(t) PROVE Alone'
  <2>1. OnlyCall(t) /\ Works(t) /\ mPc'[t] \in {"sweep", "remove"} /\ UNCHANGED errors
    BY <1>9, SweepDoes DEF Sweeps, Works, Quiet
  <2> QED
    BY <2>1, StaysAlone DEF AloneAt
<1>10. ASSUME NEW t \in Threads, Memory!Fetch(t) PROVE Alone'
  <2>1. /\ OnlyCall(t) /\ Works(t) /\ mPc'[t] = "read" /\ UNCHANGED <<bySubject, errors>>
        /\ call[t] \in Calls /\ call'[t] = [call[t] EXCEPT !.bucket = bySubject[call[t].subject]]
    BY <1>10, FetchDoes DEF Works, Quiet
  <2>2. call'[t].subject = call[t].subject /\ call'[t].bucket = bySubject[call[t].subject]
    BY <2>1 DEF Calls
  <2> QED
    BY <2>1, <2>2, StaysAlone DEF AloneAt
<1>11. ASSUME NEW t \in Threads, Memory!Read(t) PROVE Alone'
  <2>1. OnlyCall(t) /\ Works(t) /\ mPc'[t] = "idle" /\ UNCHANGED errors
    BY <1>11, ReadDoes DEF Works, Quiet
  <2> QED
    BY <2>1, StaysAlone DEF AloneAt
<1>12. CASE Memory!Tick
  BY <1>12, MemoryTickDoes DEF Alone, AloneAt, Memory!Held
<1>13. CASE UNCHANGED Memory!vars
  BY <1>13 DEF Memory!vars, Alone, AloneAt, Memory!Held
<1> QED
  BY <1>1, <1>2, <1>3, <1>4, <1>5, <1>6, <1>7, <1>8, <1>9, <1>10, <1>11, <1>12, <1>13 DEF Memory!Next

-----------------------------------------------------------------------------
(* What had expired when the lookup began is still to be swept, is being   *)
(* removed, or is gone.                                                    *)
SweptAt(t) ==
    call[t].sweeping /\ mPc[t] \in {"sweep", "remove", "clean", "read"} =>
        \A s \in Subjects : \A sid \in DOMAIN Memory!Bucket(s) :
            s = call[t].subject /\ Memory!Bucket(s)[sid] < call[t].cutoff =>
                /\ mPc[t] # "read"
                /\ sid \in call[t].expired \/ (mPc[t] = "remove" /\ sid = call[t].sid)

Swept == ~overlapped => \A t \in Threads : SweptAt(t)

LEMMA StaysSwept ==
  ASSUME Alone, Swept, NEW t \in Threads, OnlyCall(t), Works(t) \/ Begins,
         ~overlapped /\ AloneAt(t) /\ SweptAt(t) /\ (\A u \in Threads \ {t} : mPc[u] = "idle") => SweptAt(t)'
  PROVE  Swept'
<1>1. SUFFICES ASSUME ~overlapped' PROVE Swept'
  BY DEF Swept
<1>2. ~overlapped /\ \A u \in Threads \ {t} : mPc[u] = "idle" /\ mPc'[u] = "idle"
  BY <1>1, Solo
<1>3. SweptAt(t)'
  BY <1>2 DEF Alone, Swept
<1>4. \A u \in Threads \ {t} : SweptAt(u)'
  BY <1>2 DEF SweptAt
<1> QED
  BY <1>3, <1>4 DEF Swept

LEMMA NextSwept ==
  ASSUME OneSubject, MemoryTyped, Removable, Alone, Swept, [Memory!Next]_Memory!vars
  PROVE  Swept'
<1>1. ASSUME NEW t \in Threads, NEW sid \in Sids, Memory!Deregister(t, sid) PROVE Swept'
  <2>1. OnlyCall(t) /\ Begins /\ ~call'[t].sweeping
    BY <1>1, DeregisterDoes DEF Quiet, Begins
  <2> QED
    BY <2>1, StaysSwept DEF SweptAt
<1>2. ASSUME NEW t \in Threads, NEW sid \in Sids, NEW s \in SubjectsOf[sid], Memory!Register(t, sid, s)
      PROVE  Swept'
  <2>1. OnlyCall(t) /\ Begins /\ mPc'[t] = "insert"
    BY <1>2, RegisterDoes DEF Begins
  <2> QED
    BY <2>1, StaysSwept DEF SweptAt
<1>3. ASSUME NEW t \in Threads, NEW s \in Subjects, Memory!SessionsFor(t, s) PROVE Swept'
  <2>1. OnlyCall(t) /\ Begins /\ mPc'[t] = "iterate"
    BY <1>3, SessionsForDoes DEF Quiet, Begins
  <2> QED
    BY <2>1, StaysSwept DEF SweptAt
<1>4. ASSUME NEW t \in Threads, Memory!Insert(t) PROVE Swept'
  <2>1. OnlyCall(t) /\ Works(t) /\ mPc'[t] = "idle"
    BY <1>4, InsertDoes DEF Works
  <2> QED
    BY <2>1, StaysSwept DEF SweptAt
<1>5. ASSUME NEW t \in Threads, Memory!Remove(t) PROVE Swept'
  <2>0. PICK sid, owner : sid = call[t].sid /\ owner = call[t].owner
    OBVIOUS
  <2>d. Drops(t, sid, owner)
    BY <1>5, <2>0, RemoveDoes
  <2>p. mPc[t] = "remove"
    BY <1>5, RemoveDoes
  <2>1. /\ OnlyCall(t) /\ owner \in SubjectsOf[sid] /\ sid \in Sids
        /\ \A s \in Subjects : DOMAIN Memory!Bucket(s)' = IF s = owner THEN DOMAIN Memory!Bucket(s) \ {sid} ELSE DOMAIN Memory!Bucket(s)
    BY <2>d DEF Drops
  <2>v. \A s \in Subjects : \A x \in DOMAIN Memory!Bucket(s)' : Memory!Bucket(s)'[x] = Memory!Bucket(s)[x]
    BY <1>5, RemoveDoes
  <2>2. /\ mPc'[t] \in {"clean", "sweep", "idle"} /\ UNCHANGED overlapped
        /\ mPc'[t] # "idle" => call'[t] = call[t]
    BY <1>5, RemoveDoes
  <2>3. Works(t)
    BY <2>p, <2>2 DEF Works
  <2>4. ASSUME SweptAt(t), NEW s \in Subjects, NEW x \in DOMAIN Memory!Bucket(s)', mPc'[t] # "idle", call[t].sweeping,
               s = call[t].subject, Memory!Bucket(s)'[x] < call[t].cutoff
        PROVE  x \in call[t].expired
    <3>1. x \in DOMAIN Memory!Bucket(s) /\ ~(x = sid /\ s = owner) /\ Memory!Bucket(s)[x] < call[t].cutoff
      BY <2>1, <2>v, <2>4
    <3>2. s \in SubjectsOf[x]
      BY <3>1 DEF Removable
    <3>3. x # sid
      BY <2>1, <3>1, <3>2 DEF OneSubject
    <3> QED
      BY <2>0, <2>p, <2>4, <3>1, <3>3 DEF SweptAt
  <2>5. SweptAt(t) => SweptAt(t)'
    BY <2>2, <2>4 DEF SweptAt
  <2> QED
    BY <2>1, <2>3, <2>5, StaysSwept
<1>6. ASSUME NEW t \in Threads, Memory!Clean(t) PROVE Swept'
  <2>1. /\ OnlyCall(t) /\ Works(t) /\ mPc[t] = "clean" /\ mPc'[t] \in {"idle", "sweep"}
        /\ mPc'[t] = "sweep" => call'[t] = call[t]
        /\ \A s \in Subjects : Memory!Bucket(s)' = Memory!Bucket(s)
    BY <1>6, CleanDoes DEF Works
  <2>2. SweptAt(t) => SweptAt(t)'
    BY <2>1 DEF SweptAt
  <2> QED
    BY <2>1, <2>2, StaysSwept
<1>7. ASSUME NEW t \in Threads, Memory!Iterate(t) PROVE Swept'
  <2>1. OnlyCall(t) /\ Works(t) /\ mPc'[t] = "scan"
    BY <1>7, IterateDoes DEF Works, Quiet
  <2> QED
    BY <2>1, StaysSwept DEF SweptAt
<1>8. ASSUME NEW t \in Threads, Memory!Scan(t) PROVE Swept'
  <2>1. OnlyCall(t) /\ Works(t) /\ mPc[t] = "scan"
        /\ \A s \in Subjects : Memory!Bucket(s)' = Memory!Bucket(s)
    BY <1>8, ScanDoes DEF Works, Quiet
  <2>2. CASE mPc'[t] = "idle"
    BY <2>1, <2>2, StaysSwept DEF SweptAt
  <2>3. CASE mPc'[t] # "idle"
    <3>0. PICK expired : expired = Memory!Expired(Memory!Held(t), call[t].cutoff)
      OBVIOUS
    <3>1. /\ mPc'[t] = "sweep" /\ call[t] \in Calls
          /\ call'[t] = [call[t] EXCEPT !.expired = expired]
      BY <1>8, <2>3, <3>0, ScanDoes DEF MemoryTyped
    <3>2. call'[t].expired = expired /\ call'[t].subject = call[t].subject /\ call'[t].cutoff = call[t].cutoff
      BY <3>1 DEF Calls
    <3>3. ASSUME AloneAt(t), NEW s \in Subjects, NEW x \in DOMAIN Memory!Bucket(s), s = call[t].subject,
                 Memory!Bucket(s)[x] < call[t].cutoff
          PROVE  x \in expired
      <4>1. Memory!Held(t) = Memory!Bucket(s)
        BY <2>1, <3>3 DEF AloneAt, Memory!Held, Memory!Bucket
      <4> QED
        BY <3>0, <3>3, <4>1 DEF Memory!Expired
    <3>4. AloneAt(t) => SweptAt(t)'
      BY <2>1, <3>1, <3>2, <3>3 DEF SweptAt
    <3> QED
      BY <2>1, <3>4, StaysSwept
  <2> QED
    BY <2>2, <2>3
<1>9. ASSUME NEW t \in Threads, Memory!Sweep(t) PROVE Swept'
  <2>0. PICK sid \in Sids : Sweeps(t, sid)
    BY <1>9, SweepDoes
  <2>1. /\ mPc[t] = "sweep" /\ call[t] \in Calls
        /\ mPc'[t] = IF sessionTo[sid] = NoSubject THEN "sweep" ELSE "remove"
        /\ call'[t] = [call[t] EXCEPT !.expired = @ \ {sid}, !.sid = sid, !.owner = sessionTo[sid]]
        /\ UNCHANGED overlapped /\ Quiet(t)
    BY <2>0 DEF Sweeps
  <2>2. /\ call'[t].sid = sid /\ call'[t].expired = call[t].expired \ {sid} /\ call'[t].sweeping = call[t].sweeping
        /\ call'[t].subject = call[t].subject /\ call'[t].cutoff = call[t].cutoff
    BY <2>1 DEF Calls
  <2>3. OnlyCall(t) /\ Works(t) /\ \A s \in Subjects : Memory!Bucket(s)' = Memory!Bucket(s)
    BY <2>1 DEF Quiet, Works
  <2>4. ASSUME \A u \in Threads \ {t} : mPc[u] = "idle", sessionTo[sid] = NoSubject, NEW s \in Subjects
        PROVE  sid \notin DOMAIN Memory!Bucket(s)
    BY <2>1, <2>4, MemoryConstants DEF Removable
  <2>5. SweptAt(t) /\ (\A u \in Threads \ {t} : mPc[u] = "idle") => SweptAt(t)'
    <3>1. CASE sessionTo[sid] = NoSubject
      BY <2>1, <2>2, <2>3, <2>4, <3>1 DEF SweptAt
    <3>2. CASE sessionTo[sid] # NoSubject
      BY <2>1, <2>2, <2>3, <3>2 DEF SweptAt
    <3> QED
      BY <3>1, <3>2
  <2> QED
    BY <2>3, <2>5, StaysSwept
<1>10. ASSUME NEW t \in Threads, Memory!Fetch(t) PROVE Swept'
  <2>1. /\ OnlyCall(t) /\ Works(t) /\ mPc[t] = "sweep" /\ mPc'[t] = "read"
        /\ call[t] \in Calls /\ call[t].expired = {} /\ call[t].sweeping
        /\ call'[t] = [call[t] EXCEPT !.bucket = bySubject[call[t].subject]]
        /\ \A s \in Subjects : Memory!Bucket(s)' = Memory!Bucket(s)
    BY <1>10, FetchDoes DEF Works, Quiet
  <2>2. call'[t].subject = call[t].subject /\ call'[t].cutoff = call[t].cutoff
    BY <2>1 DEF Calls
  <2>3. SweptAt(t) => SweptAt(t)'
    BY <2>1, <2>2 DEF SweptAt
  <2> QED
    BY <2>1, <2>3, StaysSwept
<1>11. ASSUME NEW t \in Threads, Memory!Read(t) PROVE Swept'
  <2>1. OnlyCall(t) /\ Works(t) /\ mPc'[t] = "idle"
    BY <1>11, ReadDoes DEF Works, Quiet
  <2> QED
    BY <2>1, StaysSwept DEF SweptAt
<1>12. CASE Memory!Tick
  <2>1. UNCHANGED <<call, mPc, overlapped>> /\ \A s \in Subjects : Memory!Bucket(s)' = Memory!Bucket(s)
    BY <1>12, MemoryTickDoes
  <2>2. \A t \in Threads : SweptAt(t) => SweptAt(t)'
    BY <2>1 DEF SweptAt
  <2> QED
    BY <2>1, <2>2 DEF Swept
<1>13. CASE UNCHANGED Memory!vars
  BY <1>13 DEF Memory!vars, Swept, SweptAt, Memory!Bucket
<1> QED
  BY <1>1, <1>2, <1>3, <1>4, <1>5, <1>6, <1>7, <1>8, <1>9, <1>10, <1>11, <1>12, <1>13 DEF Memory!Next

-----------------------------------------------------------------------------
(* Where the map of SessionDirectory is to be found in the dictionaries.   *)
MapsRecords ==
    /\ Memory!Mapping \in [Sids -> Subjects \cup {NoSubject}]
    /\ \A sid \in Sids, s \in Subjects : Memory!Mapping[sid] = s <=> sid \in DOMAIN Memory!Bucket(s)

LEMMA RecordsMapped == ASSUME OneSubject, MemoryTyped, Removable PROVE MapsRecords
<1>1. ASSUME NEW sid \in Sids
      PROVE  /\ Memory!Mapping[sid] \in Subjects \cup {NoSubject}
             /\ \A s \in Subjects : Memory!Mapping[sid] = s <=> sid \in DOMAIN Memory!Bucket(s)
  <2>1. \A r, s \in Subjects : sid \in DOMAIN Memory!Bucket(r) /\ sid \in DOMAIN Memory!Bucket(s) => r = s
    BY DEF OneSubject, Removable
  <2>2. CASE \E s \in Subjects : sid \in DOMAIN Memory!Bucket(s)
    <3>1. PICK s \in Subjects : s = CHOOSE r \in Subjects : sid \in DOMAIN Memory!Bucket(r)
      BY <2>2
    <3>2. sid \in DOMAIN Memory!Bucket(s)
      BY <2>2, <3>1
    <3>3. Memory!Mapping[sid] = s
      BY <2>2, <3>1 DEF Memory!Mapping
    <3> QED
      BY <2>1, <3>2, <3>3
  <2>3. CASE ~ \E s \in Subjects : sid \in DOMAIN Memory!Bucket(s)
    <3>1. Memory!Mapping[sid] = NoSubject
      BY <2>3 DEF Memory!Mapping
    <3> QED
      BY <2>3, <3>1, MemoryConstants
  <2> QED
    BY <2>2, <2>3
<1>2. Memory!Mapping = [sid \in Sids |-> Memory!Mapping[sid]]
  BY DEF Memory!Mapping
<1> QED
  BY <1>1, <1>2 DEF MapsRecords

LEMMA MapKeptAt ==
  ASSUME MapsRecords, MapsRecords', NEW x \in Sids,
         \A s \in Subjects : x \in DOMAIN Memory!Bucket(s)' <=> x \in DOMAIN Memory!Bucket(s)
  PROVE  Memory!Mapping'[x] = Memory!Mapping[x]
  BY DEF MapsRecords

LEMMA MapKept ==
  ASSUME MapsRecords, MapsRecords', \A s \in Subjects : Memory!Bucket(s)' = Memory!Bucket(s)
  PROVE  Memory!Mapping' = Memory!Mapping
<1>1. \A sid \in Sids : Memory!Mapping'[sid] = Memory!Mapping[sid]
  BY DEF MapsRecords
<1> QED
  BY <1>1 DEF MapsRecords

(* As long as calls have not overlapped, every step is one of the map.     *)
LEMMA NextMapped ==
  ASSUME OneSubject, MemoryTyped, Removable, Alone, MapsRecords, MapsRecords', [Memory!Next]_Memory!vars
  PROVE  [overlapped' \/ Memory!Directory!Next]_<<Memory!Mapping, mAnswer>>
<1>1. ASSUME \A s \in Subjects : Memory!Bucket(s)' = Memory!Bucket(s), UNCHANGED mAnswer
      PROVE  UNCHANGED <<Memory!Mapping, mAnswer>>
  BY <1>1, MapKept
<1>2. ASSUME NEW t \in Threads, Memory!Insert(t) PROVE overlapped' \/ Memory!Directory!Next
  <2>0. PICK sid, subject, at : sid = call[t].sid /\ subject = call[t].subject /\ at = call[t].at
    OBVIOUS
  <2>1. SUFFICES ASSUME ~overlapped' PROVE Memory!Directory!Next
    OBVIOUS
  <2>2. /\ mPc[t] = "insert" /\ sid \in Sids /\ subject \in Subjects /\ UNCHANGED mAnswer
        /\ at \in Int
    BY <1>2, <2>0, InsertDoes DEF MemoryTyped
  <2>3. bySubject[subject] = call[t].bucket
    <3>1. UNCHANGED overlapped
      BY <1>2, InsertDoes
    <3> QED
      BY <2>0, <2>1, <2>2, <3>1 DEF Alone, AloneAt
  <2>4. ASSUME NEW s \in Subjects
        PROVE  DOMAIN Memory!Bucket(s)' = IF s = subject THEN DOMAIN Memory!Bucket(s) \cup {sid} ELSE DOMAIN Memory!Bucket(s)
    <3>1. Memory!Bucket(s) \in Records
      BY BucketTyped
    <3>2. Memory!Bucket(s)' = IF s = subject THEN Memory!Put(Memory!Bucket(s), sid, at) ELSE Memory!Bucket(s)
      BY <1>2, <2>0, <2>3, InsertDoes
    <3>3. DOMAIN Memory!Put(Memory!Bucket(s), sid, at) = DOMAIN Memory!Bucket(s) \cup {sid}
      BY <2>2, <3>1, PutRecords
    <3> QED
      BY <3>2, <3>3
  <2>5. Memory!Mapping'[sid] = subject
    BY <2>2, <2>4 DEF MapsRecords
  <2>6. \A x \in Sids \ {sid} : Memory!Mapping'[x] = Memory!Mapping[x]
    BY <2>4, MapKeptAt
  <2>7. Memory!Mapping' = [Memory!Mapping EXCEPT ![sid] = subject]
    BY <2>5, <2>6 DEF MapsRecords
  <2> QED
    BY <2>2, <2>7 DEF Memory!Directory!Next, Memory!Directory!Register
<1>3. ASSUME NEW t \in Threads, Memory!Remove(t) PROVE Memory!Directory!Next
  <2>0. PICK sid, owner : sid = call[t].sid /\ owner = call[t].owner
    OBVIOUS
  <2>d. Drops(t, sid, owner)
    BY <1>3, <2>0, RemoveDoes
  <2>1. /\ sid \in Sids /\ owner \in SubjectsOf[sid] /\ UNCHANGED mAnswer
        /\ \A s \in Subjects : DOMAIN Memory!Bucket(s)' = IF s = owner THEN DOMAIN Memory!Bucket(s) \ {sid} ELSE DOMAIN Memory!Bucket(s)
    BY <2>d DEF Drops
  <2>2. ASSUME NEW s \in Subjects PROVE sid \notin DOMAIN Memory!Bucket(s)'
    <3>1. CASE s = owner
      BY <2>1, <3>1
    <3>2. CASE s # owner
      <4>1. s \notin SubjectsOf[sid]
        BY <2>1, <3>2 DEF OneSubject
      <4>2. sid \notin DOMAIN Memory!Bucket(s)
        BY <4>1 DEF Removable
      <4> QED
        BY <2>1, <3>2, <4>2
    <3> QED
      BY <3>1, <3>2
  <2>3. Memory!Mapping'[sid] = NoSubject
    BY <2>1, <2>2 DEF MapsRecords
  <2>k. \A x \in Sids \ {sid} : Memory!Mapping'[x] = Memory!Mapping[x]
    BY <2>1, MapKeptAt
  <2>4. Memory!Mapping' = [x \in Sids |-> IF x \in {sid} THEN NoSubject ELSE Memory!Mapping[x]]
    BY <2>3, <2>k DEF MapsRecords
  <2>5. {sid} \in SUBSET Sids
    BY <2>1
  <2> QED
    BY <2>1, <2>4, <2>5 DEF Memory!Directory!Next, Memory!Directory!Deregister
<1>4. ASSUME NEW t \in Threads, Memory!Read(t) PROVE overlapped' \/ Memory!Directory!Next
  <2>0. PICK subject : subject = call[t].subject
    OBVIOUS
  <2>1. SUFFICES ASSUME ~overlapped' PROVE Memory!Directory!Next
    OBVIOUS
  <2>2. /\ mPc[t] = "read" /\ subject \in Subjects /\ mAnswer' = DOMAIN Memory!Held(t) /\ UNCHANGED overlapped
        /\ \A s \in Subjects : Memory!Bucket(s)' = Memory!Bucket(s)
    BY <1>4, <2>0, ReadDoes DEF Quiet
  <2>3. bySubject[subject] = call[t].bucket
    BY <2>0, <2>1, <2>2 DEF Alone, AloneAt
  <2>4. Memory!Held(t) = Memory!Bucket(subject)
    BY <2>0, <2>3 DEF Memory!Held, Memory!Bucket
  <2>5. mAnswer' = {sid \in Sids : Memory!Mapping[sid] = subject}
    BY <2>2, <2>4, BucketTyped DEF MapsRecords
  <2>6. Memory!Mapping' = Memory!Mapping
    BY <2>2, MapKept
  <2> QED
    BY <2>2, <2>5, <2>6 DEF Memory!Directory!Next, Memory!Directory!SessionsFor
<1>5. ASSUME NEW t \in Threads, NEW sid \in Sids, Memory!Deregister(t, sid)
      PROVE  UNCHANGED <<Memory!Mapping, mAnswer>>
  BY <1>1, <1>5, DeregisterDoes DEF Quiet
<1>6. ASSUME NEW t \in Threads, NEW sid \in Sids, NEW s \in SubjectsOf[sid], Memory!Register(t, sid, s)
      PROVE  UNCHANGED <<Memory!Mapping, mAnswer>>
  BY <1>1, <1>6, RegisterDoes
<1>7. ASSUME NEW t \in Threads, NEW s \in Subjects, Memory!SessionsFor(t, s)
      PROVE  UNCHANGED <<Memory!Mapping, mAnswer>>
  BY <1>1, <1>7, SessionsForDoes DEF Quiet
<1>8. ASSUME NEW t \in Threads, Memory!Clean(t) PROVE UNCHANGED <<Memory!Mapping, mAnswer>>
  BY <1>1, <1>8, CleanDoes
<1>9. ASSUME NEW t \in Threads, Memory!Iterate(t) \/ Memory!Scan(t) \/ Memory!Sweep(t) \/ Memory!Fetch(t)
      PROVE  UNCHANGED <<Memory!Mapping, mAnswer>>
  BY <1>1, <1>9, IterateDoes, ScanDoes, SweepDoes, FetchDoes DEF Sweeps, Quiet
<1>10. CASE Memory!Tick
  BY <1>1, <1>10, MemoryTickDoes
<1>11. CASE UNCHANGED Memory!vars
  BY <1>1, <1>11 DEF Memory!vars, Memory!Bucket
<1> QED
  BY <1>2, <1>3, <1>4, <1>5, <1>6, <1>7, <1>8, <1>9, <1>10, <1>11 DEF Memory!Next

-----------------------------------------------------------------------------
LEMMA MemoryInit ==
  ASSUME Memory!Init
  PROVE  /\ MemoryTyped /\ Removable /\ Unraced /\ Alone /\ Swept
         /\ Promised /\ LostEmpty /\ Kept
<1>1. /\ mNow = 0 /\ bySubject = [s \in Subjects |-> 0] /\ buckets = [s \in Subjects |-> <<>>]
      /\ sessionTo = [sid \in Sids |-> NoSubject]
      /\ mPc = [t \in Threads |-> "idle"] /\ call = [t \in Threads |-> Memory!NoCall]
      /\ errors = {}
  BY DEF Memory!Init
<1>2. \A s \in Subjects : Memory!Bucket(s) = Memory!Empty
  BY <1>1 DEF Memory!Bucket
<1>3. DOMAIN Memory!Empty = {}
  BY DEF Memory!Empty
<1>4. MemoryTyped
  <2>1. <<>> \in Seq(Records) /\ Len(<<>>) = 0
    BY EmptySeq, Zenon
  <2>2. \A s \in Subjects : buckets[s] = <<>> /\ bySubject[s] <= Len(buckets[s])
    BY <1>1, <2>1
  <2>3. buckets \in [Subjects -> Seq(Records)]
    BY <1>1, <2>1
  <2>4. \A t \in Threads : CallTyped(t)
    BY <1>1, NoCallTyped DEF CallTyped, HoldsBucket, Looking
  <2> QED
    BY <1>1, <2>2, <2>3, <2>4, NoCallTyped DEF MemoryTyped, Memory!Steps
<1>5. Removable
  BY <1>2, <1>3 DEF Removable
<1>6. Unraced
  BY <1>1, MemoryConstants DEF Unraced
<1>7. Alone /\ Swept
  BY <1>1 DEF Alone, AloneAt, Swept, SweptAt
<1>8. promised = [sid \in Sids |-> -1]
  BY DEF Memory!Init
<1>9. Promised
  BY <1>1, <1>8, NoCallAt DEF Promised, CallDated
<1>10. LostEmpty
  <2>1. \A s \in Subjects : Len(buckets[s]) = 0
    BY <1>1
  <2> QED
    BY <2>1 DEF LostEmpty
<1>11. Kept
  BY <1>8 DEF Kept, Memory!Due
<1> QED
  BY <1>4, <1>5, <1>6, <1>7, <1>9, <1>10, <1>11

(* Either backend or none takes a step, so a run of the pod's store is a   *)
(* run of each.                                                            *)
LEMMA RunsBoth == StoreSpec => Spec /\ Memory!Spec
<1>1. StoreInit => Init /\ Memory!Init
  BY DEF StoreInit
<1>2. [StoreNext]_<<backend, memory, vars>> => [Next]_vars /\ [Memory!Next]_Memory!vars
  BY DEF StoreNext, MemoryCall, RedisCall, memory, Memory!vars
<1> QED
  BY <1>1, <1>2, PTL DEF StoreSpec, Spec, Memory!Spec

(* A record that lookups return can be deregistered, now and by the sweep, *)
(* when every session is registered under one subject.                     *)
THEOREM RecordsRemovableHolds ==
  ASSUME OneSubject
  PROVE  StoreSpec => []RecordsRemovable
<1>1. Removable => RecordsRemovable
  BY DEF Removable, RecordsRemovable, Memory!RecordsRemovable, Memory!AtRest
<1>2. MemoryTyped /\ Removable /\ [Memory!Next]_Memory!vars => MemoryTyped' /\ Removable'
  BY NextMemoryTyped, NextRemovable
<1> QED
  BY <1>1, <1>2, MemoryInit, RunsBoth, PTL DEF Memory!Spec

(* A session whose register call returned is found until a caller          *)
(* deregisters it or its TTL is over, in every order of steps but the      *)
(* three that raced records, when every session has one subject.           *)
THEOREM RegisteredUnlessRacedHolds ==
  ASSUME OneSubject
  PROVE  StoreSpec => []RegisteredUnlessRaced
<1>1. Kept => RegisteredUnlessRaced
  BY DEF Kept, KeptIn, RegisteredUnlessRaced, Memory!RegisteredUnlessRaced, Memory!RegisteredIsFound
<1>2. /\ MemoryTyped /\ Removable /\ Unraced /\ LostEmpty /\ Promised /\ Kept /\ [Memory!Next]_Memory!vars
      => MemoryTyped' /\ Removable' /\ Unraced' /\ LostEmpty' /\ Promised' /\ Kept'
  BY NextMemoryTyped, NextRemovable, NextUnraced, NextLostEmpty, NextPromised, NextKept
<1> QED
  BY <1>1, <1>2, MemoryInit, RunsBoth, PTL DEF Memory!Spec

(* As long as calls have not overlapped, none raises.                      *)
THEOREM NoErrorUnlessOverlappedHolds == StoreSpec => []NoErrorUnlessOverlapped
<1>1. Alone => NoErrorUnlessOverlapped
  BY DEF Alone, NoErrorUnlessOverlapped, Memory!NoErrorUnlessOverlapped
<1>2. MemoryTyped /\ Alone /\ [Memory!Next]_Memory!vars => MemoryTyped' /\ Alone'
  BY NextMemoryTyped, NextAlone
<1> QED
  BY <1>1, <1>2, MemoryInit, RunsBoth, PTL DEF Memory!Spec

(* The parts of the invariant in one: none is lost by a step.              *)
LEMMA NextMemoryInv ==
  ASSUME OneSubject
  PROVE  MemoryTyped /\ Removable /\ Alone /\ Swept /\ [Memory!Next]_Memory!vars
         => MemoryTyped' /\ Removable' /\ Alone' /\ Swept'
  BY NextMemoryTyped, NextRemovable, NextAlone, NextSwept

(* As long as calls have not overlapped, no lookup returns a record that   *)
(* had expired when it began.                                              *)
THEOREM NoExpiredAnswerHolds ==
  ASSUME OneSubject
  PROVE  StoreSpec => NoExpiredAnswer
<1>1. ASSUME MemoryTyped, Alone, Swept, NEW t \in Threads, Memory!Read(t), ~overlapped
      PROVE  \A sid \in DOMAIN Memory!Held(t) : Memory!Held(t)[sid] >= call[t].cutoff
  <2>1. mPc[t] = "read" /\ call[t].sweeping /\ call[t].subject \in Subjects
    BY <1>1, ReadDoes
  <2>2. PICK s \in Subjects : s = call[t].subject
    BY <2>1
  <2>3. Memory!Held(t) = Memory!Bucket(s)
    BY <1>1, <2>1, <2>2 DEF Alone, AloneAt, Memory!Held, Memory!Bucket
  <2>4. \A sid \in DOMAIN Memory!Bucket(s) : Memory!Bucket(s)[sid] \in Int /\ ~(Memory!Bucket(s)[sid] < call[t].cutoff)
    BY <1>1, <2>1, <2>2, BucketTyped DEF Swept, SweptAt
  <2>5. call[t].cutoff \in Int
    BY <1>1 DEF MemoryTyped, Calls
  <2> QED
    BY <2>3, <2>4, <2>5
<1> DEFINE A == \A t \in Threads : Memory!Read(t) /\ ~overlapped =>
                   \A sid \in DOMAIN Memory!Held(t) : Memory!Held(t)[sid] >= call[t].cutoff
<1>2. MemoryTyped /\ Alone /\ Swept => A
  BY <1>1
<1>3. NoExpiredAnswer <=> [][A]_Memory!vars
  BY DEF NoExpiredAnswer, Memory!NoExpiredAnswer
<1> HIDE DEF A
<1> QED
  BY <1>2, <1>3, MemoryInit, NextMemoryInv, RunsBoth, PTL DEF Memory!Spec

(* "Same semantics": on either backend the store is the atomic map of      *)
(* SessionDirectory; on the dictionaries, as long as calls have not        *)
(* overlapped.                                                             *)
THEOREM EitherImplementsDirectoryHolds ==
  ASSUME OneSubject
  PROVE  StoreSpec => EitherImplementsDirectory
<1>1. MemoryTyped /\ Removable => MapsRecords
  BY RecordsMapped
<1>2. /\ MemoryTyped /\ Removable /\ Alone /\ MapsRecords /\ MapsRecords' /\ [Memory!Next]_Memory!vars
      => [overlapped' \/ Memory!Directory!Next]_<<Memory!Mapping, mAnswer>>
  BY NextMapped
<1>3. Memory!Init => Memory!Directory!Init
  <2> SUFFICES ASSUME Memory!Init PROVE Memory!Directory!Init
    OBVIOUS
  <2>1. \A s \in Subjects : DOMAIN Memory!Bucket(s) = {}
    BY DEF Memory!Init, Memory!Bucket, Memory!Empty
  <2>2. Memory!Mapping = [sid \in Sids |-> NoSubject] /\ mAnswer = {}
    BY <2>1 DEF Memory!Mapping, Memory!Init
  <2> QED
    BY <2>2 DEF Memory!Directory!Init
<1>4. Memory!Spec => Memory!ImplementsDirectory
  BY <1>1, <1>2, <1>3, MemoryInit, NextMemoryInv, PTL DEF Memory!Spec, Memory!ImplementsDirectory
<1> QED
  BY <1>4, RunsBoth, RedisImplementsDirectory, PTL DEF EitherImplementsDirectory

-----------------------------------------------------------------------------
(* What SessionIndex says of types beyond MemoryTyped: no record, in a     *)
(* bucket that lookups read or in one that only a thread holds, is dated   *)
(* ahead of the clock.                                                     *)
Dated ==
    \A s \in Subjects : \A i \in 1 .. Len(buckets[s]) : \A sid \in DOMAIN buckets[s][i] :
        buckets[s][i][sid] <= mNow

Bounded ==
    /\ mNow <= MemoryMaxTime
    /\ mAnswer \subseteq Sids
    /\ errors \subseteq {"KeyError", "RuntimeError"}
    /\ registers \in 0 .. MaxRegisters
    /\ raced \in BOOLEAN /\ overlapped \in BOOLEAN

(* One bucket is replaced by one without a later date. *)
LEMMA DatedReplaced ==
  ASSUME MemoryTyped, Dated, NEW s \in Subjects, NEW i \in 1 .. Len(buckets[s]), NEW b \in Records,
         Replaces(s, i, b), \A sid \in DOMAIN b : b[sid] <= mNow, UNCHANGED mNow
  PROVE  Dated'
<1> DEFINE seq == [buckets[s] EXCEPT ![i] = b]
<1>1. buckets \in [Subjects -> Seq(Records)]
  BY DEF MemoryTyped
<1>2. buckets' = [buckets EXCEPT ![s] = seq]
  BY DEF Replaces
<1>3. /\ Len(seq) = Len(buckets[s])
      /\ \A j \in 1 .. Len(buckets[s]) : seq[j] = IF j = i THEN b ELSE buckets[s][j]
  BY <1>1, ExceptSeq
<1> HIDE DEF seq
<1>4. buckets'[s] = seq /\ \A r \in Subjects \ {s} : buckets'[r] = buckets[r]
  BY <1>1, <1>2
<1>5. ASSUME NEW r \in Subjects, NEW j \in 1 .. Len(buckets'[r]), NEW sid \in DOMAIN buckets'[r][j]
      PROVE  buckets'[r][j][sid] <= mNow
  <2>1. CASE r = s /\ j = i
    BY <1>3, <1>4, <1>5, <2>1
  <2>2. CASE ~(r = s /\ j = i)
    <3>1. j \in 1 .. Len(buckets[r]) /\ buckets'[r][j] = buckets[r][j]
      BY <1>3, <1>4, <1>5, <2>2
    <3> QED
      BY <1>5, <3>1 DEF Dated
  <2> QED
    BY <2>1, <2>2
<1> QED
  BY <1>5 DEF Dated

LEMMA NextDated ==
  ASSUME MemoryTyped, Promised, Dated, [Memory!Next]_Memory!vars
  PROVE  Dated'
<1>1. ASSUME UNCHANGED <<mNow, buckets>> PROVE Dated'
  BY <1>1 DEF Dated
<1>2. ASSUME NEW t \in Threads, NEW sid \in Sids, NEW s \in SubjectsOf[sid], Memory!Register(t, sid, s)
      PROVE  Dated'
  <2>1. s \in Subjects /\ buckets \in [Subjects -> Seq(Records)]
    BY MemoryConstants DEF MemoryTyped
  <2>2. /\ UNCHANGED mNow
        /\ buckets' = IF bySubject[s] = 0 THEN [buckets EXCEPT ![s] = Append(@, Memory!Empty)] ELSE buckets
    BY <1>2 DEF Memory!Register
  <2>3. CASE bySubject[s] # 0
    BY <1>1, <2>2, <2>3
  <2>4. CASE bySubject[s] = 0
    <3>1. PICK seq : seq = Append(buckets[s], Memory!Empty)
      OBVIOUS
    <3>2. /\ Len(buckets[s]) \in Nat /\ Len(seq) = Len(buckets[s]) + 1
          /\ \A i \in 1 .. Len(buckets[s]) : seq[i] = buckets[s][i]
          /\ seq[Len(buckets[s]) + 1] = Memory!Empty
      BY <2>1, <3>1, EmptyIsRecords, AppendProperties, LenProperties
    <3>3. buckets'[s] = seq /\ \A r \in Subjects \ {s} : buckets'[r] = buckets[r]
      BY <2>1, <2>2, <2>4, <3>1
    <3>4. DOMAIN Memory!Empty = {}
      BY DEF Memory!Empty
    <3>5. ASSUME NEW r \in Subjects, NEW j \in 1 .. Len(buckets'[r]), NEW x \in DOMAIN buckets'[r][j]
          PROVE  buckets'[r][j][x] <= mNow
      <4>1. j \in 1 .. Len(buckets[r]) /\ buckets'[r][j] = buckets[r][j]
        <5>1. CASE r # s
          BY <3>3, <3>5, <5>1
        <5>2. CASE r = s
          <6>1. j \in 1 .. Len(seq) /\ seq[j] = buckets'[r][j]
            BY <3>3, <3>5, <5>2
          <6>2. j # Len(buckets[s]) + 1
            BY <3>2, <3>4, <3>5, <6>1
          <6>3. j \in 1 .. Len(buckets[s])
            BY <3>2, <6>1, <6>2
          <6> QED
            BY <3>2, <5>2, <6>1, <6>3
        <5> QED
          BY <5>1, <5>2
      <4> QED
        BY <3>5, <4>1 DEF Dated
    <3> QED
      BY <2>2, <3>5 DEF Dated
  <2> QED
    BY <2>3, <2>4
<1>3. ASSUME NEW t \in Threads, Memory!Insert(t) PROVE Dated'
  <2>0. PICK sid, s, i, at, b : /\ sid = call[t].sid /\ s = call[t].subject /\ i = call[t].bucket
                               /\ at = call[t].at /\ b = Memory!Put(buckets[s][i], sid, at)
    OBVIOUS
  <2>1. mPc[t] = "insert" /\ Replaces(s, i, b) /\ UNCHANGED mNow
    BY <1>3, <2>0 DEF Memory!Insert, Replaces
  <2>2. CallTyped(t) /\ mNow \in Int /\ at \in Int /\ at <= mNow
    BY <2>0 DEF MemoryTyped, Promised, CallDated
  <2>3. sid \in Sids /\ s \in Subjects /\ i \in 1 .. Len(buckets[s])
    BY <2>0, <2>1, <2>2, MemoryConstants DEF CallTyped
  <2>4. buckets[s][i] \in Records
    BY <2>3, ElementOfSeq DEF MemoryTyped
  <2>5. b \in Records
    BY <2>0, <2>2, <2>3, <2>4, PutRecords
  <2>6. ASSUME NEW x \in DOMAIN b PROVE b[x] <= mNow
    <3>1. \A y \in DOMAIN buckets[s][i] : buckets[s][i][y] <= mNow
      BY <2>3 DEF Dated
    <3>2. b[x] = at \/ (x \in DOMAIN buckets[s][i] /\ b[x] = buckets[s][i][x])
      BY <2>0, <2>6 DEF Memory!Put
    <3> QED
      BY <2>2, <3>1, <3>2
  <2> QED
    BY <2>1, <2>3, <2>5, <2>6, DatedReplaced
<1>4. ASSUME NEW t \in Threads, Memory!Remove(t) PROVE Dated'
  <2>0. PICK sid, s, i, b : /\ sid = call[t].sid /\ s = call[t].owner /\ i = bySubject[s]
                           /\ b = Memory!Without(buckets[s][i], sid)
    OBVIOUS
  <2>1. /\ mPc[t] = "remove" /\ UNCHANGED mNow
        /\ UNCHANGED buckets \/ (i # 0 /\ Replaces(s, i, b))
    BY <1>4, <2>0 DEF Memory!Remove, Replaces
  <2>2. CallTyped(t)
    BY DEF MemoryTyped
  <2>3. s \in Subjects
    BY <2>0, <2>1, <2>2, MemoryConstants DEF CallTyped
  <2>4. buckets[s] \in Seq(Records) /\ i \in Nat /\ i <= Len(buckets[s]) /\ Len(buckets[s]) \in Nat
    BY <2>0, <2>3, LenProperties DEF MemoryTyped
  <2>5. CASE UNCHANGED buckets
    BY <1>1, <2>1, <2>5
  <2>6. CASE i # 0 /\ Replaces(s, i, b)
    <3>0. i \in 1 .. Len(buckets[s])
      BY <2>4, <2>6
    <3>1. buckets[s][i] \in Records
      BY <2>4, <3>0, ElementOfSeq
    <3>2. b \in Records /\ \A x \in DOMAIN b : x \in DOMAIN buckets[s][i] /\ b[x] = buckets[s][i][x]
      <4>1. PICK bucket \in Records : bucket = buckets[s][i]
        BY <3>1
      <4>2. b = Memory!Without(bucket, sid)
        BY <2>0, <4>1
      <4>3. /\ Memory!Without(bucket, sid) \in Records
            /\ DOMAIN Memory!Without(bucket, sid) = DOMAIN bucket \ {sid}
            /\ \A x \in DOMAIN bucket \ {sid} : Memory!Without(bucket, sid)[x] = bucket[x]
        BY <4>1, WithoutRecords
      <4> QED
        BY <4>1, <4>2, <4>3
    <3>3. \A x \in DOMAIN b : b[x] <= mNow
      BY <2>3, <3>0, <3>2 DEF Dated
    <3> QED
      BY <2>1, <2>3, <2>6, <3>0, <3>2, <3>3, DatedReplaced
  <2> QED
    BY <2>1, <2>5, <2>6
<1>5. ASSUME Memory!Tick PROVE Dated'
  <2>1. mNow' = mNow + 1 /\ UNCHANGED buckets /\ mNow \in Nat /\ buckets \in [Subjects -> Seq(Records)]
    BY <1>5 DEF Memory!Tick, Memory!store, MemoryTyped
  <2>2. ASSUME NEW s \in Subjects, NEW i \in 1 .. Len(buckets[s]), NEW sid \in DOMAIN buckets[s][i]
        PROVE  buckets[s][i][sid] <= mNow + 1
    <3>1. buckets[s][i] \in Records
      BY <2>1, ElementOfSeq
    <3>2. buckets[s][i][sid] \in Int
      BY <2>2, <3>1 DEF Records
    <3> QED
      BY <2>1, <2>2, <3>2 DEF Dated
  <2> QED
    BY <2>1, <2>2 DEF Dated
<1>6. ASSUME NEW t \in Threads, Memory!Clean(t) PROVE Dated'
  BY <1>1, <1>6 DEF Memory!Clean
<1>7. ASSUME UNCHANGED Memory!vars PROVE Dated'
  BY <1>1, <1>7 DEF Memory!vars
<1> QED
  BY <1>1, <1>2, <1>3, <1>4, <1>5, <1>6, <1>7, DeregisterDoes, SessionsForDoes, IterateDoes, ScanDoes,
     SweepDoes, FetchDoes, ReadDoes DEF Sweeps, Quiet, Memory!Next

LEMMA NextBounded ==
  ASSUME MemoryTyped, Bounded, [Memory!Next]_Memory!vars
  PROVE  Bounded'
<1>1. ASSUME UNCHANGED <<mNow, mAnswer, errors, registers, raced, overlapped>> PROVE Bounded'
  BY <1>1 DEF Bounded
<1>2. ASSUME UNCHANGED <<mNow, mAnswer, registers, raced>>, NEW t, NEW step, Memory!Begin(t, step), UNCHANGED errors
      PROVE  Bounded'
  <2>1. overlapped' \in BOOLEAN
    BY <1>2, Zenon DEF Memory!Begin
  <2> QED
    BY <1>2, <2>1 DEF Bounded
<1>3. ASSUME NEW t \in Threads, NEW sid \in Sids, NEW s \in SubjectsOf[sid], Memory!Register(t, sid, s)
      PROVE  Bounded'
  <2>1. /\ registers < MaxRegisters /\ registers' = registers + 1 /\ Memory!Begin(t, "insert")
        /\ UNCHANGED <<mNow, mAnswer, errors>>
    BY <1>3 DEF Memory!Register
  <2>2. overlapped' \in BOOLEAN /\ raced' = raced
    BY <2>1, Zenon DEF Memory!Begin
  <2>3. registers' \in 0 .. MaxRegisters
    BY <2>1, CorrelationStoreAssumption DEF Bounded
  <2> QED
    BY <2>1, <2>2, <2>3 DEF Bounded
<1>4. ASSUME NEW t \in Threads, NEW sid \in Sids, Memory!Deregister(t, sid) PROVE Bounded'
  BY <1>2, <1>4 DEF Memory!Deregister, Memory!TakeReverse, Memory!Begin
<1>5. ASSUME NEW t \in Threads, NEW s \in Subjects, Memory!SessionsFor(t, s) PROVE Bounded'
  BY <1>2, <1>5 DEF Memory!SessionsFor, Memory!Begin
<1>6. ASSUME NEW t \in Threads, Memory!Insert(t) PROVE Bounded'
  <2>1. raced' \in BOOLEAN
    BY <1>6, Zenon DEF Memory!Insert
  <2> QED
    BY <1>6, <2>1 DEF Memory!Insert, Bounded
<1>7. ASSUME NEW t \in Threads, Memory!Clean(t) PROVE Bounded'
  <2>1. /\ UNCHANGED <<mNow, mAnswer, registers, overlapped>>
        /\ errors' = errors \/ errors' = errors \cup {"KeyError"}
        /\ raced' = raced \/ raced' = (raced \/ Memory!Orphans(call[t].owner))
    BY <1>7 DEF Memory!Clean, Memory!Raise
  <2>2. raced' \in BOOLEAN
    BY <2>1, Zenon DEF Bounded
  <2> QED
    BY <2>1, <2>2 DEF Bounded
<1>8. ASSUME NEW t \in Threads, Memory!Scan(t) PROVE Bounded'
  BY <1>8 DEF Memory!Scan, Memory!Raise, Memory!history, Bounded
<1>9. ASSUME NEW t \in Threads, Memory!Read(t) PROVE Bounded'
  <2>1. mPc[t] = "read" /\ mAnswer' = DOMAIN Memory!Held(t)
        /\ UNCHANGED <<mNow, errors, registers, raced, overlapped>>
    BY <1>9 DEF Memory!Read, Memory!history
  <2>2. DOMAIN Memory!Held(t) \subseteq Sids
    BY <2>1, HeldTyped DEF Looking
  <2> QED
    BY <2>1, <2>2 DEF Bounded
<1>10. ASSUME Memory!Tick PROVE Bounded'
  BY <1>10, CorrelationStoreAssumption DEF Memory!Tick, Memory!history, Bounded, MemoryTyped
<1>11. ASSUME NEW t \in Threads, Memory!Remove(t) \/ Memory!Iterate(t) \/ Memory!Sweep(t) \/ Memory!Fetch(t)
       PROVE  Bounded'
  BY <1>1, <1>11 DEF Memory!Remove, Memory!Iterate, Memory!Sweep, Memory!Fetch, Memory!TakeReverse, Memory!history
<1>12. ASSUME UNCHANGED Memory!vars PROVE Bounded'
  BY <1>1, <1>12 DEF Memory!vars
<1> QED
  BY <1>3, <1>4, <1>5, <1>6, <1>7, <1>8, <1>9, <1>10, <1>11, <1>12 DEF Memory!Next

(* Together they are the types that SessionIndex states. *)
LEMMA MemoryTypes ==
  ASSUME Sids # {}, MemoryTyped, Promised, Dated, Bounded
  PROVE  Memory!TypeOK
<1>1. mNow \in 0 .. MemoryMaxTime
  BY CorrelationStoreAssumption DEF MemoryTyped, Bounded
<1>2. ASSUME NEW s \in Subjects
      PROVE  /\ bySubject[s] \in 0 .. Len(buckets[s])
             /\ DOMAIN buckets[s] = 1 .. Len(buckets[s])
             /\ \A i \in 1 .. Len(buckets[s]) : DOMAIN buckets[s][i] \subseteq Sids
  <2>1. buckets[s] \in Seq(Records) /\ bySubject[s] \in Nat /\ bySubject[s] <= Len(buckets[s])
    BY DEF MemoryTyped
  <2>2. Len(buckets[s]) \in Nat /\ DOMAIN buckets[s] = 1 .. Len(buckets[s])
    BY <2>1, LenProperties
  <2>3. ASSUME NEW i \in 1 .. Len(buckets[s]) PROVE DOMAIN buckets[s][i] \subseteq Sids
    <3>1. buckets[s][i] \in Records
      BY <2>1, ElementOfSeq
    <3> QED
      BY <3>1 DEF Records
  <2> QED
    BY <2>1, <2>2, <2>3
<1>3. ASSUME NEW t \in Threads
      PROVE  /\ call[t].sid \in Sids /\ call[t].expired \subseteq Sids
             /\ mPc[t] \in {"remove", "clean"} => call[t].owner \in Subjects
             /\ mPc[t] \notin {"idle", "remove", "clean"} => call[t].subject \in Subjects
  <2>1. call[t] \in Calls /\ CallTyped(t) /\ mPc[t] \in Memory!Steps
    BY DEF MemoryTyped
  <2>2. Memory!NoCall.sid \in Sids
    BY DEF Memory!NoCall
  <2> QED
    BY <2>1, <2>2, MemoryConstants DEF Calls, CallTyped, HoldsBucket, Looking, Memory!Steps
<1>4. sessionTo \in [Sids -> Subjects \cup {NoSubject}] /\ mPc \in [Threads -> Memory!Steps]
  BY DEF MemoryTyped
<1> QED
  BY <1>1, <1>2, <1>3, <1>4 DEF Memory!TypeOK, Promised, Dated, Bounded

(* Both stores' state has its types on whatever backend the pod runs.      *)
THEOREM StoreTyping ==
  ASSUME Sids # {}
  PROVE  StoreSpec => []StoreTypeOK
<1>1. Memory!Init => Dated /\ Bounded
  <2> SUFFICES ASSUME Memory!Init PROVE Dated /\ Bounded
    OBVIOUS
  <2>1. \A s \in Subjects : buckets[s] = <<>>
    BY DEF Memory!Init
  <2>2. \A s \in Subjects : Len(buckets[s]) = 0
    BY <2>1
  <2>3. Dated
    BY <2>2 DEF Dated
  <2>4. MemoryMaxTime \in Nat /\ MaxRegisters \in Nat
    BY CorrelationStoreAssumption
  <2>5. /\ mNow = 0 /\ mAnswer = {} /\ errors = {} /\ registers = 0
        /\ raced = FALSE /\ overlapped = FALSE
    BY DEF Memory!Init
  <2>6. raced \in BOOLEAN /\ overlapped \in BOOLEAN
    BY <2>5, Zenon
  <2>7. Bounded
    BY <2>4, <2>5, <2>6 DEF Bounded
  <2> QED
    BY <2>3, <2>7
<1>2. /\ MemoryTyped /\ Promised /\ Dated /\ Bounded /\ [Memory!Next]_Memory!vars
      => MemoryTyped' /\ Promised' /\ Dated' /\ Bounded'
  BY NextMemoryTyped, NextPromised, NextDated, NextBounded
<1>3. MemoryTyped /\ Promised /\ Dated /\ Bounded => Memory!TypeOK
  BY MemoryTypes
<1> QED
  BY <1>1, <1>2, <1>3, MemoryInit, RunsBoth, Typing, PTL DEF Memory!Spec, StoreTypeOK
=============================================================================
