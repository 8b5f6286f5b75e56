--------------------------- MODULE CorrelationStore ---------------------------
(***************************************************************************)
(* The correlation store of a pod: STORE_BACKEND picks one of the two, and *)
(* the other is never built.  The variables of RedisIndex are taken over,  *)
(* those of SessionIndex are declared again under the names below; a store *)
(* that is not built stays as it is at first, where its invariants hold.   *)
(***************************************************************************)
EXTENDS RedisIndex, Sequences, FiniteSets

CONSTANTS
    SubjectsOf,    \* SessionIndex: subjects a session is registered under
    Api,           \* SessionIndex: the threads that serve the API
    MemoryTtl, MemoryMaxTime, MaxRegisters

VARIABLES
    backend,       \* store_backend
    mNow, bySubject, buckets, sessionTo, mPc, call, mAnswer, errors, registers,
    promised, raced, overlapped

memory == <<mNow, bySubject, buckets, sessionTo, mPc, call, mAnswer, errors, registers,
            promised, raced, overlapped>>

Memory == INSTANCE SessionIndex WITH
              now <- mNow, pc <- mPc, answer <- mAnswer, Ttl <- MemoryTtl, MaxTime <- MemoryMaxTime

ASSUME CorrelationStoreAssumption ==
    /\ SubjectsOf \in [Sids -> SUBSET Subjects]
    /\ Api \subseteq Threads
    /\ {MemoryTtl, MemoryMaxTime, MaxRegisters} \subseteq Nat

(* build_default_correlation_store. *)
StoreInit ==
    /\ backend \in {"memory", "redis"}
    /\ Init
    /\ Memory!Init

MemoryCall == backend = "memory" /\ Memory!Next /\ UNCHANGED <<backend, vars>>

RedisCall == backend = "redis" /\ Next /\ UNCHANGED <<backend, memory>>

StoreNext == MemoryCall \/ RedisCall

StoreSpec == StoreInit /\ [][StoreNext]_<<backend, memory, vars>>

-----------------------------------------------------------------------------
(* The types of both stores' state. *)
StoreTypeOK == Memory!TypeOK /\ TypeOK

(* What SessionIndex says of the dictionaries: a record that lookups       *)
(* return can be deregistered, now and by the sweep.                       *)
RecordsRemovable == Memory!RecordsRemovable

(* A session whose register call returned is found until a caller          *)
(* deregisters it or it expires, three orders of steps of two threads      *)
(* excepted.                                                               *)
RegisteredUnlessRaced == Memory!RegisteredUnlessRaced

(* As long as calls have not overlapped: none raises ...                   *)
NoErrorUnlessOverlapped == Memory!NoErrorUnlessOverlapped

(* ... and no lookup returns what had expired when it began.               *)
NoExpiredAnswer == Memory!NoExpiredAnswer

(* "Same semantics" (RedisCorrelationStore): on either backend the store   *)
(* is the one atomic map of SessionDirectory; on the dictionaries, as long *)
(* as calls have not overlapped.                                           *)
EitherImplementsDirectory == Memory!ImplementsDirectory /\ ImplementsDirectory
=============================================================================
