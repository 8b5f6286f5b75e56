----------------------------- MODULE PollerProofs -----------------------------
(* Proofs about Poller and the memory replay store under it, for any       *)
(* threads, SETs and faults: what the transmitter drops was dispatched,    *)
(* a mark is passed a second time only when it had lapsed, and a cycle     *)
(* leaves only what verification refuses.                                  *)
EXTENDS Poller, FiniteSetTheorems, TLAPS

(* What the assumptions say of the constants. *)
LEMMA Constants ==
    /\ IsFiniteSet(Jtis) /\ Jtis # {}
    /\ Ttl \in Nat /\ MaxTime \in Nat /\ MaxFaults \in Nat /\ MaxPushes \in Nat
    /\ Poll \in Threads /\ Polled \subseteq Jtis
  BY MemoryReplayAssumption, PollerAssumption

LEMMA NoCallTyped == NoCall \in Calls
<1>1. (CHOOSE j \in Jtis : TRUE) \in Jtis
  BY Constants
<1>2. 0 \in 0 .. MaxTime /\ 0 \in Nat
  BY Constants
<1> QED
  BY <1>1, <1>2 DEF Calls, NoCall

(* The steps of the store keep its types. *)
LEMMA CheckTypes ==
  ASSUME StoreTypeOK, NEW t \in Threads, NEW j \in Jtis, Check(t, j)
  PROVE  StoreTypeOK'
<1>1. [jti |-> j, cutoff |-> now, size |-> 0, expired |-> {}] \in Calls
  BY DEF StoreTypeOK, Calls
<1> QED
  BY <1>1 DEF Check, Goto, StoreTypeOK, Sweeping

LEMMA ResumeTypes ==
  ASSUME StoreTypeOK, NEW t \in Threads, Resume(t)
  PROVE  StoreTypeOK'
  BY NoCallTyped DEF Resume, Goto, StoreTypeOK

LEMMA GuardTypes ==
  ASSUME StoreTypeOK, NEW t \in Threads, GuardStep(t)
  PROVE  StoreTypeOK'
<1> USE Constants DEF StoreTypeOK, Goto, Sweeping, Ended
<1>1. CASE Iterate(t)
  <2>1. Cardinality(DOMAIN marks) \in Nat
    BY FS_Subset, FS_CardinalityType
  <2>2. [call[t] EXCEPT !.size = Cardinality(DOMAIN marks)] \in Calls
    BY <2>1 DEF Calls
  <2> QED
    BY <1>1, <2>2 DEF Iterate
<1>2. CASE Scan(t)
  <2>1. [call[t] EXCEPT !.expired = Expired(call[t].cutoff)] \in Calls
    BY DEF Calls, Expired
  <2> QED
    BY <1>2, <2>1 DEF Scan
<1>3. CASE Delete(t)
  <2>1. PICK j \in call[t].expired :
          \/ /\ marks' = [k \in DOMAIN marks \ {j} |-> marks[k]]
             /\ call' = [call EXCEPT ![t].expired = @ \ {j}]
             /\ UNCHANGED pc
          \/ /\ pc' = [pc EXCEPT ![t] = "raised"]
             /\ call' = [call EXCEPT ![t].expired = {}]
             /\ UNCHANGED marks
    BY <1>3 DEF Delete
  <2>2. [call[t] EXCEPT !.expired = @ \ {j}] \in Calls /\ [call[t] EXCEPT !.expired = {}] \in Calls
    BY DEF Calls
  <2>3. call' \in [Threads -> Calls] /\ pc' \in [Threads -> {"idle", "look", "mark"} \cup Sweeping \cup Ended]
    BY <2>1, <2>2
  <2>4. DOMAIN marks' \subseteq Jtis /\ \A k \in DOMAIN marks' : marks'[k] \in 0 .. MaxTime + Ttl
    BY <2>1
  <2> QED
    BY <1>3, <2>3, <2>4 DEF Delete
<1>4. CASE Swept(t)
  BY <1>4 DEF Swept
<1>5. CASE Look(t)
  BY <1>5 DEF Look
<1>6. CASE Mark(t)
  <2>1. call[t].jti \in Jtis
    BY DEF Calls
  <2>2. now + Ttl \in 0 .. MaxTime + Ttl
    OBVIOUS
  <2>3. DOMAIN marks' \subseteq Jtis /\ \A j \in DOMAIN marks' : marks'[j] \in 0 .. MaxTime + Ttl
    BY <1>6, <2>1, <2>2 DEF Mark
  <2> QED
    BY <1>6, <2>1, <2>3 DEF Mark
<1> QED
  BY <1>1, <1>2, <1>3, <1>4, <1>5, <1>6 DEF GuardStep

LEMMA CrashTypes == ASSUME StoreTypeOK, StoreCrash PROVE StoreTypeOK'
  BY NoCallTyped DEF StoreTypeOK, StoreCrash

LEMMA TickTypes == ASSUME StoreTypeOK, StoreTick PROVE StoreTypeOK'
<1>1. now' \in 0 .. MaxTime
  BY Constants DEF StoreTypeOK, StoreTick
<1> QED
  BY <1>1 DEF StoreTypeOK, StoreTick

LEMMA StoreStays == ASSUME StoreTypeOK, UNCHANGED store PROVE StoreTypeOK'
  BY DEF StoreTypeOK, store

-----------------------------------------------------------------------------
(* The variables of the poller. *)
PollerTypeOK ==
    /\ issued \in Seq(Polled)
    /\ pending \subseteq Polled /\ batch \subseteq pending /\ acked \subseteq pending \ batch
    /\ iat \in [Polled -> 0 .. MaxTime]
    /\ polling \in BOOLEAN
    /\ fetched \subseteq Polled /\ failed \subseteq Polled
    /\ dispatched \subseteq Jtis /\ broken \subseteq Jtis
    /\ faults \in 0 .. MaxFaults /\ pushes \in 0 .. MaxPushes

(* The polling thread works on a SET of the batch; no other on a polled    *)
(* one.                                                                    *)
Engaged ==
    /\ pc[Poll] # "idle" => polling /\ call[Poll].jti \in batch
    /\ \A t \in Threads \ {Poll} : pc[t] # "idle" => call[t].jti \notin Polled

LEMMA FaultTypes == TypeOK /\ Fault => faults' \in 0 .. MaxFaults
<1> SUFFICES ASSUME TypeOK, Fault PROVE faults' \in 0 .. MaxFaults
  OBVIOUS
<1>1. faults \in 0 .. MaxFaults /\ faults < MaxFaults /\ faults' = faults + 1 /\ MaxFaults \in Nat
  BY Constants DEF TypeOK, Fault
<1> QED
  BY ONLY <1>1

(* Every step keeps the types. *)
LEMMA NextTypeOK == TypeOK /\ Engaged /\ [Next]_vars => TypeOK'
<1> SUFFICES ASSUME TypeOK, Engaged, [Next]_vars PROVE TypeOK'
  OBVIOUS
<1>t. StoreTypeOK /\ PollerTypeOK
  BY DEF TypeOK, PollerTypeOK
<1>q. StoreTypeOK' /\ PollerTypeOK' => TypeOK'
  BY DEF TypeOK, PollerTypeOK
<1>j. \A t \in Threads : call[t].jti \in Jtis
  BY <1>t DEF StoreTypeOK, Calls
<1> USE Constants, <1>t, <1>q DEF PollerTypeOK, delivery, cycle, outcome, bounds
<1>1. ASSUME NEW j \in Polled, Transmitter(j) PROVE TypeOK'
  <2>1. StoreTypeOK'
    BY <1>1, StoreStays DEF Transmitter
  <2>2. iat' \in [Polled -> 0 .. MaxTime]
    BY <1>1, <1>t DEF Transmitter, StoreTypeOK
  <2> QED
    BY <1>1, <2>1, <2>2 DEF Transmitter
<1>2. CASE Fetch
  <2>1. StoreTypeOK'
    BY <1>2, StoreStays DEF Fetch
  <2> QED
    BY <1>2, <2>1 DEF Fetch
<1>3. ASSUME NEW j \in Polled, HandlerRefuses(j) PROVE TypeOK'
  <2>1. StoreTypeOK'
    BY <1>3, StoreStays DEF HandlerRefuses
  <2> QED
    BY <1>3, <2>1 DEF HandlerRefuses, Answered, Takes
<1>4. ASSUME NEW j \in Polled, HandlerFails(j) PROVE TypeOK'
  <2>1. StoreTypeOK'
    BY <1>4, StoreStays DEF HandlerFails
  <2>2. faults' \in 0 .. MaxFaults
    BY <1>4, FaultTypes DEF HandlerFails
  <2> QED
    BY <1>4, <2>1, <2>2 DEF HandlerFails, Answered, Takes, Abort, Fault
<1>5. ASSUME NEW j \in Polled, HandlerChecks(j) PROVE TypeOK'
  <2>1. StoreTypeOK'
    BY <1>5, CheckTypes DEF HandlerChecks
  <2> QED
    BY <1>5, <2>1 DEF HandlerChecks
<1>6. CASE HandlerSeesReplay
  <2>1. StoreTypeOK'
    BY <1>6, ResumeTypes DEF HandlerSeesReplay
  <2> QED
    BY <1>6, <2>1 DEF HandlerSeesReplay, Answered, Engaged
<1>7. CASE HandlerRaises
  <2>1. StoreTypeOK'
    BY <1>7, ResumeTypes DEF HandlerRaises
  <2> QED
    BY <1>7, <2>1 DEF HandlerRaises, Abort
<1>8. CASE HandlerDispatches
  <2>1. StoreTypeOK'
    BY <1>8, ResumeTypes DEF HandlerDispatches
  <2>2. faults' \in 0 .. MaxFaults
    BY <1>8, FaultTypes DEF HandlerDispatches
  <2> QED
    BY <1>8, <1>j, <2>1, <2>2 DEF HandlerDispatches, Answered, Abort, Fault, Engaged
<1>9. CASE Acknowledge
  <2>1. StoreTypeOK'
    BY <1>9, StoreStays DEF Acknowledge, Done
  <2> QED
    BY <1>9, <2>1 DEF Acknowledge, Done
<1>10. CASE AcknowledgementLost
  <2>1. StoreTypeOK'
    BY <1>10, StoreStays DEF AcknowledgementLost, Done
  <2>2. faults' \in 0 .. MaxFaults
    BY <1>10, FaultTypes DEF AcknowledgementLost
  <2> QED
    BY <1>10, <2>1, <2>2 DEF AcknowledgementLost, Done, Fault
<1>11. ASSUME NEW t \in Threads, NEW j \in Jtis \ Polled, Push(t, j) PROVE TypeOK'
  <2>1. StoreTypeOK'
    BY <1>11, CheckTypes DEF Push
  <2>2. pushes \in 0 .. MaxPushes /\ pushes < MaxPushes /\ pushes' = pushes + 1
    BY <1>11 DEF Push
  <2>3. pushes' \in 0 .. MaxPushes
    BY ONLY <2>2, Constants
  <2> QED
    BY <1>11, <2>1, <2>3 DEF Push
<1>12. ASSUME NEW t \in Threads, PushEnds(t) PROVE TypeOK'
  <2>1. StoreTypeOK'
    BY <1>12, ResumeTypes DEF PushEnds
  <2> QED
    BY <1>12, <1>j, <2>1 DEF PushEnds
<1>13. ASSUME NEW t \in Threads, Guard(t) PROVE TypeOK'
  <2>1. StoreTypeOK'
    BY <1>13, GuardTypes DEF Guard
  <2> QED
    BY <1>13, <2>1 DEF Guard
<1>14. CASE Crash
  <2>1. StoreTypeOK'
    BY <1>14, CrashTypes DEF Crash
  <2>2. faults' \in 0 .. MaxFaults
    BY <1>14, FaultTypes DEF Crash
  <2> QED
    BY <1>14, <2>1, <2>2 DEF Crash, Abort, Fault
<1>15. CASE Tick
  <2>1. StoreTypeOK'
    BY <1>15, TickTypes DEF Tick
  <2> QED
    BY <1>15, <2>1 DEF Tick
<1>16. CASE UNCHANGED vars
  <2>1. StoreTypeOK'
    BY <1>16, StoreStays DEF vars
  <2> QED
    BY <1>16, <2>1 DEF vars
<1> QED
  BY <1>1, <1>2, <1>3, <1>4, <1>5, <1>6, <1>7, <1>8, <1>9, <1>10, <1>11, <1>12, <1>13, <1>14, <1>15, <1>16
  DEF Next

(* A call keeps its argument, and an idle thread stays idle. *)
LEMMA GuardKeepsJti ==
  ASSUME StoreTypeOK, NEW t \in Threads, GuardStep(t), NEW u \in Threads
  PROVE  call'[u].jti = call[u].jti /\ (pc'[u] # "idle" => pc[u] # "idle")
<1> USE DEF StoreTypeOK, Goto
<1>1. CASE Iterate(t)
  BY <1>1 DEF Iterate
<1>2. CASE Scan(t)
  <2>1. pc[t] = "scan" /\ \E step \in {"delete", "raised"} : pc' = [pc EXCEPT ![t] = step]
    BY <1>2 DEF Scan
  <2>2. call' = [call EXCEPT ![t].expired = Expired(call[t].cutoff)] \/ call' = call
    BY <1>2 DEF Scan
  <2>3. call'[u].jti = call[u].jti
    BY <2>2 DEF Calls
  <2> QED
    BY <2>1, <2>3
<1>3. CASE Delete(t)
  <2>1. pc[t] = "delete" /\ (pc' = [pc EXCEPT ![t] = "raised"] \/ pc' = pc)
    BY <1>3 DEF Delete
  <2>2. \/ \E j \in call[t].expired : call' = [call EXCEPT ![t].expired = @ \ {j}]
        \/ call' = [call EXCEPT ![t].expired = {}]
    BY <1>3 DEF Delete
  <2>3. call'[u].jti = call[u].jti
    BY <2>2 DEF Calls
  <2> QED
    BY <2>1, <2>3
<1>4. CASE Swept(t) \/ Look(t) \/ Mark(t)
  BY <1>4 DEF Swept, Look, Mark
<1> QED
  BY <1>1, <1>2, <1>3, <1>4 DEF GuardStep

(* Every step keeps the threads apart. *)
LEMMA NextEngaged == TypeOK /\ Engaged /\ [Next]_vars => Engaged'
<1> SUFFICES ASSUME TypeOK, Engaged, [Next]_vars PROVE Engaged'
  OBVIOUS
<1> USE Constants DEF TypeOK, StoreTypeOK, Engaged, delivery, cycle, store, Goto, Sweeping, Ended
<1>1. ASSUME NEW j \in Polled, Transmitter(j) \/ HandlerFails(j) \/ HandlerRefuses(j) PROVE Engaged'
  BY <1>1 DEF Transmitter, HandlerFails, HandlerRefuses, Takes, Answered, Abort
<1>2. CASE Fetch \/ Acknowledge \/ AcknowledgementLost \/ UNCHANGED vars
  BY <1>2 DEF Fetch, Acknowledge, AcknowledgementLost, Done, vars
<1>3. ASSUME NEW j \in Polled, HandlerChecks(j) PROVE Engaged'
  BY <1>3 DEF HandlerChecks, Takes, Check
<1>4. CASE HandlerSeesReplay \/ HandlerRaises \/ HandlerDispatches
  BY <1>4 DEF HandlerSeesReplay, HandlerRaises, HandlerDispatches, Resume, Answered, Abort
<1>5. ASSUME NEW t \in Threads, NEW j \in Jtis \ Polled, Push(t, j) PROVE Engaged'
  BY <1>5 DEF Push, Check
<1>6. ASSUME NEW t \in Threads, PushEnds(t) PROVE Engaged'
  BY <1>6 DEF PushEnds, Resume
<1>7. ASSUME NEW t \in Threads, Guard(t) PROVE Engaged'
  <2>1. \A u \in Threads : call'[u].jti = call[u].jti /\ (pc'[u] # "idle" => pc[u] # "idle")
    BY <1>7, GuardKeepsJti DEF Guard
  <2> QED
    BY <1>7, <2>1 DEF Guard
<1>8. CASE Crash
  BY <1>8 DEF Crash, StoreCrash
<1>9. CASE Tick
  BY <1>9 DEF Tick, StoreTick
<1> QED
  BY <1>1, <1>2, <1>3, <1>4, <1>5, <1>6, <1>7, <1>8, <1>9 DEF Next

(* At first the types are right and nobody is at work. *)
LEMMA InitTypes == Init => TypeOK /\ Engaged
<1> SUFFICES ASSUME Init PROVE TypeOK /\ Engaged
  OBVIOUS
<1>2. 0 \in 0 .. MaxTime /\ 0 \in 0 .. MaxFaults /\ 0 \in 0 .. MaxPushes
  BY Constants
<1> QED
  <2>1. call \in [Threads -> Calls]
    BY NoCallTyped DEF Init, StoreInit
  <2>2. StoreTypeOK
    BY <1>2, <2>1 DEF Init, StoreInit, StoreTypeOK
  <2>3. /\ issued \in Seq(Polled) /\ faults \in 0 .. MaxFaults /\ pushes \in 0 .. MaxPushes
        /\ pending \subseteq Polled /\ batch \subseteq pending /\ acked \subseteq pending \ batch
        /\ polling \in BOOLEAN /\ dispatched \subseteq Jtis /\ broken \subseteq Jtis
        /\ iat \in [Polled -> 0 .. MaxTime] /\ fetched \subseteq Polled /\ failed \subseteq Polled
    <3>1. /\ issued = <<>> /\ pending = {} /\ batch = {} /\ acked = {} /\ polling = FALSE
          /\ iat = [j \in Polled |-> 0] /\ fetched = {} /\ failed = {}
          /\ dispatched = {} /\ broken = {} /\ faults = 0 /\ pushes = 0
      BY DEF Init
    <3>2. issued \in Seq(Polled)
      BY ONLY <3>1
    <3>3. polling \in BOOLEAN
      BY ONLY <3>1
    <3> QED
      BY <1>2, <3>1, <3>2, <3>3
  <2>4. Engaged
    BY Constants DEF Init, StoreInit, Engaged
  <2> QED
    BY <2>2, <2>3, <2>4 DEF TypeOK

(* The variables keep to their types. *)
THEOREM Typing == Spec => []TypeOK
  BY InitTypes, NextTypeOK, NextEngaged, PTL DEF Spec

-----------------------------------------------------------------------------
(* A mark of a polled SET is the dispatch's, or that of one to follow now. *)
MarksTell ==
    /\ \A j \in Polled \cap DOMAIN marks :
          j \in dispatched \cup broken \/ (pc[Poll] = "marked" /\ call[Poll].jti = j)
    /\ pc[Poll] = "replay" => call[Poll].jti \in dispatched \cup broken
    /\ acked \subseteq dispatched \cup broken

DropInv == MarksTell /\ DroppedWasDispatched

(* What the store does to the marks of polled SETs. *)
LEMMA GuardMarks ==
  ASSUME TypeOK, Engaged, MarksTell, NEW t \in Threads, Guard(t)
  PROVE  MarksTell'
<1> USE Constants DEF TypeOK, StoreTypeOK, Engaged, MarksTell, Goto, Guard, delivery, cycle, outcome, bounds
<1>1. CASE Iterate(t)
  BY <1>1 DEF Iterate
<1>2. CASE Scan(t)
  BY <1>2 DEF Scan
<1>3. CASE Delete(t)
  <2>1. DOMAIN marks' \subseteq DOMAIN marks
    BY <1>3 DEF Delete
  <2>2. UNCHANGED <<dispatched, broken, acked>>
    BY <1>3
  <2>3. /\ pc'[Poll] = "replay" => pc[Poll] = "replay"
        /\ pc[Poll] = "marked" => pc'[Poll] = "marked"
    BY <1>3 DEF Delete
  <2>4. call'[Poll].jti = call[Poll].jti
    <3>1. \E left : call' = [call EXCEPT ![t].expired = left]
      BY <1>3 DEF Delete
    <3>2. call[Poll] \in Calls /\ call[t] \in Calls
      OBVIOUS
    <3> QED
      BY <3>1, <3>2 DEF Calls
  <2> QED
    BY ONLY <2>1, <2>2, <2>3, <2>4, MarksTell DEF MarksTell
<1>4. CASE Swept(t)
  BY <1>4 DEF Swept
<1>5. CASE Look(t)
  BY <1>5 DEF Look
<1>6. CASE Mark(t)
  BY <1>6 DEF Mark
<1> QED
  BY <1>1, <1>2, <1>3, <1>4, <1>5, <1>6 DEF GuardStep

(* Every step keeps the invariant. *)
LEMMA NextDropInv == TypeOK /\ Engaged /\ DropInv /\ [Next]_vars => DropInv'
<1> SUFFICES ASSUME TypeOK, Engaged, DropInv, [Next]_vars PROVE DropInv'
  OBVIOUS
<1> USE Constants
    DEF TypeOK, StoreTypeOK, Engaged, DropInv, MarksTell, DroppedWasDispatched, delivery, cycle, outcome, store, Goto
<1>1. ASSUME NEW j \in Polled, Transmitter(j) PROVE DropInv'
  <2>1. MarksTell'
    BY <1>1 DEF Transmitter
  <2>2. DroppedWasDispatched'
    BY <1>1 DEF Transmitter
  <2> QED
    BY <2>1, <2>2
<1>2. CASE Fetch
  BY <1>2 DEF Fetch
<1>3. ASSUME NEW j \in Polled, HandlerRefuses(j) \/ HandlerFails(j) PROVE DropInv'
  BY <1>3 DEF HandlerRefuses, HandlerFails, Answered, Takes, Abort
<1>4. ASSUME NEW j \in Polled, HandlerChecks(j) PROVE DropInv'
  BY <1>4 DEF HandlerChecks, Takes, Check
<1>5. CASE HandlerSeesReplay \/ HandlerRaises
  BY <1>5 DEF HandlerSeesReplay, HandlerRaises, Resume, Answered, Abort
<1>6. CASE HandlerDispatches
  BY <1>6 DEF HandlerDispatches, Resume, Answered, Abort
<1>7. CASE Acknowledge \/ AcknowledgementLost
  BY <1>7 DEF Acknowledge, AcknowledgementLost, Done
<1>8. ASSUME NEW t \in Threads, NEW j \in Jtis \ Polled, Push(t, j) PROVE DropInv'
  BY <1>8 DEF Push, Check
<1>9. ASSUME NEW t \in Threads, PushEnds(t) PROVE DropInv'
  BY <1>9 DEF PushEnds, Resume
<1>10. ASSUME NEW t \in Threads, Guard(t) PROVE DropInv'
  <2>1. MarksTell'
    BY <1>10, GuardMarks
  <2> QED
    BY <1>10, <2>1 DEF Guard
<1>11. CASE Crash
  BY <1>11 DEF Crash, StoreCrash, Abort
<1>12. CASE Tick
  BY <1>12 DEF Tick, StoreTick
<1>13. CASE UNCHANGED vars
  BY <1>13 DEF vars
<1> QED
  BY <1>1, <1>2, <1>3, <1>4, <1>5, <1>6, <1>7, <1>8, <1>9, <1>10, <1>11, <1>12, <1>13 DEF Next

(* "ack the ones we successfully processed so the transmitter can drop     *)
(* them": with any threads, SETs, faults and restarts, nothing leaves the  *)
(* transmitter that was not dispatched, unless its dispatch raised.        *)
THEOREM DroppedWasDispatchedHolds == Spec => []DroppedWasDispatched
<1>1. Init => TypeOK /\ Engaged /\ DropInv
  <2>1. Init => DropInv
    BY Constants DEF Init, StoreInit, DropInv, MarksTell, DroppedWasDispatched
  <2> QED
    BY <2>1, InitTypes
<1>2. DropInv => DroppedWasDispatched
  BY DEF DropInv
<1> QED
  BY <1>1, <1>2, NextTypeOK, NextEngaged, NextDropInv, PTL DEF Spec

-----------------------------------------------------------------------------
(* The last mark of a jti is still there, or may be gone. *)
Lapsed(j) == lastMark[j] = Never \/ now >= lastMark[j] + Ttl \/ j \in exposed

Remembered ==
    /\ \A j \in Jtis : Lapsed(j) \/ (j \in DOMAIN marks /\ marks[j] = lastMark[j] + Ttl)
    /\ \A t \in Threads : call[t].cutoff <= now
    /\ \A t \in Threads : \A j \in call[t].expired : Lapsed(j)

(* What the polling thread has looked up in vain, nobody else marks. *)
Alone == pc[Poll] = "mark" => call[Poll].jti \notin DOMAIN marks

LEMMA Distinct ==
  ASSUME TypeOK, Engaged, NEW t \in Threads \ {Poll}, pc[t] # "idle", pc[Poll] # "idle"
  PROVE  call[t].jti # call[Poll].jti
  BY Constants DEF TypeOK, Engaged

(* Time makes marks lapse, and nothing else undoes that. *)
LEMMA LapsedStays ==
  ASSUME TypeOK, NEW j \in Jtis, Lapsed(j), now' \in {now, now + 1}, UNCHANGED <<lastMark, exposed>>
  PROVE  Lapsed(j)'
<1>1. lastMark[j] \in Int /\ now \in Int /\ Ttl \in Int
  BY Constants DEF TypeOK, StoreTypeOK, Never
<1>2. now >= lastMark[j] + Ttl => now' >= lastMark[j] + Ttl
  BY <1>1
<1> QED
  BY <1>2 DEF Lapsed

(* What the sweep is about to delete has lapsed. *)
LEMMA ExpiredLapsed ==
  ASSUME TypeOK, Remembered, NEW t \in Threads, NEW j \in Expired(call[t].cutoff)
  PROVE  Lapsed(j)
<1>1. j \in Jtis /\ j \in DOMAIN marks /\ marks[j] <= call[t].cutoff /\ call[t].cutoff <= now
  BY DEF Expired, TypeOK, StoreTypeOK, Remembered
<1>2. call[t].cutoff \in Int /\ now \in Int /\ Ttl \in Int /\ lastMark[j] \in Int /\ marks[j] \in Int
  BY <1>1, Constants DEF TypeOK, StoreTypeOK, Calls, Never
<1>3. CASE marks[j] = lastMark[j] + Ttl
  BY <1>1, <1>2, <1>3 DEF Lapsed
<1> QED
  BY <1>1, <1>3 DEF Remembered

(* The steps of the store keep what is remembered, and that the polling    *)
(* thread is alone with its jti.                                           *)
LEMMA GuardRemembers ==
  ASSUME TypeOK, Engaged, Remembered, Alone, NEW t \in Threads, GuardStep(t)
  PROVE  Remembered' /\ Alone'
<1> USE Constants
<1>t. /\ pc \in [Threads -> {"idle", "look", "mark"} \cup Sweeping \cup Ended] /\ call \in [Threads -> Calls]
      /\ DOMAIN marks \subseteq Jtis /\ lastMark \in [Jtis -> {Never} \cup 0 .. MaxTime] /\ now \in 0 .. MaxTime
  BY DEF TypeOK, StoreTypeOK
<1>1. CASE Iterate(t)
  <2>1. \A u \in Threads : call'[u].cutoff = call[u].cutoff /\ call'[u].expired = call[u].expired /\ call'[u].jti = call[u].jti
    BY <1>1, <1>t DEF Iterate, Calls
  <2>2. \A j \in Jtis : Lapsed(j)' = Lapsed(j)
    BY <1>1 DEF Iterate, Lapsed
  <2>3. \A u \in Threads : pc'[u] = "mark" => pc[u] = "mark"
    BY <1>1, <1>t DEF Iterate, Goto
  <2>4. \A u \in Threads : call[u].expired \subseteq Jtis
    BY <1>t DEF Calls
  <2> QED
    BY <1>1, <2>1, <2>2, <2>3, <2>4 DEF Iterate, Remembered, Alone
<1>2. CASE Scan(t)
  <2>1. \A u \in Threads : /\ call'[u].cutoff = call[u].cutoff /\ call'[u].jti = call[u].jti
                           /\ call'[u].expired \subseteq call[u].expired \cup (IF u = t THEN Expired(call[t].cutoff) ELSE {})
    BY <1>2, <1>t DEF Scan, Calls
  <2>2. \A j \in Jtis : Lapsed(j)' = Lapsed(j)
    BY <1>2 DEF Scan, Lapsed
  <2>3. \A u \in Threads : pc'[u] = "mark" => pc[u] = "mark"
    BY <1>2, <1>t DEF Scan, Goto
  <2>4. \A u \in Threads : call[u].expired \subseteq Jtis
    BY <1>t DEF Calls
  <2>5. \A j \in Expired(call[t].cutoff) : j \in Jtis /\ Lapsed(j)
    BY <1>t, ExpiredLapsed DEF Expired
  <2>6. UNCHANGED <<now, marks, lastMark>>
    BY <1>2 DEF Scan
  <2> QED
    BY <2>1, <2>2, <2>3, <2>4, <2>5, <2>6 DEF Remembered, Alone
<1>3. CASE Delete(t)
  <2>1. \A u \in Threads : /\ call'[u].cutoff = call[u].cutoff /\ call'[u].jti = call[u].jti
                           /\ call'[u].expired \subseteq call[u].expired
    <3>1. \/ \E j \in call[t].expired : call' = [call EXCEPT ![t].expired = @ \ {j}]
          \/ call' = [call EXCEPT ![t].expired = {}]
      BY <1>3 DEF Delete
    <3> QED
      BY <1>t, <3>1 DEF Calls
  <2>2. \A j \in Jtis : Lapsed(j)' = Lapsed(j)
    BY <1>3 DEF Delete, Lapsed
  <2>3. \A u \in Threads : pc'[u] = "mark" => pc[u] = "mark"
    BY <1>3, <1>t DEF Delete, Goto
  <2>4. \A u \in Threads : call[u].expired \subseteq Jtis
    BY <1>t DEF Calls
  <2>5. /\ DOMAIN marks' \subseteq DOMAIN marks
        /\ \A k \in DOMAIN marks' : marks'[k] = marks[k]
        /\ \A k \in DOMAIN marks \ DOMAIN marks' : k \in call[t].expired
    BY <1>3 DEF Delete
  <2>6. UNCHANGED <<now, lastMark>>
    BY <1>3 DEF Delete
  <2> QED
    BY <2>1, <2>2, <2>3, <2>4, <2>5, <2>6 DEF Remembered, Alone
<1>4. CASE Swept(t)
  <2>1. \A u \in Threads : pc'[u] = "mark" => pc[u] = "mark"
    BY <1>4, <1>t DEF Swept, Goto
  <2> QED
    BY <1>4, <2>1 DEF Swept, Remembered, Alone, Lapsed
<1>5. CASE Look(t)
  <2>1. \A u \in Threads : pc'[u] = "mark" => pc[u] = "mark" \/ (u = t /\ call[t].jti \notin DOMAIN marks)
    BY <1>5, <1>t DEF Look, Goto
  <2> QED
    BY <1>5, <2>1 DEF Look, Remembered, Alone, Lapsed
<1>6. CASE Mark(t)
  <2> DEFINE j == call[t].jti
  <2>1. /\ j \in Jtis /\ DOMAIN marks' = DOMAIN marks \cup {j} /\ marks'[j] = now + Ttl
        /\ \A k \in DOMAIN marks \ {j} : marks'[k] = marks[k]
        /\ lastMark'[j] = now /\ \A k \in Jtis \ {j} : lastMark'[k] = lastMark[k]
        /\ UNCHANGED <<now, call>>
    BY <1>6, <1>t DEF Mark, Calls
  <2>2. /\ (\E u \in Threads : j \in call[u].expired) => j \in exposed'
        /\ \A k \in Jtis \ {j} : k \in exposed' <=> k \in exposed
    BY <1>6, <2>1 DEF Mark
  <2>3. \A k \in Jtis \ {j} : Lapsed(k)' = Lapsed(k)
    BY <2>1, <2>2 DEF Lapsed
  <2>4. \A u \in Threads : \A k \in call[u].expired : Lapsed(k)'
    <3> SUFFICES ASSUME NEW u \in Threads, NEW k \in call[u].expired PROVE Lapsed(k)'
      OBVIOUS
    <3>1. k \in Jtis
      BY <1>t DEF Calls
    <3> QED
      BY <3>1, <2>2, <2>3 DEF Lapsed, Remembered
  <2>5. pc'[Poll] = "mark" => t # Poll /\ pc[Poll] = "mark"
    BY <1>6, <1>t DEF Mark, Goto
  <2>6. pc'[Poll] = "mark" => call[Poll].jti # j
    BY <1>6, <2>5, Distinct DEF Mark
  <2>7. Alone'
    BY <2>1, <2>5, <2>6 DEF Alone
  <2> HIDE DEF j
  <2> QED
    BY <2>1, <2>3, <2>4, <2>7 DEF Remembered
<1> QED
  BY <1>1, <1>2, <1>3, <1>4, <1>5, <1>6 DEF GuardStep

(* Every step keeps the marks remembered. *)
LEMMA NextRemembered == TypeOK /\ Engaged /\ Remembered /\ Alone /\ [Next]_vars => Remembered' /\ Alone'
<1> SUFFICES ASSUME TypeOK, Engaged, Remembered, Alone, [Next]_vars PROVE Remembered' /\ Alone'
  OBVIOUS
<1>t. pc \in [Threads -> {"idle", "look", "mark"} \cup Sweeping \cup Ended] /\ call \in [Threads -> Calls]
  BY DEF TypeOK, StoreTypeOK
<1> USE Constants
<1>1. ASSUME UNCHANGED store PROVE Remembered' /\ Alone'
  BY <1>1 DEF store, Remembered, Alone, Lapsed
<1>2. ASSUME NEW t \in Threads, Resume(t) PROVE Remembered' /\ Alone'
  <2>1. \A u \in Threads : pc'[u] = "mark" => u # t /\ pc[u] = "mark"
    BY <1>2, <1>t DEF Resume, Goto
  <2>2. \A u \in Threads : call'[u] = IF u = t THEN NoCall ELSE call[u]
    BY <1>2, <1>t DEF Resume
  <2>3. NoCall.expired = {} /\ NoCall.cutoff <= now
    BY DEF NoCall, TypeOK, StoreTypeOK
  <2>4. \A j \in Jtis : Lapsed(j)' = Lapsed(j)
    BY <1>2 DEF Resume, Lapsed
  <2>5. \A u \in Threads : call[u].expired \subseteq Jtis
    BY <1>t DEF Calls
  <2> QED
    BY <1>2, <2>1, <2>2, <2>3, <2>4, <2>5 DEF Resume, Remembered, Alone
<1>3. ASSUME NEW t \in Threads, NEW j \in Jtis, Check(t, j) PROVE Remembered' /\ Alone'
  <2>1. /\ \A u \in Threads : pc'[u] = "mark" => u # t /\ pc[u] = "mark"
        /\ \A u \in Threads \ {t} : call'[u] = call[u]
        /\ call'[t].cutoff = now /\ call'[t].expired = {}
    BY <1>3, <1>t DEF Check, Goto
  <2>2. now <= now
    BY DEF TypeOK, StoreTypeOK
  <2>3. \A k \in Jtis : Lapsed(k)' = Lapsed(k)
    BY <1>3 DEF Check, Lapsed
  <2>4. \A u \in Threads : call[u].expired \subseteq Jtis
    BY <1>t DEF Calls
  <2> QED
    BY <1>3, <2>1, <2>2, <2>3, <2>4 DEF Check, Remembered, Alone
<1>4. CASE Crash
  <2>1. /\ \A u \in Threads : pc'[u] # "mark" /\ call'[u].expired = {} /\ call'[u].cutoff = 0
        /\ \A j \in Jtis : Lapsed(j)'
        /\ now' = now
    BY <1>4 DEF Crash, StoreCrash, NoCall, Lapsed
  <2>2. 0 <= now
    BY DEF TypeOK, StoreTypeOK
  <2> QED
    BY <2>1, <2>2 DEF Remembered, Alone
<1>5. CASE Tick
  <2>1. now' = now + 1 /\ UNCHANGED <<marks, pc, call, lastMark, exposed>>
    BY <1>5 DEF Tick, StoreTick
  <2>2. \A j \in Jtis : Lapsed(j) => Lapsed(j)'
    BY <2>1, LapsedStays
  <2>3. \A u \in Threads : call[u].cutoff <= now => call[u].cutoff <= now'
    BY <2>1, <1>t, Constants DEF Calls, TypeOK, StoreTypeOK
  <2>4. \A u \in Threads : call[u].expired \subseteq Jtis
    BY <1>t DEF Calls
  <2> QED
    BY <2>1, <2>2, <2>3, <2>4 DEF Remembered, Alone
<1>6. CASE \E t \in Threads : Guard(t)
  BY <1>6, GuardRemembers DEF Guard
<1>7. CASE \E j \in Polled : Transmitter(j) \/ HandlerFails(j) \/ HandlerRefuses(j)
  BY <1>1, <1>7 DEF Transmitter, HandlerFails, HandlerRefuses
<1>8. CASE Fetch \/ Acknowledge \/ AcknowledgementLost
  BY <1>1, <1>8 DEF Fetch, Acknowledge, AcknowledgementLost, Done
<1>9. CASE HandlerSeesReplay \/ HandlerRaises \/ HandlerDispatches
  BY <1>2, <1>9, Constants DEF HandlerSeesReplay, HandlerRaises, HandlerDispatches
<1>10. CASE \E j \in Polled : HandlerChecks(j)
  BY <1>3, <1>10, Constants DEF HandlerChecks
<1>11. CASE \E t \in Threads, j \in Jtis \ Polled : Push(t, j)
  BY <1>3, <1>11 DEF Push
<1>12. CASE \E t \in Threads : PushEnds(t)
  BY <1>2, <1>12 DEF PushEnds
<1>13. CASE UNCHANGED vars
  BY <1>1, <1>13 DEF vars
<1> QED
  BY <1>4, <1>5, <1>6, <1>7, <1>8, <1>9, <1>10, <1>11, <1>12, <1>13, Constants DEF Next

(* A polled SET is enforced a second time only when its mark had lapsed,   *)
(* the process restarted, or a sweep took the mark: with any number of     *)
(* pool threads beside the poller, neither redelivery, nor a lost          *)
(* acknowledgement, nor an aborted batch gets it past the guard.           *)
THEOREM MarkedAgainOnlyIfLapsedHolds == Spec => MarkedAgainOnlyIfLapsed
<1>1. Init => TypeOK /\ Engaged /\ Remembered /\ Alone
  <2>1. Init => Alone /\ \A j \in Jtis : Lapsed(j)
    BY Constants DEF Init, StoreInit, Alone, Lapsed
  <2>2. Init => \A t \in Threads : call[t].cutoff <= now /\ call[t].expired = {}
    BY DEF Init, StoreInit, NoCall
  <2> QED
    BY <2>1, <2>2, InitTypes DEF Remembered
<1>2. TypeOK /\ Engaged /\ Remembered /\ Alone => [\A t \in Threads : Mark(t) =>
          LET j == call[t].jti IN
          j \in Polled => lastMark[j] = Never \/ now >= lastMark[j] + Ttl \/ j \in exposed]_vars
  <2> SUFFICES ASSUME TypeOK, Engaged, Remembered, Alone, NEW t \in Threads, Mark(t), call[t].jti \in Polled
               PROVE  Lapsed(call[t].jti)
    BY DEF Lapsed
  <2>1. t = Poll
    BY DEF Mark, Engaged
  <2>2. call[t].jti \in Jtis /\ call[t].jti \notin DOMAIN marks
    BY <2>1, Constants DEF TypeOK, StoreTypeOK, Calls, Mark, Alone
  <2> QED
    BY <2>2 DEF Remembered
<1> QED
  BY <1>1, <1>2, NextTypeOK, NextEngaged, NextRemembered, PTL DEF Spec, MarkedAgainOnlyIfLapsed

-----------------------------------------------------------------------------
(* What became of the SETs of a cycle, all of them issued. *)
Settled ==
    /\ \A j \in fetched : \E i \in DOMAIN issued : issued[i] = j
    /\ \A j \in fetched : j \in batch \cup acked \cup failed \cup Refused \/ Stale(j)

(* The clock only makes SETs staler. *)
LEMMA StaleStays ==
  ASSUME TypeOK, NEW j \in Polled, Stale(j), now' \in {now, now + 1}, iat'[j] = iat[j]
  PROVE  Stale(j)'
<1>1. now \in Int /\ iat[j] \in Int /\ MaxAge \in Int
  BY PollerAssumption DEF TypeOK, StoreTypeOK
<1> QED
  BY <1>1 DEF Stale

(* Every step keeps that. *)
LEMMA NextSettled == TypeOK /\ Engaged /\ Settled /\ [Next]_vars => Settled'
<1> SUFFICES ASSUME TypeOK, Engaged, Settled, [Next]_vars PROVE Settled'
  OBVIOUS
<1>t. fetched \subseteq Polled /\ issued \in Seq(Polled)
  BY DEF TypeOK
<1>s. ASSUME UNCHANGED <<now, iat>> PROVE \A j \in Polled : Stale(j)' = Stale(j)
  BY <1>s DEF Stale
<1> USE DEF Settled, cycle, delivery, store
<1>1. ASSUME NEW j \in Polled, Transmitter(j) PROVE Settled'
  <2>1. \A k \in fetched : \E i \in DOMAIN issued' : issued'[i] = k
    BY <1>1, <1>t DEF Transmitter
  <2>2. \A k \in fetched : k # j
    BY <1>1 DEF Transmitter
  <2>3. \A k \in fetched : iat'[k] = iat[k]
    BY <1>1, <1>t, <2>2 DEF Transmitter, TypeOK
  <2>4. \A k \in fetched : Stale(k)' = Stale(k)
    BY <1>1, <2>3 DEF Transmitter, Stale
  <2> QED
    BY <1>1, <2>1, <2>4 DEF Transmitter
<1>2. CASE Fetch
  BY <1>2 DEF Fetch
<1>3. ASSUME NEW j \in Polled, HandlerRefuses(j) PROVE Settled'
  BY <1>3, <1>s, <1>t DEF HandlerRefuses, Answered
<1>4. ASSUME NEW j \in Polled, HandlerFails(j) PROVE Settled'
  BY <1>4, <1>s, <1>t DEF HandlerFails, Answered, Abort
<1>5. CASE HandlerSeesReplay \/ HandlerDispatches \/ HandlerRaises
  BY <1>5, <1>s, <1>t DEF HandlerSeesReplay, HandlerDispatches, HandlerRaises, Resume, Answered, Abort
<1>6. CASE Acknowledge \/ AcknowledgementLost \/ Crash
  BY <1>6 DEF Acknowledge, AcknowledgementLost, Done, Crash, Abort
<1>7. CASE Tick
  BY <1>7, <1>t, StaleStays DEF Tick, StoreTick
<1>8. CASE UNCHANGED <<now, delivery>>
  BY <1>8, <1>s, <1>t
<1>9. ASSUME NEW j \in Polled, HandlerChecks(j) PROVE Settled'
  BY <1>8, <1>9 DEF HandlerChecks, Check
<1>10. ASSUME NEW t \in Threads, NEW j \in Jtis, Push(t, j) PROVE Settled'
  BY <1>8, <1>10 DEF Push, Check
<1>11. ASSUME NEW t \in Threads, PushEnds(t) PROVE Settled'
  BY <1>8, <1>11 DEF PushEnds, Resume
<1>12. ASSUME NEW t \in Threads, Guard(t) PROVE Settled'
  <2>1. UNCHANGED now
    BY <1>12 DEF Guard, GuardStep, Iterate, Scan, Delete, Swept, Look, Mark
  <2> QED
    BY <1>8, <1>12, <2>1 DEF Guard
<1>13. CASE UNCHANGED vars
  BY <1>8, <1>13 DEF vars
<1> QED
  BY <1>1, <1>2, <1>3, <1>4, <1>5, <1>6, <1>7, <1>9, <1>10, <1>11, <1>12, <1>13 DEF Next

(* When the acknowledgement of a cycle arrives, what it fetched is gone,   *)
(* but for what verification refuses or failed on: whatever was lost or    *)
(* aborted before, no SET that was enforced before stays for being a       *)
(* replay.                                                                 *)
THEOREM CycleLeavesOnlyRefusedHolds == Spec => CycleLeavesOnlyRefused
<1>1. Init => TypeOK /\ Engaged /\ Settled
  BY InitTypes DEF Init, Settled
<1>2. Settled => [Acknowledge => \A j \in fetched \ failed : j \in pending' => j \in Refused \/ Stale(j)]_vars
  BY DEF Settled, Acknowledge, Done
<1> QED
  BY <1>1, <1>2, NextTypeOK, NextEngaged, NextSettled, PTL DEF Spec, CycleLeavesOnlyRefused
=============================================================================
