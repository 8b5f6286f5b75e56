-------------------------- MODULE EnforcementProofs --------------------------
(* Proofs about Enforcement: its types, that a session which can still be  *)
(* killed stays mapped, that no mapping outlives its session once things   *)
(* are quiet, that a purge drops every session it looked up, that a fast   *)
(* event costs no other of its SET, and that the summary adds up.  Each    *)
(* names the faults it cannot bear.                                        *)
EXTENDS Enforcement, TLAPS, FiniteSetTheorems, SequenceTheorems

-----------------------------------------------------------------------------
(* Types *)

(* What changes the world or the mappings beside the threads. *)
Outside(sid) ==
    \/ StartSession(sid) \/ CloseSession(sid)
    \/ Register(sid) \/ Deregister(sid) \/ LoseCall(sid) \/ Expire(sid)

(* What a thread does. *)
Moves(w) ==
    \/ \E set \in Catalog : HandleVerifiedSet(w, set)
    \/ Step(w) \/ Hang(w)

LEMMA NextCases ==
  ASSUME [Next]_vars
  PROVE  (\E sid \in Sids : Outside(sid)) \/ (\E w \in Workers : Moves(w)) \/ UNCHANGED vars
BY DEF Next, Outside, Moves

LEMMA PathType == \A event : Path(event) \in Paths
BY DEF Path, Paths

LEMMA IdleType == Idle \in Job
BY DEF Idle, Job

LEMMA SummarizeType ==
  ASSUME TypeOK, NEW w \in Workers
  PROVE  Summarize(w) \in [path : Paths, targeted : Nat, terminated : Nat]
<1>1. /\ work[w].targets \in SUBSET Sids
      /\ work[w].terminated \in SUBSET Sids
      /\ report[w] \in [path : Paths, targeted : Nat, terminated : Nat]
  BY DEF TypeOK, Job
<1>2. Cardinality(work[w].targets) \in Nat /\ Cardinality(work[w].terminated) \in Nat
  BY <1>1, EnforcementAssumption, FS_Subset, FS_CardinalityType
<1>3. Path(Event(w)) \in Paths
  BY PathType
<1> QED
  BY <1>1, <1>2, <1>3 DEF Summarize

(* What the end of an event leaves of the thread's state. *)
LEMMA EndEventType ==
  ASSUME TypeOK, NEW w \in Workers, pc[w] # "idle", EndEvent(w)
  PROVE  /\ pc' \in [Workers -> Steps]
         /\ pc'[w] \in {"idle", "event"}
         /\ \A v \in Workers \ {w} : pc'[v] = pc[v] /\ work'[v] = work[v]
         /\ work' \in [Workers -> Job]
         /\ pc'[w] # "idle" => work'[w].todo # <<>> /\ work'[w].subject \in Subjects
         /\ report' \in [Workers -> [path : Paths, targeted : Nat, terminated : Nat]]
<1> DEFINE rest == Tail(work[w].todo)
<1>1. /\ work[w] \in Job
      /\ work[w].todo \in Seq(STRING)
      /\ work[w].todo # <<>> /\ work[w].subject \in Subjects
  BY DEF TypeOK, Job
<1>2. rest \in Seq(STRING)
  BY <1>1, HeadTailProperties, Zenon
<1> HIDE DEF rest
<1> DEFINE next == [Idle EXCEPT !.subject = work[w].subject, !.todo = rest]
<1>3. next \in Job /\ next.todo = rest /\ next.subject = work[w].subject
  BY <1>1, <1>2 DEF Idle, Job
<1>4. /\ pc' = [pc EXCEPT ![w] = IF rest = <<>> THEN "idle" ELSE "event"]
      /\ work' = [work EXCEPT ![w] = IF rest = <<>> THEN Idle ELSE next]
      /\ report' = [report EXCEPT ![w] = Summarize(w)]
  BY DEF EndEvent, Goto, rest
<1> HIDE DEF next
<1> QED
  BY <1>3, <1>4, IdleType, SummarizeType DEF TypeOK, Steps

LEMMA InitTypeOK == Init => TypeOK
BY EnforcementAssumption, IdleType DEF Init, TypeOK, Steps, NoReport, Paths

LEMMA ClosingType ==
  ASSUME TypeOK, NEW sids
  PROVE  Closing(sids) \in [Sids -> SUBSET {"register", "deregister"}]
BY DEF Closing, TypeOK

(* The types of the world outside the threads. *)
World ==
    /\ fastPath \in BOOLEAN
    /\ live \subseteq started
    /\ calls \in [Sids -> SUBSET {"register", "deregister"}]
    /\ subjectOf \in [Sids -> Subjects \cup {NoSubject}]
    /\ handled \in Nat
    /\ started \in SUBSET Sids
    /\ registered \in SUBSET Sids
    /\ purged \in SUBSET Sids
    /\ expired \in SUBSET Sids

(* The types of the threads. *)
Threads ==
    /\ pc \in [Workers -> Steps]
    /\ work \in [Workers -> Job]
    /\ report \in [Workers -> [path : Paths, targeted : Nat, terminated : Nat]]
    /\ \A w \in Workers : pc[w] # "idle" => work[w].todo # <<>> /\ work[w].subject \in Subjects
    /\ \A w \in Workers : pc[w] = "drop" => work[w].victim \in Sids

LEMMA EndEventThreads ==
  ASSUME TypeOK, NEW w \in Workers, pc[w] # "idle", EndEvent(w)
  PROVE  Threads'
BY EndEventType DEF TypeOK, Threads

LEMMA AbortThreads ==
  ASSUME TypeOK, NEW w \in Workers, Abort(w)
  PROVE  Threads'
BY IdleType DEF TypeOK, Threads, Abort, Goto, Steps

LEMMA WorkType ==
  ASSUME TypeOK
  PROVE  \A w \in Workers : work[w] \in Job
BY DEF TypeOK

(* A thread that stays at its event and changes its locals only. *)
LEMMA MoveThreads ==
  ASSUME TypeOK, NEW w \in Workers, pc[w] # "idle",
         NEW step \in Steps, pc' = [pc EXCEPT ![w] = step],
         NEW job \in Job, job.todo = work[w].todo, job.subject = work[w].subject, work' = [work EXCEPT ![w] = job],
         step = "drop" => job.victim \in Sids,
         UNCHANGED report
  PROVE  Threads'
BY DEF TypeOK, Threads

(* A call that hangs has been carried out, or not. *)
LEMMA HangEffect ==
  ASSUME TypeOK, NEW w \in Workers, Hang(w)
  PROVE  \/ UNCHANGED <<subjectOf, purged>>
         \/ /\ pc[w] = "drop"
            /\ subjectOf' = [subjectOf EXCEPT ![work[w].victim] = NoSubject]
            /\ UNCHANGED purged
         \/ \E sid \in Sids : /\ subjectOf' = [subjectOf EXCEPT ![sid] = NoSubject]
                              /\ purged' = purged \cup {sid}
<1>1. work[w].stale \in SUBSET Sids
  BY WorkType DEF Job
<1> QED
  BY <1>1 DEF Hang

LEMMA NextTypeOK == TypeOK /\ [Next]_vars => TypeOK'
<1> SUFFICES ASSUME TypeOK, [Next]_vars PROVE World' /\ Threads'
  BY DEF TypeOK, World, Threads
<1> USE EnforcementAssumption
<1>1. ASSUME NEW sid \in Sids, StartSession(sid) PROVE World' /\ Threads'
  BY <1>1 DEF StartSession, TypeOK, World, Threads
<1>2. ASSUME NEW sid \in Sids, CloseSession(sid) PROVE World' /\ Threads'
  BY <1>2, ClosingType DEF CloseSession, TypeOK, World, Threads
<1>3. ASSUME NEW sid \in Sids, Register(sid) \/ Deregister(sid) \/ LoseCall(sid)
      PROVE  World' /\ Threads'
  <2>1. UNCHANGED <<fastPath, live, pc, work, report, handled, started, purged, expired>>
    BY <1>3 DEF Register, Deregister, LoseCall
  <2>2. calls' \in [Sids -> SUBSET {"register", "deregister"}]
    <3>1. \E c : calls' = [calls EXCEPT ![sid] = @ \ {c}]
      BY <1>3 DEF Register, Deregister, LoseCall
    <3> QED
      BY <3>1 DEF TypeOK
  <2>3. subjectOf' \in [Sids -> Subjects \cup {NoSubject}] /\ registered' \in SUBSET Sids
    <3>1. CASE Register(sid)
      BY <3>1 DEF Register, TypeOK
    <3>2. CASE Deregister(sid)
      BY <3>2 DEF Deregister, TypeOK
    <3>3. CASE LoseCall(sid)
      BY <3>3 DEF LoseCall, TypeOK
    <3> QED
      BY <1>3, <3>1, <3>2, <3>3
  <2> QED
    BY <2>1, <2>2, <2>3 DEF TypeOK, World, Threads
<1>4. ASSUME NEW w \in Workers, NEW set \in Catalog, HandleVerifiedSet(w, set)
      PROVE  World' /\ Threads'
  <2> DEFINE job == [Idle EXCEPT !.subject = set.subject, !.todo = set.events]
  <2>1. job \in Job /\ job.todo # <<>> /\ job.subject \in Subjects
    BY DEF Idle, Job
  <2>2. work' = [work EXCEPT ![w] = job] /\ pc' = [pc EXCEPT ![w] = "event"]
    BY <1>4 DEF HandleVerifiedSet, Goto
  <2> HIDE DEF job
  <2>3. report' = [report EXCEPT ![w] = NoReport] /\ handled' = handled + 1
        /\ UNCHANGED <<apm, subjectOf, purged, expired>>
    BY <1>4 DEF HandleVerifiedSet
  <2>4. World'
    BY <2>3 DEF apm, TypeOK, World
  <2>5. NoReport \in [path : Paths, targeted : Nat, terminated : Nat]
    BY DEF NoReport, Paths
  <2> QED
    BY <2>1, <2>2, <2>3, <2>4, <2>5 DEF TypeOK, Threads, Steps
<1>5. ASSUME NEW w \in Workers, HandleOtherEvent(w) PROVE World' /\ Threads'
  <2>1. World'
    BY <1>5 DEF HandleOtherEvent, apm, TypeOK, World
  <2>2. Threads'
    BY <1>5, EndEventThreads, AbortThreads DEF HandleOtherEvent
  <2> QED
    BY <2>1, <2>2
<1>6. ASSUME NEW w \in Workers, Lookup(w) PROVE World' /\ Threads'
  <2>1. World'
    BY <1>6 DEF Lookup, apm, TypeOK, World
  <2>2. ASSUME Goto(w, "kill"), UNCHANGED report,
               work' = [work EXCEPT ![w].targets = SessionsFor(work[w].subject)]
        PROVE  Threads'
    <3> DEFINE job == [work[w] EXCEPT !.targets = SessionsFor(work[w].subject)]
    <3>1. job \in Job /\ job.todo = work[w].todo /\ job.subject = work[w].subject
      <4>1. work[w] \in Job /\ SessionsFor(work[w].subject) \in SUBSET Sids
        BY DEF TypeOK, SessionsFor
      <4> QED
        BY <4>1 DEF Job
    <3>2. work' = [work EXCEPT ![w] = job] /\ pc' = [pc EXCEPT ![w] = "kill"] /\ pc[w] # "idle"
      BY <1>6, <2>2 DEF Lookup, Goto, TypeOK
    <3> HIDE DEF job
    <3> QED
      BY <2>2, <3>1, <3>2, MoveThreads DEF Steps
  <2> QED
    BY <1>6, <2>1, <2>2, EndEventThreads, AbortThreads DEF Lookup
<1>7. ASSUME NEW w \in Workers, NEW sid \in Sids, NotKilled(w, sid) PROVE World' /\ Threads'
  <2> DEFINE job == [work[w] EXCEPT !.unkilled = @ \cup {sid}]
  <2>1. job \in Job /\ job.todo = work[w].todo /\ job.subject = work[w].subject
    BY WorkType DEF Job
  <2>2. /\ pc[w] = "kill" /\ pc' = [pc EXCEPT ![w] = "kill"]
        /\ work' = [work EXCEPT ![w] = job]
        /\ UNCHANGED <<fastPath, subjectOf, report, handled, started, registered, purged, expired>>
    BY <1>7 DEF NotKilled, TypeOK
  <2>3. live' \subseteq live /\ calls' \in [Sids -> SUBSET {"register", "deregister"}]
    BY <1>7, ClosingType DEF NotKilled, TypeOK
  <2> HIDE DEF job
  <2>4. Threads'
    BY <2>1, <2>2, MoveThreads DEF Steps
  <2> QED
    BY <2>2, <2>3, <2>4 DEF TypeOK, World
<1>8. ASSUME NEW w \in Workers, NEW sid \in Sids, CallBreaks(w, sid) PROVE World' /\ Threads'
  <2>1. live' \subseteq live /\ calls' \in [Sids -> SUBSET {"register", "deregister"}]
    BY <1>8, ClosingType DEF CallBreaks
  <2>2. UNCHANGED <<fastPath, subjectOf, handled, started, registered, purged, expired>> /\ Abort(w)
    BY <1>8 DEF CallBreaks
  <2> QED
    BY <2>1, <2>2, AbortThreads DEF TypeOK, World
<1>9. ASSUME NEW w \in Workers, NEW sid \in Sids, Kill(w, sid) PROVE World' /\ Threads'
  <2> DEFINE job == [work[w] EXCEPT !.victim = sid]
  <2>1. job \in Job /\ job.todo = work[w].todo /\ job.subject = work[w].subject /\ job.victim = sid
    BY WorkType DEF Job
  <2>2. /\ pc[w] = "kill" /\ pc' = [pc EXCEPT ![w] = "drop"]
        /\ work' = [work EXCEPT ![w] = job]
        /\ UNCHANGED <<fastPath, subjectOf, report, handled, started, registered, purged, expired>>
    BY <1>9 DEF Kill, Goto
  <2>3. live' \subseteq live /\ calls' \in [Sids -> SUBSET {"register", "deregister"}]
    BY <1>9, ClosingType DEF Kill
  <2> HIDE DEF job
  <2>4. Threads'
    BY <2>1, <2>2, MoveThreads DEF Steps
  <2> QED
    BY <2>2, <2>3, <2>4 DEF TypeOK, World
<1>10. ASSUME NEW w \in Workers, Drop(w) PROVE World' /\ Threads'
  <2>1. World'
    BY <1>10 DEF Drop, apm, TypeOK, World
  <2>2. ASSUME Goto(w, "kill"), UNCHANGED report,
               work' = [work EXCEPT ![w].terminated = @ \cup {work[w].victim}, ![w].victim = NoSid]
        PROVE  Threads'
    <3> DEFINE job == [work[w] EXCEPT !.terminated = @ \cup {work[w].victim}, !.victim = NoSid]
    <3>1. pc[w] = "drop" /\ work[w].victim \in Sids
      BY <1>10 DEF Drop, TypeOK
    <3>2. job \in Job /\ job.todo = work[w].todo /\ job.subject = work[w].subject
      BY WorkType, <3>1 DEF Job
    <3>3. work' = [work EXCEPT ![w] = job] /\ pc' = [pc EXCEPT ![w] = "kill"]
      BY <2>2 DEF Goto, TypeOK
    <3> HIDE DEF job
    <3> QED
      BY <2>2, <3>1, <3>2, <3>3, MoveThreads DEF Steps
  <2> QED
    BY <1>10, <2>1, <2>2, AbortThreads DEF Drop
<1>11. ASSUME NEW w \in Workers, EndKills(w) PROVE World' /\ Threads'
  <2>1. World'
    BY <1>11 DEF EndKills, apm, TypeOK, World
  <2>2. ASSUME Goto(w, "purge"), UNCHANGED report,
               work' = [work EXCEPT ![w].stale = work[w].unkilled]
        PROVE  Threads'
    <3> DEFINE job == [work[w] EXCEPT !.stale = work[w].unkilled]
    <3>1. job \in Job /\ job.todo = work[w].todo /\ job.subject = work[w].subject
      BY WorkType DEF Job
    <3>2. /\ work' = [work EXCEPT ![w] = job] /\ pc' = [pc EXCEPT ![w] = "purge"]
          /\ pc[w] # "idle"
      BY <1>11, <2>2 DEF EndKills, Goto, TypeOK
    <3> HIDE DEF job
    <3> QED
      BY <2>2, <3>1, <3>2, MoveThreads DEF Steps
  <2> QED
    BY <1>11, <2>1, <2>2, EndEventThreads DEF EndKills
<1>12. ASSUME NEW w \in Workers, Purge(w) PROVE World' /\ Threads'
  <2>1. UNCHANGED <<apm, handled, expired>>
    BY <1>12 DEF Purge
  <2>2. ASSUME NEW sid \in work[w].stale,
               subjectOf' = [subjectOf EXCEPT ![sid] = NoSubject], purged' = purged \cup {sid},
               work' = [work EXCEPT ![w].stale = @ \ {sid}], UNCHANGED <<pc, report>>
        PROVE  Threads'
    <3> DEFINE job == [work[w] EXCEPT !.stale = @ \ {sid}]
    <3>1. job \in Job /\ job.todo = work[w].todo /\ job.subject = work[w].subject
      BY WorkType DEF Job
    <3>2. /\ work' = [work EXCEPT ![w] = job] /\ pc' = [pc EXCEPT ![w] = "purge"]
          /\ pc[w] = "purge"
      BY <1>12, <2>2 DEF Purge, TypeOK
    <3> HIDE DEF job
    <3> QED
      BY <2>2, <3>1, <3>2, MoveThreads DEF Steps
  <2>3. Threads'
    BY <1>12, <2>2, EndEventThreads, AbortThreads DEF Purge
  <2>4. subjectOf' \in [Sids -> Subjects \cup {NoSubject}] /\ purged' \in SUBSET Sids
    <3>1. CASE UNCHANGED <<subjectOf, purged>>
      BY <3>1 DEF TypeOK
    <3>2. ASSUME NEW sid \in work[w].stale,
                 subjectOf' = [subjectOf EXCEPT ![sid] = NoSubject], purged' = purged \cup {sid}
          PROVE  subjectOf' \in [Sids -> Subjects \cup {NoSubject}] /\ purged' \in SUBSET Sids
      <4>1. sid \in Sids
        BY WorkType DEF Job
      <4> QED
        BY <3>2, <4>1 DEF TypeOK
    <3> QED
      BY <1>12, <3>1, <3>2 DEF Purge
  <2> QED
    BY <2>1, <2>3, <2>4 DEF apm, TypeOK, World
<1>13. CASE UNCHANGED vars
  BY <1>13 DEF vars, TypeOK, World, Threads
<1>14. ASSUME NEW sid \in Sids, Expire(sid) PROVE World' /\ Threads'
  BY <1>14 DEF Expire, apm, TypeOK, World, Threads
<1>15. ASSUME NEW w \in Workers, Hang(w) PROVE World' /\ Threads'
  <2>1. UNCHANGED <<apm, work, report, handled, expired>> /\ pc' = [pc EXCEPT ![w] = "hung"] /\ pc[w] # "idle"
    BY <1>15 DEF Hang, Goto
  <2>2. subjectOf' \in [Sids -> Subjects \cup {NoSubject}] /\ purged' \in SUBSET Sids
    BY <1>15, HangEffect DEF TypeOK
  <2> QED
    BY <2>1, <2>2 DEF apm, TypeOK, World, Threads, Steps
<1> QED
  BY <1>1, <1>2, <1>3, <1>4, <1>5, <1>6, <1>7, <1>8, <1>9, <1>10, <1>11, <1>12, <1>13,
     <1>14, <1>15 DEF Next, Step

(* Every reachable state has the types of TypeOK: in particular a busy     *)
(* thread has an event at hand, and a thread about to deregister a session *)
(* knows which.                                                            *)
THEOREM Typing == Spec => []TypeOK
BY InitTypeOK, NextTypeOK, PTL DEF Spec

-----------------------------------------------------------------------------
(* Steps and their effects *)

(* A thread that is through with an event has forgotten its sessions. *)
LEMMA Forgets ==
  ASSUME TypeOK, NEW w \in Workers, pc[w] # "idle", EndEvent(w) \/ Abort(w)
  PROVE  /\ pc'[w] \in {"idle", "event"}
         /\ work'[w].targets = {}
         /\ \A v \in Workers \ {w} : pc'[v] = pc[v] /\ work'[v] = work[v]
<1>1. CASE Abort(w)
  BY <1>1 DEF Abort, Goto, Idle, TypeOK
<1>2. CASE EndEvent(w)
  BY <1>2 DEF EndEvent, Goto, Idle, TypeOK
<1> QED
  BY <1>1, <1>2

(* The sessions a thread works on are those it already had, or the ones it *)
(* has just found mapped.                                                  *)
LEMMA TargetsFound ==
  ASSUME TypeOK, [Next]_vars, NEW v \in Workers, NEW sid \in work'[v].targets
  PROVE  sid \in work[v].targets \/ (sid \in Sids /\ subjectOf[sid] # NoSubject)
<1> USE EnforcementAssumption
<1>1. CASE UNCHANGED work
  BY <1>1
<1>2. ASSUME NEW w \in Workers, NEW set \in Catalog, HandleVerifiedSet(w, set)
      PROVE  sid \in work[v].targets
  BY <1>2 DEF HandleVerifiedSet, Idle, TypeOK
<1>3. ASSUME NEW w \in Workers, pc[w] # "idle", EndEvent(w) \/ Abort(w)
      PROVE  sid \in work[v].targets
  BY <1>3, Forgets
<1>4. ASSUME NEW w \in Workers, Lookup(w), ~EndEvent(w), ~Abort(w)
      PROVE  sid \in work[v].targets \/ (sid \in Sids /\ subjectOf[sid] # NoSubject)
  <2>1. work' = [work EXCEPT ![w].targets = SessionsFor(work[w].subject)] /\ pc[w] = "event"
    BY <1>4 DEF Lookup
  <2>2. work[w].subject # NoSubject
    BY <2>1 DEF TypeOK
  <2>3. CASE v = w
    <3>1. sid \in SessionsFor(work[w].subject)
      BY <2>1, <2>3 DEF TypeOK
    <3> QED
      BY <2>2, <3>1 DEF SessionsFor
  <2>4. CASE v # w
    BY <2>1, <2>4 DEF TypeOK
  <2> QED
    BY <2>3, <2>4
<1>5. ASSUME NEW w \in Workers, NEW job, work' = [work EXCEPT ![w] = job],
             job.targets = work[w].targets
      PROVE  sid \in work[v].targets
  BY <1>5 DEF TypeOK
<1>6. ASSUME NEW w \in Workers, NEW s \in Sids, NotKilled(w, s) \/ Kill(w, s) \/ CallBreaks(w, s)
      PROVE  sid \in work[v].targets
  BY <1>3, <1>5, <1>6, WorkType DEF NotKilled, Kill, CallBreaks, Job
<1>7. ASSUME NEW w \in Workers, Drop(w) \/ EndKills(w) \/ Purge(w)
      PROVE  sid \in work[v].targets
  <2>1. pc[w] # "idle"
    BY <1>7 DEF Drop, EndKills, Purge
  <2>2. \/ EndEvent(w) \/ Abort(w)
        \/ work' = [work EXCEPT ![w].terminated = @ \cup {work[w].victim}, ![w].victim = NoSid]
        \/ \E stale : work' = [work EXCEPT ![w].stale = stale]
    BY <1>7 DEF Drop, EndKills, Purge
  <2> QED
    BY <1>3, <1>5, <2>1, <2>2, WorkType DEF Job
<1>8. ASSUME NEW w \in Workers, HandleOtherEvent(w) PROVE sid \in work[v].targets
  BY <1>3, <1>8 DEF HandleOtherEvent
<1>9. ASSUME NEW w \in Workers, Lookup(w), EndEvent(w) \/ Abort(w) PROVE sid \in work[v].targets
  BY <1>3, <1>9 DEF Lookup
<1>10. ASSUME NEW s \in Sids, Outside(s)
       PROVE  UNCHANGED work
  BY <1>10 DEF Outside, StartSession, CloseSession, Register, Deregister, LoseCall, Expire
<1>11. CASE UNCHANGED vars
  BY <1>1, <1>11 DEF vars
<1>12. ASSUME NEW w \in Workers, Hang(w) PROVE UNCHANGED work
  BY <1>12 DEF Hang
<1> QED
  BY <1>1, <1>2, <1>4, <1>6, <1>7, <1>8, <1>9, <1>10, <1>11, <1>12, NextCases DEF Moves, Step

-----------------------------------------------------------------------------
(* Sessions and their registrations *)

(* What holds under every fault: a session is registered after it starts   *)
(* and only once, its end is announced only when it has ended, and only    *)
(* registered sessions are mapped or targeted.                             *)
Tracked ==
    /\ registered \subseteq started
    /\ \A sid \in Sids : calls[sid] # {} => sid \in started
    /\ \A sid \in live : "deregister" \notin calls[sid]
    /\ \A sid \in Sids : "register" \in calls[sid] => sid \notin registered
    /\ \A sid \in Sids : subjectOf[sid] # NoSubject => sid \in registered
    /\ \A w \in Workers : work[w].targets \subseteq registered

(* The outside world, as a step of a thread may change it: sessions end    *)
(* and are announced, mappings go.                                         *)
ThreadEffect ==
    /\ \E gone \in SUBSET Sids : live' = live \ gone /\ calls' = Closing(gone)
    /\ \A sid \in Sids : subjectOf'[sid] \in {subjectOf[sid], NoSubject}
    /\ UNCHANGED <<fastPath, started, registered>>

LEMMA StepEffect ==
  ASSUME TypeOK, NEW w \in Workers,
         Moves(w)
  PROVE  ThreadEffect
<1>1. ASSUME UNCHANGED <<live, calls>>
      PROVE  \E gone \in SUBSET Sids : live' = live \ gone /\ calls' = Closing(gone)
  <2>1. live' = live \ {} /\ calls' = Closing({})
    BY <1>1 DEF Closing, TypeOK
  <2> QED
    BY <2>1
<1>2. ASSUME UNCHANGED <<apm, subjectOf>> PROVE ThreadEffect
  BY <1>1, <1>2 DEF ThreadEffect, apm
<1>3. ASSUME NEW sid \in Sids, NotKilled(w, sid) \/ CallBreaks(w, sid) \/ Kill(w, sid)
      PROVE  ThreadEffect
  <2>1. UNCHANGED <<fastPath, subjectOf, started, registered>>
    BY <1>3 DEF NotKilled, CallBreaks, Kill
  <2>2. UNCHANGED <<live, calls>> \/ \E gone \in SUBSET Sids : live' = live \ gone /\ calls' = Closing(gone)
    BY <1>3 DEF NotKilled, CallBreaks, Kill
  <2> QED
    BY <1>1, <2>1, <2>2 DEF ThreadEffect
<1>4. ASSUME Drop(w) \/ Purge(w) PROVE ThreadEffect
  <2>1. UNCHANGED apm
    BY <1>4 DEF Drop, Purge
  <2>2. UNCHANGED subjectOf \/ \E sid : subjectOf' = [subjectOf EXCEPT ![sid] = NoSubject]
    BY <1>4 DEF Drop, Purge
  <2>3. \A sid \in Sids : subjectOf'[sid] \in {subjectOf[sid], NoSubject}
    BY <2>2 DEF TypeOK
  <2> QED
    BY <1>1, <2>1, <2>3 DEF ThreadEffect, apm
<1>5. ASSUME Hang(w) PROVE ThreadEffect
  <2>1. UNCHANGED apm
    BY <1>5 DEF Hang
  <2>2. \A sid \in Sids : subjectOf'[sid] \in {subjectOf[sid], NoSubject}
    BY <1>5, HangEffect DEF TypeOK
  <2> QED
    BY <1>1, <2>1, <2>2 DEF ThreadEffect, apm
<1> QED
  BY <1>2, <1>3, <1>4, <1>5 DEF Moves, Step, HandleVerifiedSet, HandleOtherEvent, Lookup, EndKills

LEMMA InitTracked == Init => Tracked
BY EnforcementAssumption DEF Init, Tracked, Idle

LEMMA NextTracked == TypeOK /\ Tracked /\ [Next]_vars => Tracked'
<1> SUFFICES ASSUME TypeOK, Tracked, [Next]_vars PROVE Tracked'
  OBVIOUS
<1> USE EnforcementAssumption
<1>1. registered \subseteq registered' /\ \A w \in Workers : work'[w].targets \subseteq registered'
  <2>1. registered \subseteq registered'
    <3>1. ASSUME NEW sid \in Sids, Outside(sid)
          PROVE  registered \subseteq registered'
      BY <3>1 DEF Outside, StartSession, CloseSession, Register, Deregister, LoseCall, Expire, apm
    <3> QED
      BY <3>1, StepEffect, NextCases DEF ThreadEffect, vars
  <2> QED
    BY <2>1, TargetsFound DEF Tracked
<1>2. ASSUME NEW sid \in Sids, StartSession(sid) PROVE Tracked'
  BY <1>1, <1>2 DEF StartSession, Tracked, TypeOK
<1>3. ASSUME NEW sid \in Sids, CloseSession(sid) PROVE Tracked'
  BY <1>1, <1>3 DEF CloseSession, Closing, Tracked, TypeOK
<1>4. ASSUME NEW sid \in Sids, Register(sid) PROVE Tracked'
  BY <1>1, <1>4 DEF Register, Tracked, TypeOK
<1>5. ASSUME NEW sid \in Sids, Deregister(sid) \/ LoseCall(sid) \/ Expire(sid) PROVE Tracked'
  <2>1. /\ \A s \in Sids : calls'[s] \subseteq calls[s]
        /\ \A s \in Sids : subjectOf'[s] \in {subjectOf[s], NoSubject}
        /\ UNCHANGED <<live, started, registered>>
    <3>1. CASE Deregister(sid)
      BY <3>1 DEF Deregister, TypeOK
    <3>2. CASE LoseCall(sid)
      BY <3>2 DEF LoseCall, TypeOK
    <3>3. CASE Expire(sid)
      BY <3>3 DEF Expire, apm, TypeOK
    <3> QED
      BY <1>5, <3>1, <3>2, <3>3
  <2> QED
    BY <1>1, <2>1 DEF Tracked, TypeOK
<1>6. ASSUME ThreadEffect PROVE Tracked'
  BY <1>1, <1>6 DEF ThreadEffect, Closing, Tracked, TypeOK
<1>7. CASE UNCHANGED vars
  BY <1>7 DEF vars, Tracked
<1> QED
  BY <1>2, <1>3, <1>4, <1>5, <1>6, <1>7, StepEffect, NextCases DEF Outside

LEMMA AlwaysTracked == Spec => [](TypeOK /\ Tracked)
BY InitTypeOK, NextTypeOK, InitTracked, NextTracked, PTL DEF Spec

-----------------------------------------------------------------------------
(* A session that can still be killed stays mapped *)

(* What a kill that was answered below 400 has to mean. *)
KillsLand == \A w \in Workers : pc[w] = "drop" => work[w].victim \in started \ live

LEMMA InitKillsLand == Init => KillsLand
BY DEF Init, KillsLand

LEMMA NextKillsLand ==
  ASSUME "silent" \notin Faults, TypeOK, Tracked, KillsLand, [Next]_vars
  PROVE  KillsLand'
<1> USE EnforcementAssumption
<1>1. ASSUME NEW sid \in Sids, Outside(sid)
      PROVE  KillsLand'
  BY <1>1 DEF Outside, StartSession, CloseSession, Register, Deregister, LoseCall, Expire, apm, KillsLand
<1>2. ASSUME NEW w \in Workers, live' \subseteq live, UNCHANGED started,
             \A v \in Workers \ {w} : pc'[v] = pc[v] /\ work'[v] = work[v],
             pc'[w] = "drop" => work'[w].victim \in started \ live'
      PROVE  KillsLand'
  BY <1>2 DEF KillsLand
<1>3. ASSUME NEW w \in Workers, NEW sid \in Sids, Kill(w, sid) PROVE KillsLand'
  <2>1. /\ live' = live \ {sid} /\ UNCHANGED started
        /\ pc' = [pc EXCEPT ![w] = "drop"] /\ work' = [work EXCEPT ![w].victim = sid]
        /\ sid \in work[w].targets
    BY <1>3 DEF Kill, Goto, Remaining
  <2>2. sid \in started
    BY <2>1 DEF Tracked
  <2>3. work'[w].victim = sid
    BY <2>1, WorkType DEF Job, TypeOK
  <2> QED
    BY <1>2, <2>1, <2>2, <2>3 DEF TypeOK
<1>4. ASSUME NEW w \in Workers, Moves(w),
             ~ \E sid \in Sids : Kill(w, sid)
      PROVE  KillsLand'
  <2>1. live' \subseteq live /\ UNCHANGED started
    BY <1>4, StepEffect DEF ThreadEffect
  <2>2. pc'[w] # "drop" /\ \A v \in Workers \ {w} : pc'[v] = pc[v] /\ work'[v] = work[v]
    <3>1. ASSUME pc[w] # "idle", EndEvent(w) \/ Abort(w)
          PROVE  pc'[w] # "drop" /\ \A v \in Workers \ {w} : pc'[v] = pc[v] /\ work'[v] = work[v]
      BY <3>1, Forgets
    <3>2. CASE \E set \in Catalog : HandleVerifiedSet(w, set)
      BY <3>2 DEF HandleVerifiedSet, Goto, TypeOK
    <3>3. CASE HandleOtherEvent(w) \/ Lookup(w)
      BY <3>1, <3>3 DEF HandleOtherEvent, Lookup, Goto, TypeOK
    <3>4. ASSUME NEW sid \in Sids, NotKilled(w, sid) \/ CallBreaks(w, sid)
          PROVE  pc'[w] # "drop" /\ \A v \in Workers \ {w} : pc'[v] = pc[v] /\ work'[v] = work[v]
      BY <3>1, <3>4 DEF NotKilled, CallBreaks, TypeOK
    <3>5. CASE Drop(w) \/ EndKills(w) \/ Purge(w)
      BY <3>1, <3>5 DEF Drop, EndKills, Purge, Goto, TypeOK
    <3>6. CASE Hang(w)
      BY <3>6 DEF Hang, Goto, TypeOK
    <3> QED
      BY <1>4, <3>2, <3>3, <3>4, <3>5, <3>6 DEF Moves, Step
  <2> QED
    BY <1>2, <2>1, <2>2
<1>5. CASE UNCHANGED vars
  BY <1>5 DEF vars, KillsLand
<1> QED
  BY <1>1, <1>3, <1>4, <1>5, NextCases

LEMMA NextLiveStaysMapped ==
  ASSUME TypeOK, Tracked, KillsLand, LiveStaysMapped, [Next]_vars
  PROVE  LiveStaysMapped'
<1> USE EnforcementAssumption
<1>1. ASSUME NEW sid \in Sids, StartSession(sid) \/ CloseSession(sid) \/ LoseCall(sid) PROVE LiveStaysMapped'
  BY <1>1 DEF StartSession, CloseSession, LoseCall, LiveStaysMapped, Tracked
<1>2. ASSUME NEW sid \in Sids, Register(sid) \/ Deregister(sid) PROVE LiveStaysMapped'
  <2>1. CASE Register(sid)
    <3>1. /\ subjectOf' = [subjectOf EXCEPT ![sid] = Owner[sid]]
          /\ registered' = registered \cup {sid}
          /\ UNCHANGED <<live, purged, expired>>
      BY <2>1 DEF Register
    <3> QED
      BY <3>1 DEF LiveStaysMapped, TypeOK
  <2>2. CASE Deregister(sid)
    <3>1. /\ subjectOf' = [subjectOf EXCEPT ![sid] = NoSubject]
          /\ UNCHANGED <<live, registered, purged, expired>>
      BY <2>2 DEF Deregister
    <3>2. sid \notin live
      BY <2>2 DEF Deregister, Tracked
    <3> QED
      BY <3>1, <3>2 DEF LiveStaysMapped, TypeOK
  <2> QED
    BY <1>2, <2>1, <2>2
<1>3. ASSUME NEW w \in Workers, Moves(w)
      PROVE  LiveStaysMapped'
  <2>1. live' \subseteq live /\ UNCHANGED <<registered, expired>>
    <3>1. live' \subseteq live /\ UNCHANGED registered
      BY <1>3, StepEffect DEF ThreadEffect
    <3>2. UNCHANGED expired
      BY <1>3 DEF Moves, Step, HandleVerifiedSet, HandleOtherEvent, Lookup, NotKilled, CallBreaks,
                  Kill, Drop, EndKills, Purge, Hang
    <3> QED
      BY <3>1, <3>2
  <2>2. ASSUME UNCHANGED <<subjectOf, purged>> PROVE LiveStaysMapped'
    BY <2>1, <2>2 DEF LiveStaysMapped
  <2>3. ASSUME Drop(w) PROVE LiveStaysMapped'
    <3>1. UNCHANGED subjectOf \/ subjectOf' = [subjectOf EXCEPT ![work[w].victim] = NoSubject]
      BY <2>3 DEF Drop
    <3>2. work[w].victim \notin live /\ UNCHANGED purged
      BY <2>3 DEF Drop, KillsLand
    <3> QED
      BY <2>1, <3>1, <3>2 DEF LiveStaysMapped, TypeOK
  <2>4. ASSUME Purge(w) PROVE LiveStaysMapped'
    <3>1. \/ UNCHANGED <<subjectOf, purged>>
          \/ \E sid : /\ subjectOf' = [subjectOf EXCEPT ![sid] = NoSubject]
                      /\ purged' = purged \cup {sid}
      BY <2>4 DEF Purge
    <3> QED
      BY <2>1, <3>1 DEF LiveStaysMapped, TypeOK
  <2>5. ASSUME Hang(w) PROVE LiveStaysMapped'
    <3>1. CASE UNCHANGED <<subjectOf, purged>>
      BY <2>2, <3>1
    <3>2. CASE pc[w] = "drop" /\ subjectOf' = [subjectOf EXCEPT ![work[w].victim] = NoSubject]
               /\ UNCHANGED purged
      BY <2>1, <3>2 DEF LiveStaysMapped, KillsLand, TypeOK
    <3>3. CASE \E sid \in Sids : /\ subjectOf' = [subjectOf EXCEPT ![sid] = NoSubject]
                                /\ purged' = purged \cup {sid}
      BY <2>1, <3>3 DEF LiveStaysMapped, TypeOK
    <3> QED
      BY <2>5, <3>1, <3>2, <3>3, HangEffect
  <2> QED
    BY <1>3, <2>2, <2>3, <2>4, <2>5 DEF Moves, Step, HandleVerifiedSet, HandleOtherEvent, Lookup,
       NotKilled, CallBreaks, Kill, EndKills
<1>4. CASE UNCHANGED vars
  BY <1>4 DEF vars, LiveStaysMapped
<1>5. ASSUME NEW sid \in Sids, Expire(sid) PROVE LiveStaysMapped'
  BY <1>5 DEF Expire, apm, LiveStaysMapped, TypeOK
<1> QED
  BY <1>1, <1>2, <1>3, <1>4, <1>5, NextCases DEF Outside

(* However the iRule's calls are lost or reordered and whichever stores    *)
(* and REST calls fail, as long as an answer below 400 means a dead        *)
(* session (_run_tmsh does not read the body), the bridge forgets no       *)
(* registered session that it could still kill before its record is due to *)
(* expire.                                                                 *)
THEOREM LiveStaysMappedHolds ==
  ASSUME "silent" \notin Faults
  PROVE  Spec => []LiveStaysMapped
<1>1. Init => LiveStaysMapped
  BY EnforcementAssumption DEF Init, LiveStaysMapped
<1>2. TypeOK /\ Tracked /\ KillsLand /\ LiveStaysMapped /\ [Next]_vars
        => KillsLand' /\ LiveStaysMapped'
  BY NextKillsLand, NextLiveStaysMapped
<1> QED
  BY <1>1, <1>2, AlwaysTracked, InitKillsLand, PTL DEF Spec

-----------------------------------------------------------------------------
(* No mapping outlives its session *)

(* A session that has ended is unmapped, or its deregistration is coming,  *)
(* behind its registration if that is still on its way.                    *)
Announced ==
    \A sid \in Sids \ live :
        subjectOf[sid] # NoSubject \/ "register" \in calls[sid] => "deregister" \in calls[sid]

LEMMA InitAnnounced == Init => Announced
BY DEF Init, Announced

LEMMA NextAnnounced ==
  ASSUME Faults \cap {"lost", "reorder"} = {}, TypeOK, Announced, [Next]_vars
  PROVE  Announced'
<1> USE EnforcementAssumption
<1>1. ASSUME NEW sid \in Sids, StartSession(sid) PROVE Announced'
  BY <1>1 DEF StartSession, Announced, TypeOK
<1>2. ASSUME NEW sid \in Sids, CloseSession(sid) PROVE Announced'
  BY <1>2 DEF CloseSession, Closing, Announced, TypeOK
<1>3. ASSUME NEW sid \in Sids, Register(sid) PROVE Announced'
  BY <1>3 DEF Register, Announced, TypeOK
<1>4. ASSUME NEW sid \in Sids, Deregister(sid) \/ Expire(sid) PROVE Announced'
  <2>1. CASE Deregister(sid)
    BY <2>1 DEF Deregister, Announced, TypeOK
  <2>2. CASE Expire(sid)
    BY <2>2 DEF Expire, apm, Announced, TypeOK
  <2> QED
    BY <1>4, <2>1, <2>2
<1>5. ~ \E sid \in Sids : LoseCall(sid)
  BY DEF LoseCall
<1>6. ASSUME ThreadEffect PROVE Announced'
  BY <1>6 DEF ThreadEffect, Closing, Announced, TypeOK
<1>7. CASE UNCHANGED vars
  BY <1>7 DEF vars, Announced
<1> QED
  BY <1>1, <1>2, <1>3, <1>4, <1>5, <1>6, <1>7, StepEffect, NextCases DEF Outside

(* When the iRule's calls arrive, in order, the mapping leads nowhere only *)
(* while a deregistration or a thread is still under way, whatever fails   *)
(* inside the bridge and however kills, purges and log-outs interleave.    *)
THEOREM NoStaleMappingHolds ==
  ASSUME Faults \cap {"lost", "reorder"} = {}
  PROVE  Spec => []NoStaleMapping
<1>1. Announced => NoStaleMapping
  BY DEF Announced, NoStaleMapping, Quiet
<1>2. TypeOK /\ Announced /\ [Next]_vars => Announced'
  BY NextAnnounced
<1> QED
  BY <1>1, <1>2, Typing, InitAnnounced, PTL DEF Spec

-----------------------------------------------------------------------------
(* A purge drops every session it looked up *)

Unmapped(sid) == subjectOf[sid] = NoSubject

(* The sessions of a thread are accounted for: killed and unmapped, not    *)
(* killed, or still to come; a purge has unmapped all but the stale ones.  *)
Accounted(w) ==
    /\ work[w].terminated \cup work[w].unkilled \subseteq work[w].targets
    /\ \A sid \in work[w].terminated : Unmapped(sid)
    /\ pc[w] \in {"idle", "event"} => work[w].terminated = {} /\ work[w].unkilled = {}
    /\ pc[w] = "drop" => work[w].victim \in work[w].targets
    /\ pc[w] = "purge" =>
           /\ Remaining(w) = {}
           /\ work[w].stale \subseteq work[w].unkilled
           /\ \A sid \in work[w].unkilled \ work[w].stale : Unmapped(sid)

AllAccounted == \A w \in Workers : Accounted(w)

LEMMA InitAccounted == Init => AllAccounted
BY DEF Init, AllAccounted, Accounted, Idle

(* A session is registered once: what was unmapped stays unmapped. *)
LEMMA StaysUnmapped ==
  ASSUME TypeOK, Tracked, [Next]_vars, NEW sid \in registered, Unmapped(sid)
  PROVE  Unmapped(sid)'
<1>1. sid \in Sids
  BY DEF TypeOK
<1>2. ASSUME NEW s \in Sids, Outside(s)
      PROVE  Unmapped(sid)'
  BY <1>1, <1>2 DEF Outside, StartSession, CloseSession, Register, Deregister, LoseCall, Expire, apm,
     Unmapped, Tracked, TypeOK
<1>3. ASSUME ThreadEffect PROVE Unmapped(sid)'
  BY <1>1, <1>3 DEF ThreadEffect, Unmapped
<1>4. CASE UNCHANGED vars
  BY <1>4 DEF vars, Unmapped
<1> QED
  BY <1>2, <1>3, <1>4, StepEffect, NextCases

(* The account of a thread at rest is not disturbed by the others. *)
LEMMA KeepsAccount ==
  ASSUME TypeOK, Tracked, [Next]_vars, NEW w \in Workers, Accounted(w),
         pc'[w] = pc[w], work'[w] = work[w]
  PROVE  Accounted(w)'
<1>1. \A sid \in work[w].targets : Unmapped(sid) => Unmapped(sid)'
  BY StaysUnmapped DEF Tracked
<1> QED
  BY <1>1 DEF Accounted, Remaining

LEMMA FreshAccount ==
  ASSUME NEW w \in Workers, pc'[w] \in {"idle", "event"},
         work'[w].terminated = {}, work'[w].unkilled = {}
  PROVE  Accounted(w)'
BY DEF Accounted

(* The steps of a thread, each with what it leaves in the thread's account. *)
LEMMA StepAccounted ==
  ASSUME Faults \cap {"transport", "store"} = {}, TypeOK, Tracked, [Next]_vars,
         NEW w \in Workers, Accounted(w),
         Moves(w)
  PROVE  /\ Accounted(w)'
         /\ \A v \in Workers \ {w} : pc'[v] = pc[v] /\ work'[v] = work[v]
         /\ pc[w] \in FastSteps /\ pc'[w] \in {"idle", "event"} /\ Event(w) \in PurgeEvents =>
                \A sid \in work[w].targets : Unmapped(sid)'
<1> DEFINE Others == \A v \in Workers \ {w} : pc'[v] = pc[v] /\ work'[v] = work[v]
           Dropped == \A sid \in work[w].targets : Unmapped(sid)'
<1>1. \A sid \in work[w].targets : Unmapped(sid) => Unmapped(sid)'
  BY StaysUnmapped DEF Tracked
<1>2. work[w] \in Job
  BY WorkType
<1>3. ASSUME pc[w] # "idle", EndEvent(w)
      PROVE  Accounted(w)' /\ Others /\ pc'[w] \in {"idle", "event"}
  <2>1. work'[w].terminated = {} /\ work'[w].unkilled = {}
    BY <1>3 DEF EndEvent, Idle, TypeOK
  <2> QED
    BY <1>3, <2>1, Forgets, FreshAccount
<1>4. ASSUME NEW set \in Catalog, HandleVerifiedSet(w, set)
      PROVE  Accounted(w)' /\ Others /\ pc[w] \notin FastSteps
  <2>1. /\ pc'[w] = "event" /\ Others
        /\ work'[w].terminated = {} /\ work'[w].unkilled = {}
    BY <1>4 DEF HandleVerifiedSet, Goto, Idle, TypeOK
  <2> QED
    BY <1>4, <2>1, FreshAccount DEF HandleVerifiedSet, FastSteps
<1>5. ASSUME HandleOtherEvent(w) PROVE Accounted(w)' /\ Others /\ pc[w] \notin FastSteps
  <2>1. ASSUME Abort(w) PROVE Accounted(w)' /\ Others
    <3>1. work'[w].terminated = {} /\ work'[w].unkilled = {} /\ pc'[w] = "idle"
      BY <2>1 DEF Abort, Goto, Idle, TypeOK
    <3> QED
      BY <1>5, <2>1, <3>1, Forgets, FreshAccount DEF HandleOtherEvent
  <2> QED
    BY <1>3, <1>5, <2>1 DEF HandleOtherEvent, FastSteps
<1>6. ASSUME Lookup(w) PROVE Accounted(w)' /\ Others /\ pc[w] \notin FastSteps
  <2>1. ASSUME Goto(w, "kill"), work' = [work EXCEPT ![w].targets = SessionsFor(work[w].subject)]
        PROVE  Accounted(w)' /\ Others
    <3>1. /\ pc'[w] = "kill" /\ Others
          /\ work'[w] = [work[w] EXCEPT !.targets = SessionsFor(work[w].subject)]
      BY <2>1 DEF Goto, TypeOK
    <3>2. work'[w].terminated = {} /\ work'[w].unkilled = {}
      BY <1>2, <1>6, <3>1 DEF Lookup, Accounted, Job
    <3> QED
      BY <3>1, <3>2 DEF Accounted
  <2> QED
    BY <1>3, <1>6, <2>1 DEF Lookup, FastSteps
<1>7. ASSUME NEW sid \in Sids, NotKilled(w, sid)
      PROVE  Accounted(w)' /\ Others /\ pc'[w] = "kill"
  <2>1. /\ pc[w] = "kill" /\ pc' = pc /\ Others /\ sid \in work[w].targets
        /\ work'[w] = [work[w] EXCEPT !.unkilled = @ \cup {sid}]
    BY <1>7 DEF NotKilled, Remaining, TypeOK
  <2>2. /\ work'[w].targets = work[w].targets /\ work'[w].terminated = work[w].terminated
        /\ work'[w].unkilled = work[w].unkilled \cup {sid}
    BY <1>2, <2>1 DEF Job
  <2> QED
    BY <1>1, <2>1, <2>2 DEF Accounted
<1>8. ~ \E sid \in Sids : CallBreaks(w, sid)
  BY DEF CallBreaks
<1>9. ASSUME NEW sid \in Sids, Kill(w, sid)
      PROVE  Accounted(w)' /\ Others /\ pc'[w] = "drop"
  <2>1. /\ pc[w] = "kill" /\ pc'[w] = "drop" /\ Others /\ sid \in work[w].targets
        /\ work'[w] = [work[w] EXCEPT !.victim = sid]
    BY <1>9 DEF Kill, Goto, Remaining, TypeOK
  <2>2. /\ work'[w].targets = work[w].targets /\ work'[w].terminated = work[w].terminated
        /\ work'[w].unkilled = work[w].unkilled /\ work'[w].victim = sid
    BY <1>2, <2>1 DEF Job
  <2> QED
    BY <1>1, <2>1, <2>2 DEF Accounted
<1>10. ASSUME Drop(w) PROVE Accounted(w)' /\ Others /\ pc'[w] = "kill"
  <2>1. /\ pc[w] = "drop" /\ pc'[w] = "kill" /\ Others
        /\ work'[w] = [work[w] EXCEPT !.terminated = @ \cup {work[w].victim}, !.victim = NoSid]
        /\ subjectOf' = [subjectOf EXCEPT ![work[w].victim] = NoSubject]
    BY <1>10 DEF Drop, Goto, TypeOK
  <2>2. /\ work'[w].targets = work[w].targets /\ work'[w].unkilled = work[w].unkilled
        /\ work'[w].terminated = work[w].terminated \cup {work[w].victim}
    BY <1>2, <2>1 DEF Job
  <2>3. subjectOf'[work[w].victim] = NoSubject
    BY <2>1 DEF TypeOK
  <2>4. \A sid \in work'[w].terminated : Unmapped(sid)'
    BY <1>1, <2>2, <2>3 DEF Accounted, Unmapped
  <2>5. work'[w].terminated \cup work'[w].unkilled \subseteq work'[w].targets
    BY <2>1, <2>2 DEF Accounted
  <2> QED
    BY <2>1, <2>4, <2>5 DEF Accounted
<1>11. ASSUME EndKills(w)
       PROVE  Accounted(w)' /\ Others /\ (pc'[w] \in FastSteps \/ Event(w) \notin PurgeEvents \/ Dropped)
  <2>1. pc[w] = "kill" /\ work[w].targets \subseteq work[w].terminated \cup work[w].unkilled
    BY <1>11 DEF EndKills, Remaining
  <2>2. ASSUME Goto(w, "purge"), work' = [work EXCEPT ![w].stale = work[w].unkilled]
        PROVE  Accounted(w)' /\ Others /\ pc'[w] \in FastSteps
    <3>1. /\ pc'[w] = "purge" /\ Others
          /\ work'[w] = [work[w] EXCEPT !.stale = work[w].unkilled]
      BY <2>2 DEF Goto, TypeOK
    <3>2. /\ work'[w].targets = work[w].targets /\ work'[w].terminated = work[w].terminated
          /\ work'[w].unkilled = work[w].unkilled /\ work'[w].stale = work[w].unkilled
      BY <1>2, <3>1 DEF Job
    <3> QED
      BY <1>1, <2>1, <3>1, <3>2 DEF Accounted, Remaining, FastSteps
  <2>3. ASSUME work[w].unkilled = {} PROVE Dropped
    BY <1>1, <2>1, <2>3 DEF Accounted
  <2> QED
    BY <1>3, <1>11, <2>1, <2>2, <2>3 DEF EndKills
<1>12. ASSUME Purge(w)
       PROVE  Accounted(w)' /\ Others /\ (pc'[w] \in FastSteps \/ Dropped)
  <2>1. PICK sid \in work[w].stale :
           /\ subjectOf' = [subjectOf EXCEPT ![sid] = NoSubject]
           /\ IF work[w].stale = {sid}
              THEN EndEvent(w)
              ELSE work' = [work EXCEPT ![w].stale = @ \ {sid}] /\ UNCHANGED pc
    BY <1>12 DEF Purge
  <2>2. pc[w] = "purge" /\ work[w].targets \subseteq work[w].terminated \cup work[w].unkilled
    BY <1>12 DEF Purge, Accounted, Remaining
  <2>3. Unmapped(sid)'
    BY <1>2, <2>1 DEF Unmapped, TypeOK, Job
  <2>4. CASE work[w].stale = {sid}
    <3>1. Dropped
      BY <1>1, <2>2, <2>3, <2>4 DEF Accounted
    <3> QED
      BY <1>3, <2>1, <2>2, <2>4, <3>1
  <2>5. CASE work[w].stale # {sid}
    <3>1. /\ pc'[w] = "purge" /\ Others
          /\ work'[w] = [work[w] EXCEPT !.stale = @ \ {sid}]
      BY <2>1, <2>2, <2>5 DEF TypeOK
    <3>2. /\ work'[w].targets = work[w].targets /\ work'[w].terminated = work[w].terminated
          /\ work'[w].unkilled = work[w].unkilled /\ work'[w].stale = work[w].stale \ {sid}
      BY <1>2, <3>1 DEF Job
    <3> QED
      BY <1>1, <2>2, <2>3, <3>1, <3>2 DEF Accounted, Remaining, FastSteps
  <2> QED
    BY <2>4, <2>5
<1>13. ASSUME Hang(w) PROVE Accounted(w)' /\ Others /\ pc'[w] = "hung"
  <2>1. pc'[w] = "hung" /\ Others /\ work'[w] = work[w]
    BY <1>13 DEF Hang, Goto, TypeOK
  <2> QED
    BY <1>1, <2>1 DEF Accounted
<1> QED
  BY <1>4, <1>5, <1>6, <1>7, <1>8, <1>9, <1>10, <1>11, <1>12, <1>13 DEF Moves, Step, FastSteps

LEMMA NextAccounted ==
  ASSUME Faults \cap {"transport", "store"} = {}, TypeOK, Tracked, AllAccounted, [Next]_vars
  PROVE  AllAccounted'
<1> SUFFICES ASSUME NEW v \in Workers PROVE Accounted(v)'
  BY DEF AllAccounted
<1>1. Accounted(v)
  BY DEF AllAccounted
<1>2. ASSUME UNCHANGED <<pc, work>> PROVE Accounted(v)'
  BY <1>1, <1>2, KeepsAccount
<1>3. ASSUME NEW sid \in Sids, Outside(sid)
      PROVE  UNCHANGED <<pc, work>>
  BY <1>3 DEF Outside, StartSession, CloseSession, Register, Deregister, LoseCall, Expire, apm
<1>4. ASSUME NEW w \in Workers, Moves(w)
      PROVE  Accounted(v)'
  <2>1. CASE v = w
    BY <1>1, <1>4, <2>1, StepAccounted
  <2>2. CASE v # w
    <3>1. Accounted(w)
      BY DEF AllAccounted
    <3>2. pc'[v] = pc[v] /\ work'[v] = work[v]
      BY <1>4, <2>2, <3>1, StepAccounted
    <3> QED
      BY <1>1, <3>2, KeepsAccount
  <2> QED
    BY <2>1, <2>2
<1>5. CASE UNCHANGED vars
  BY <1>2, <1>5 DEF vars
<1> QED
  BY <1>2, <1>3, <1>4, <1>5, NextCases

LEMMA StepDrops ==
  ASSUME Faults \cap {"transport", "store"} = {}, TypeOK, Tracked, AllAccounted, [Next]_vars,
         NEW v \in Workers, pc[v] \in FastSteps, pc'[v] \in {"idle", "event"}, Event(v) \in PurgeEvents
  PROVE  \A sid \in work[v].targets : subjectOf'[sid] = NoSubject
<1>1. \A w \in Workers : Accounted(w)
  BY DEF AllAccounted
<1>2. PICK w \in Workers : Moves(w)
  <2>1. ASSUME NEW sid \in Sids, Outside(sid)
        PROVE  UNCHANGED pc
    BY <2>1 DEF Outside, StartSession, CloseSession, Register, Deregister, LoseCall, Expire, apm
  <2>2. pc' # pc
    BY DEF FastSteps
  <2> QED
    BY <2>1, <2>2, NextCases DEF vars
<1>3. w = v
  BY <1>1, <1>2, StepAccounted DEF FastSteps
<1> QED
  BY <1>1, <1>2, <1>3, StepAccounted DEF Unmapped

(* When no store or REST call breaks, an account-purged or                 *)
(* account-disabled that is through has unmapped every session it looked   *)
(* up, killed or not, and no registration that is still on its way brings  *)
(* one back.                                                               *)
THEOREM PurgeDropsEveryTargetHolds ==
  ASSUME Faults \cap {"transport", "store"} = {}
  PROVE  Spec => PurgeDropsEveryTarget
<1>1. TypeOK /\ Tracked /\ AllAccounted /\ [Next]_vars => AllAccounted'
  BY NextAccounted
<1>2. TypeOK /\ Tracked /\ AllAccounted /\ [Next]_vars =>
        [\A w \in Workers :
            pc[w] \in FastSteps /\ pc'[w] \in {"idle", "event"} /\ Event(w) \in PurgeEvents =>
                \A sid \in work[w].targets : subjectOf'[sid] = NoSubject]_vars
  BY StepDrops
<1> QED
  BY <1>1, <1>2, AlwaysTracked, InitAccounted, PTL DEF Spec, PurgeDropsEveryTarget
-----------------------------------------------------------------------------
(* A fast event costs no other *)

(* The one way out of a SET that may leave events behind. *)
CutShort(w) == HandleOtherEvent(w) /\ Path(Event(w)) = "continuous"

LEMMA LeavesWithLastEvent ==
  ASSUME Faults \cap {"transport", "store"} = {}, TypeOK, [Next]_vars,
         NEW v \in Workers, pc[v] # "idle", pc'[v] = "idle"
  PROVE  Len(work[v].todo) = 1 \/ Path(Event(v)) = "continuous"
<1> SUFFICES ASSUME Path(Event(v)) # "continuous" PROVE Len(work[v].todo) = 1
  OBVIOUS
<1>1. PICK w \in Workers : Moves(w)
  <2>1. ASSUME NEW sid \in Sids, Outside(sid)
        PROVE  UNCHANGED pc
    BY <2>1 DEF Outside, StartSession, CloseSession, Register, Deregister, LoseCall, Expire, apm
  <2>2. pc' # pc
    OBVIOUS
  <2> QED
    BY <2>1, <2>2, NextCases DEF vars
<1>2. v = w /\ EndEvent(v)
  <2>1. CASE EndEvent(w)
    BY <2>1 DEF EndEvent, Goto, TypeOK
  <2>2. CASE CutShort(w) /\ ~EndEvent(w)
    <3>1. Abort(w) /\ Path(Event(w)) = "continuous"
      BY <2>2 DEF CutShort, HandleOtherEvent
    <3> QED
      BY <3>1 DEF Abort, Goto, TypeOK
  <2>3. ASSUME ~EndEvent(w), ~CutShort(w) PROVE pc' = pc \/ \E step \in Steps \ {"idle"} : Goto(w, step)
    <3>1. CASE \E set \in Catalog : HandleVerifiedSet(w, set)
      BY <3>1 DEF HandleVerifiedSet, Steps
    <3>2. CASE HandleOtherEvent(w) \/ Lookup(w)
      BY <2>3, <3>2 DEF CutShort, HandleOtherEvent, Lookup, Steps
    <3>3. CASE \E sid \in Sids : NotKilled(w, sid) \/ CallBreaks(w, sid) \/ Kill(w, sid)
      BY <3>3 DEF NotKilled, CallBreaks, Kill, Steps
    <3>4. CASE Drop(w) \/ EndKills(w) \/ Purge(w)
      BY <2>3, <3>4 DEF Drop, EndKills, Purge, Steps
    <3>5. CASE Hang(w)
      BY <3>5 DEF Hang, Steps
    <3> QED
      BY <1>1, <3>1, <3>2, <3>3, <3>4, <3>5 DEF Moves, Step
  <2> QED
    BY <2>1, <2>2, <2>3 DEF Goto, TypeOK
<1>3. work[v].todo \in Seq(STRING) /\ work[v].todo # <<>>
  BY DEF TypeOK, Job
<1>4. Tail(work[v].todo) = <<>>
  BY <1>2 DEF EndEvent, Goto, TypeOK
<1>5. Len(Tail(work[v].todo)) = Len(work[v].todo) - 1
  BY <1>3, HeadTailProperties, Zenon
<1>6. Len(work[v].todo) \in Nat
  BY <1>3
<1>7. Len(Tail(work[v].todo)) = 0
  BY <1>4, EmptySeq, Zenon
<1> QED
  BY ONLY <1>5, <1>6, <1>7

(* When no store or REST call breaks, a thread leaves a SET only when      *)
(* every event of it was handled or a continuous event raised, whatever    *)
(* BIG-IP answered to the kills of the fast ones.                          *)
THEOREM FastEventsCostNoOtherHolds ==
  ASSUME Faults \cap {"transport", "store"} = {}
  PROVE  Spec => FastEventsCostNoOther
<1>1. TypeOK /\ [Next]_vars =>
        [\A w \in Workers :
            pc[w] # "idle" /\ pc'[w] = "idle" =>
                Len(work[w].todo) = 1 \/ Path(Event(w)) = "continuous"]_vars
  BY LeavesWithLastEvent
<1> QED
  BY <1>1, Typing, PTL DEF Spec, FastEventsCostNoOther

-----------------------------------------------------------------------------
(* The summary counts no session twice *)

(* The sessions that no lookup returns any more. *)
Gone == {sid \in registered : Unmapped(sid)}

(* What a thread has counted was gone before it looked its targets up, and *)
(* what it is about to count is gone, but among its targets.               *)
Counted(w) ==
    /\ work[w].terminated \subseteq Gone \cap work[w].targets
    /\ pc[w] \in {"idle", "event"} => work[w].terminated = {}
    /\ pc[w] = "drop" => work[w].victim \in work[w].targets
    /\ report[w].terminated <= Cardinality(Gone \ work[w].targets)

AllCounted == \A w \in Workers : Counted(w)

LEMMA SessionsFinite == \A S \in SUBSET Sids : IsFiniteSet(S) /\ Cardinality(S) \in Nat
BY EnforcementAssumption, FS_Subset, FS_CardinalityType

LEMMA GoneGrows ==
  ASSUME TypeOK, Tracked, [Next]_vars
  PROVE  Gone \subseteq Gone'
<1>1. registered \subseteq registered'
  <2>1. ASSUME NEW sid \in Sids, Outside(sid)
        PROVE  registered \subseteq registered'
    BY <2>1 DEF Outside, StartSession, CloseSession, Register, Deregister, LoseCall, Expire, apm
  <2> QED
    BY <2>1, StepEffect, NextCases DEF ThreadEffect, vars
<1> QED
  BY <1>1, StaysUnmapped DEF Gone

(* Fewer targets, or more sessions gone, leave room for the count. *)
LEMMA RoomGrows ==
  ASSUME TypeOK, TypeOK', Tracked, [Next]_vars, NEW S, NEW T, Gone' \cap T \subseteq S
  PROVE  Cardinality(Gone \ S) <= Cardinality(Gone' \ T)
<1>1. Gone \ S \subseteq Gone' \ T
  BY GoneGrows
<1>2. IsFiniteSet(Gone' \ T)
  BY SessionsFinite DEF Gone, TypeOK
<1> QED
  BY <1>1, <1>2, FS_Subset

(* A step of a thread that stays at its event; or of another thread. *)
LEMMA StaysCounted ==
  ASSUME TypeOK, TypeOK', Tracked, [Next]_vars, NEW w \in Workers, Counted(w),
         work'[w].targets = work[w].targets,
         work'[w].terminated = work[w].terminated,
         report'[w] = report[w],
         pc'[w] = "drop" => work'[w].victim \in work[w].targets,
         pc'[w] \in {"idle", "event"} => work[w].terminated = {}
  PROVE  Counted(w)'
<1>1. Cardinality(Gone \ work[w].targets) <= Cardinality(Gone' \ work[w].targets)
  BY RoomGrows
<1>2. /\ Cardinality(Gone \ work[w].targets) \in Nat /\ Cardinality(Gone' \ work[w].targets) \in Nat
      /\ report[w].terminated \in Nat
  BY SessionsFinite DEF Gone, TypeOK
<1>3. work'[w].terminated \subseteq Gone' \cap work'[w].targets
  BY GoneGrows DEF Counted
<1>4. report'[w].terminated <= Cardinality(Gone' \ work'[w].targets)
  BY <1>1, <1>2 DEF Counted
<1>5. /\ pc'[w] \in {"idle", "event"} => work'[w].terminated = {}
      /\ pc'[w] = "drop" => work'[w].victim \in work'[w].targets
  OBVIOUS
<1> QED
  BY ONLY <1>3, <1>4, <1>5 DEF Counted

(* The count of an event enters the summary when the event is done. *)
LEMMA EndEventCounted ==
  ASSUME TypeOK, TypeOK', Tracked, [Next]_vars, NEW w \in Workers, pc[w] # "idle",
         Counted(w), EndEvent(w) \/ Abort(w)
  PROVE  Counted(w)'
<1>1. work'[w].targets = {} /\ work'[w].terminated = {} /\ pc'[w] \in {"idle", "event"}
  <2>1. CASE Abort(w)
    BY <2>1, Forgets DEF Abort, Idle, TypeOK
  <2>2. CASE EndEvent(w)
    BY <2>2, Forgets DEF EndEvent, Idle, TypeOK
  <2> QED
    BY <2>1, <2>2
<1>2. report'[w].terminated <= report[w].terminated + Cardinality(work[w].terminated)
  <2>1. /\ report[w] \in [path : Paths, targeted : Nat, terminated : Nat]
        /\ work[w].terminated \in SUBSET Sids
    BY DEF TypeOK, Job
  <2>2. Cardinality(work[w].terminated) \in Nat
    BY <2>1, SessionsFinite
  <2>3. CASE EndEvent(w)
    <3>1. report'[w] = Summarize(w)
      BY <2>3 DEF EndEvent, TypeOK
    <3>2. report'[w].terminated = report[w].terminated + Cardinality(work[w].terminated)
      BY <3>1 DEF Summarize
    <3> QED
      BY <2>1, <2>2, <3>2
  <2>4. CASE Abort(w)
    BY <2>1, <2>2, <2>4 DEF Abort
  <2> QED
    BY <2>3, <2>4
<1>3. report[w].terminated + Cardinality(work[w].terminated) <= Cardinality(Gone)
  <2> DEFINE old == Gone \ work[w].targets
             new == work[w].terminated
  <2>1. new \subseteq Gone \cap work[w].targets /\ report[w].terminated <= Cardinality(old)
    BY DEF Counted
  <2>2. Gone \in SUBSET Sids
    BY DEF Gone, TypeOK
  <2>3. old \in SUBSET Sids /\ new \in SUBSET Sids /\ old \cap new = {} /\ old \cup new \in SUBSET Gone
    BY <2>1, <2>2
  <2> HIDE DEF old, new
  <2>4. IsFiniteSet(old) /\ IsFiniteSet(new) /\ IsFiniteSet(Gone)
    BY <2>2, <2>3, SessionsFinite
  <2>5. Cardinality(old \cup new) = Cardinality(old) + Cardinality(new)
    <3>1. Cardinality(old \cup new) = Cardinality(old) + Cardinality(new) - Cardinality(old \cap new)
      BY <2>4, FS_Union
    <3>2. Cardinality(old) \in Nat /\ Cardinality(new) \in Nat /\ Cardinality(old \cap new) = 0
      BY <2>3, <2>4, FS_EmptySet, FS_CardinalityType
    <3> QED
      BY <3>1, <3>2
  <2>6. Cardinality(old \cup new) <= Cardinality(Gone)
    BY <2>3, <2>4, FS_Subset
  <2>7. /\ Cardinality(old) \in Nat /\ Cardinality(new) \in Nat /\ Cardinality(Gone) \in Nat
        /\ report[w].terminated \in Nat
    BY <2>4, FS_CardinalityType DEF TypeOK
  <2> QED
    BY <2>1, <2>5, <2>6, <2>7 DEF new
<1>4. Cardinality(Gone) <= Cardinality(Gone' \ {})
  <2>1. Cardinality(Gone \ {}) <= Cardinality(Gone' \ {})
    BY RoomGrows
  <2> QED
    BY <2>1
<1>5. /\ Cardinality(Gone) \in Nat /\ Cardinality(Gone' \ {}) \in Nat /\ Cardinality(work[w].terminated) \in Nat
      /\ report[w].terminated \in Nat /\ report'[w].terminated \in Nat
  BY SessionsFinite DEF Gone, TypeOK, Job
<1>6. report'[w].terminated <= Cardinality(Gone' \ work'[w].targets)
  BY <1>1, <1>2, <1>3, <1>4, <1>5
<1> QED
  BY <1>1, <1>6 DEF Counted

(* The steps of a thread, each with what it leaves of the count. *)
LEMMA StepCounted ==
  ASSUME TypeOK, TypeOK', Tracked, [Next]_vars, NEW w \in Workers, Counted(w),
         Moves(w)
  PROVE  Counted(w)'
<1>1. work[w] \in Job
  BY WorkType
<1>2. ASSUME NEW set \in Catalog, HandleVerifiedSet(w, set) PROVE Counted(w)'
  <2>1. /\ pc'[w] = "event" /\ report'[w].terminated = 0
        /\ work'[w].terminated = {}
    BY <1>2 DEF HandleVerifiedSet, Goto, Idle, NoReport, TypeOK
  <2>2. 0 <= Cardinality(Gone' \ work'[w].targets)
    BY SessionsFinite DEF Gone, TypeOK
  <2> QED
    BY <2>1, <2>2 DEF Counted
<1>3. ASSUME HandleOtherEvent(w) PROVE Counted(w)'
  BY <1>3, EndEventCounted DEF HandleOtherEvent
<1>4. ASSUME Lookup(w) PROVE Counted(w)'
  <2>1. ASSUME Goto(w, "kill"), work' = [work EXCEPT ![w].targets = SessionsFor(work[w].subject)],
               UNCHANGED report
        PROVE  Counted(w)'
    <3>1. /\ pc[w] = "event" /\ pc'[w] = "kill"
          /\ work'[w] = [work[w] EXCEPT !.targets = SessionsFor(work[w].subject)]
      BY <1>4, <2>1 DEF Lookup, Goto, TypeOK
    <3>2. work'[w].targets = SessionsFor(work[w].subject) /\ work'[w].terminated = {}
      BY <1>1, <3>1 DEF Counted, Job
    <3>3. Gone' \cap work'[w].targets \subseteq work[w].targets
      <4>1. UNCHANGED subjectOf /\ work[w].subject # NoSubject
        BY <1>4, <3>1, EnforcementAssumption DEF Lookup, TypeOK
      <4> QED
        BY <3>2, <4>1 DEF Gone, Unmapped, SessionsFor
    <3>4. Cardinality(Gone \ work[w].targets) <= Cardinality(Gone' \ work'[w].targets)
      BY <3>3, RoomGrows
    <3>5. /\ Cardinality(Gone \ work[w].targets) \in Nat /\ Cardinality(Gone' \ work'[w].targets) \in Nat
          /\ report[w].terminated \in Nat
      BY SessionsFinite DEF Gone, TypeOK
    <3>6. report'[w].terminated <= Cardinality(Gone' \ work'[w].targets)
      BY <2>1, <3>4, <3>5 DEF Counted
    <3> QED
      BY <3>1, <3>2, <3>6 DEF Counted
  <2> QED
    BY <1>4, <2>1, EndEventCounted DEF Lookup
<1>5. ASSUME NEW sid \in Sids, NotKilled(w, sid) PROVE Counted(w)'
  <2>1. /\ pc'[w] = "kill" /\ report' = report
        /\ work'[w] = [work[w] EXCEPT !.unkilled = @ \cup {sid}]
    BY <1>5 DEF NotKilled, TypeOK
  <2> QED
    BY <1>1, <2>1, StaysCounted DEF Job
<1>6. ASSUME NEW sid \in Sids, CallBreaks(w, sid) PROVE Counted(w)'
  BY <1>6, EndEventCounted DEF CallBreaks
<1>7. ASSUME NEW sid \in Sids, Kill(w, sid) PROVE Counted(w)'
  <2>1. /\ pc'[w] = "drop" /\ sid \in work[w].targets /\ report' = report
        /\ work'[w] = [work[w] EXCEPT !.victim = sid]
    BY <1>7 DEF Kill, Goto, Remaining, TypeOK
  <2> QED
    BY <1>1, <2>1, StaysCounted DEF Job
<1>8. ASSUME Drop(w) PROVE Counted(w)'
  <2>1. ASSUME ~Abort(w) PROVE Counted(w)'
    <3>1. /\ pc[w] = "drop" /\ pc'[w] = "kill" /\ report' = report
          /\ work'[w] = [work[w] EXCEPT !.terminated = @ \cup {work[w].victim}, !.victim = NoSid]
          /\ subjectOf' = [subjectOf EXCEPT ![work[w].victim] = NoSubject]
          /\ registered' = registered
      BY <1>8, <2>1 DEF Drop, Goto, apm, TypeOK
    <3>2. /\ work'[w].targets = work[w].targets
          /\ work'[w].terminated = work[w].terminated \cup {work[w].victim}
      BY <1>1, <3>1 DEF Job
    <3>3. work[w].victim \in work[w].targets /\ work[w].victim \in registered
      BY <3>1 DEF Counted, Tracked
    <3>4. work[w].victim \in Gone'
      BY <3>1, <3>3 DEF Gone, Unmapped, TypeOK
    <3>5. work'[w].terminated \subseteq Gone' \cap work'[w].targets
      BY <3>2, <3>3, <3>4, GoneGrows DEF Counted
    <3>6. Cardinality(Gone \ work[w].targets) <= Cardinality(Gone' \ work[w].targets)
      BY RoomGrows
    <3>7. /\ Cardinality(Gone \ work[w].targets) \in Nat /\ Cardinality(Gone' \ work[w].targets) \in Nat
          /\ report[w].terminated \in Nat
      BY SessionsFinite DEF Gone, TypeOK
    <3>8. report'[w].terminated <= Cardinality(Gone' \ work'[w].targets)
      BY <3>1, <3>2, <3>6, <3>7 DEF Counted
    <3> QED
      BY <3>1, <3>5, <3>8 DEF Counted
  <2> QED
    BY <1>8, <2>1, EndEventCounted DEF Drop
<1>9. ASSUME EndKills(w) PROVE Counted(w)'
  <2>1. ASSUME Goto(w, "purge"), work' = [work EXCEPT ![w].stale = work[w].unkilled], UNCHANGED report
        PROVE  Counted(w)'
    <3>1. pc'[w] = "purge" /\ work'[w] = [work[w] EXCEPT !.stale = work[w].unkilled]
      BY <2>1 DEF Goto, TypeOK
    <3> QED
      BY <1>1, <2>1, <3>1, StaysCounted DEF Job
  <2> QED
    BY <1>9, <2>1, EndEventCounted DEF EndKills
<1>10. ASSUME Purge(w) PROVE Counted(w)'
  <2>1. ASSUME NEW sid, work' = [work EXCEPT ![w].stale = @ \ {sid}], UNCHANGED <<pc, report>>
        PROVE  Counted(w)'
    <3>1. pc'[w] = "purge" /\ work'[w] = [work[w] EXCEPT !.stale = @ \ {sid}]
      BY <1>10, <2>1 DEF Purge, TypeOK
    <3> QED
      BY <1>1, <2>1, <3>1, StaysCounted DEF Job
  <2> QED
    BY <1>10, <2>1, EndEventCounted DEF Purge
<1>11. ASSUME Hang(w) PROVE Counted(w)'
  <2>1. pc'[w] = "hung" /\ report' = report /\ work' = work
    BY <1>11 DEF Hang, Goto, TypeOK
  <2> QED
    BY <2>1, StaysCounted
<1> QED
  BY <1>2, <1>3, <1>4, <1>5, <1>6, <1>7, <1>8, <1>9, <1>10, <1>11 DEF Moves, Step

(* What one thread does leaves the others as they are. *)
LEMMA OthersKeep ==
  ASSUME TypeOK, NEW w \in Workers,
         Moves(w)
  PROVE  \A v \in Workers \ {w} : pc'[v] = pc[v] /\ work'[v] = work[v] /\ report'[v] = report[v]
<1> DEFINE Others == \A v \in Workers \ {w} : pc'[v] = pc[v] /\ work'[v] = work[v] /\ report'[v] = report[v]
<1>1. ASSUME EndEvent(w) PROVE Others
  BY <1>1 DEF EndEvent, Goto, TypeOK
<1>2. ASSUME Abort(w) PROVE Others
  BY <1>2 DEF Abort, Goto, TypeOK
<1>3. ASSUME NEW set \in Catalog, HandleVerifiedSet(w, set) PROVE Others
  BY <1>3 DEF HandleVerifiedSet, Goto, TypeOK
<1>4. CASE HandleOtherEvent(w) \/ Lookup(w)
  BY <1>1, <1>2, <1>4 DEF HandleOtherEvent, Lookup, Goto, TypeOK
<1>5. ASSUME NEW sid \in Sids, NotKilled(w, sid) \/ CallBreaks(w, sid) \/ Kill(w, sid) PROVE Others
  BY <1>2, <1>5 DEF NotKilled, CallBreaks, Kill, Goto, TypeOK
<1>6. CASE Drop(w) \/ EndKills(w) \/ Purge(w)
  BY <1>1, <1>2, <1>6 DEF Drop, EndKills, Purge, Goto, TypeOK
<1>7. CASE Hang(w)
  BY <1>7 DEF Hang, Goto, TypeOK
<1> QED
  BY <1>3, <1>4, <1>5, <1>6, <1>7 DEF Moves, Step

LEMMA NextCounted ==
  ASSUME TypeOK, TypeOK', Tracked, AllCounted, [Next]_vars
  PROVE  AllCounted'
<1> SUFFICES ASSUME NEW v \in Workers PROVE Counted(v)'
  BY DEF AllCounted
<1>1. \A w \in Workers : Counted(w)
  BY DEF AllCounted
<1>2. ASSUME pc'[v] = pc[v], work'[v] = work[v], report'[v] = report[v] PROVE Counted(v)'
  BY <1>1, <1>2, StaysCounted DEF Counted
<1>3. ASSUME NEW sid \in Sids, Outside(sid)
      PROVE  Counted(v)'
  BY <1>2, <1>3 DEF Outside, StartSession, CloseSession, Register, Deregister, LoseCall, Expire
<1>4. ASSUME NEW w \in Workers, Moves(w)
      PROVE  Counted(v)'
  <2>1. CASE v = w
    BY <1>1, <1>4, <2>1, StepCounted
  <2>2. CASE v # w
    BY <1>2, <1>4, <2>2, OthersKeep
  <2> QED
    BY <2>1, <2>2
<1>5. CASE UNCHANGED vars
  BY <1>2, <1>5 DEF vars
<1> QED
  BY <1>3, <1>4, <1>5, NextCases

(* Under every fault the count of terminated sessions in a summary is that *)
(* of different sessions, although later events of the SET look the same   *)
(* subject up again and other threads kill and unmap beside: a session     *)
(* counted is unmapped and never mapped again.                             *)
THEOREM ReportAddsUpHolds == Spec => []ReportAddsUp
<1>1. Init => AllCounted
  <2> SUFFICES ASSUME Init, NEW w \in Workers PROVE Counted(w)
    BY DEF AllCounted
  <2>1. TypeOK /\ work[w] = Idle /\ report[w] = NoReport /\ pc[w] = "idle"
    BY InitTypeOK DEF Init
  <2>2. 0 <= Cardinality(Gone \ work[w].targets)
    BY <2>1, SessionsFinite DEF Gone, TypeOK
  <2> QED
    BY <2>1, <2>2 DEF Counted, Idle, NoReport
<1>2. TypeOK /\ TypeOK' /\ Tracked /\ AllCounted /\ [Next]_vars => AllCounted'
  BY NextCounted
<1>3. TypeOK /\ AllCounted => ReportAddsUp
  <2> SUFFICES ASSUME TypeOK, AllCounted, NEW w \in Workers
               PROVE  report[w].terminated <= Cardinality(registered)
    BY DEF ReportAddsUp
  <2>1. report[w].terminated <= Cardinality(Gone \ work[w].targets)
    BY DEF AllCounted, Counted
  <2>2. registered \in SUBSET Sids /\ Gone \ work[w].targets \in SUBSET registered
    BY DEF Gone, TypeOK
  <2>3. Cardinality(Gone \ work[w].targets) <= Cardinality(registered)
    BY <2>2, SessionsFinite, FS_Subset
  <2>4. /\ Cardinality(Gone \ work[w].targets) \in Nat /\ Cardinality(registered) \in Nat
        /\ report[w].terminated \in Nat
    BY <2>2, SessionsFinite DEF TypeOK
  <2> QED
    BY <2>1, <2>3, <2>4
<1> QED
  BY <1>1, <1>2, <1>3, AlwaysTracked, PTL DEF Spec
=============================================================================
