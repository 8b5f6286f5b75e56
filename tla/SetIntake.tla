------------------------------ MODULE SetIntake ------------------------------
(***************************************************************************)
(* From a POST on /events to the call of handle_verified_set: the push     *)
(* receiver, the freshness rule of the SET verifier and the jti replay     *)
(* guard, run by the threads of one or more bridge pods.                   *)
(*                                                                         *)
(* receive_set answers 202 and queues a background task; the task is a     *)
(* plain function, so it runs on a thread of the pod's pool and the tasks  *)
(* of several POSTs interleave.  A task is four steps with a point between *)
(* them where another thread, or another pod, may run: verify, seen, mark, *)
(* dispatch.  Each call of the replay store is one step (one Redis         *)
(* command).                                                               *)
(*                                                                         *)
(* A SET is identified with its jti.  Time is a discrete clock.            *)
(***************************************************************************)
EXTENDS Integers

CONSTANTS
    Sets,          \* the SETs that transmitters sign
    NoSet,         \* the job of an idle thread
    Iats,          \* the issue times that SETs may carry
    Workers,       \* background-task threads, of all pods
    Pods,          \* replicas of the bridge
    PodOf,         \* the pod a thread runs in
    Stores,        \* replay stores: one Redis, or the dict of each pod
    StoreOf,       \* the store a pod is configured with
    Volatile,      \* the stores that a crash of their pod wipes (the dicts)
    MaxAge,        \* set_max_age_seconds
    Skew,          \* set_clock_skew_seconds
    ReplayTtl,     \* replay_jti_ttl_seconds
    MaxStall,      \* longest time a thread spends between verify and seen
    Faults,        \* what may fail in this instance: "verify", "store", "hang"
    MaxTime,       \* bound on the clock
    MaxPosts,      \* bound on the POSTs received
    MaxCrashes     \* bound on pod crashes

ASSUME ShapeAssumption ==
    /\ NoSet \notin Sets
    /\ PodOf \in [Workers -> Pods]
    /\ StoreOf \in [Pods -> Stores]
    /\ Volatile \subseteq Stores
    /\ \A p, q \in Pods : StoreOf[p] = StoreOf[q] /\ StoreOf[p] \in Volatile => p = q
    /\ Faults \subseteq {"verify", "store", "hang"}

ASSUME TimeAssumption ==
    /\ Iats \subseteq Nat
    /\ {MaxAge, Skew, ReplayTtl, MaxStall, MaxTime, MaxPosts, MaxCrashes} \subseteq Nat

VARIABLES
    now,           \* the clock
    iat,           \* the iat claim of each SET
    pending,       \* accepted POSTs whose task has not started, per pod
    pc,            \* the next step of each thread
    job,           \* the SET each thread works on
    verifiedAt,    \* when each thread found its SET fresh
    marks,         \* per store and jti: when the mark expires, 0 if none
    dispatched,    \* history: how often each SET reached handle_verified_set
    overlap,       \* history: SETs that two threads let through before either marked
    orphaned,      \* history: SETs whose task a fault ended after it had marked them
    posts,         \* POSTs received so far
    crashes        \* pod crashes so far

vars == <<now, iat, pending, pc, job, verifiedAt, marks, dispatched, overlap,
          orphaned, posts, crashes>>

threads == <<pc, job, verifiedAt>>

Steps == {"idle", "verify", "seen", "mark", "dispatch", "hung"}

TypeOK ==
    /\ now \in Nat
    /\ iat \in [Sets -> Iats]
    /\ pending \in [Pods -> [Sets -> Nat]]
    /\ pc \in [Workers -> Steps]
    /\ job \in [Workers -> Sets \cup {NoSet}]
    /\ \A w \in Workers : pc[w] # "idle" => job[w] \in Sets
    /\ verifiedAt \in [Workers -> Nat]
    /\ marks \in [Stores -> [Sets -> Nat]]
    /\ dispatched \in [Sets -> Nat]
    /\ overlap \in SUBSET Sets
    /\ orphaned \in SUBSET Sets
    /\ posts \in Nat
    /\ crashes \in Nat

Init ==
    /\ now = 0
    /\ iat \in [Sets -> Iats]
    /\ pending = [p \in Pods |-> [s \in Sets |-> 0]]
    /\ pc = [w \in Workers |-> "idle"]
    /\ job = [w \in Workers |-> NoSet]
    /\ verifiedAt = [w \in Workers |-> 0]
    /\ marks = [st \in Stores |-> [s \in Sets |-> 0]]
    /\ dispatched = [s \in Sets |-> 0]
    /\ overlap = {}
    /\ orphaned = {}
    /\ posts = 0
    /\ crashes = 0

-----------------------------------------------------------------------------
(* Helpers *)

Goto(w, step) == pc' = [pc EXCEPT ![w] = step]

Finish(w) ==
    /\ Goto(w, "idle")
    /\ job' = [job EXCEPT ![w] = NoSet]
    /\ UNCHANGED verifiedAt

(* jwt.decode refuses an iat beyond the leeway, _reject_stale_iat an iat   *)
(* older than the maximum age.                                             *)
Fresh(s) ==
    /\ iat[s] <= now + Skew
    /\ now - iat[s] <= MaxAge

MyStore(w) == StoreOf[PodOf[w]]

(* The marks of a store without the expired ones: the dict is swept before *)
(* each lookup, Redis drops the key by itself.                             *)
Swept(st) == [s \in Sets |-> IF marks[st][s] <= now THEN 0 ELSE marks[st][s]]

Marked(st, s) == marks[st][s] > now

(* Mutant: the mark lives for MaxAge. *)
Expiry_MaxAge == now + MaxAge

(* A mark made now lasts until then. *)
Expiry == now + ReplayTtl

-----------------------------------------------------------------------------
(* A transmitter, or a retry on the network, POSTs SET s to pod p.  The    *)
(* 202 goes out before anything is verified.                               *)
ReceiveSet(p, s) ==
    /\ posts < MaxPosts
    /\ posts' = posts + 1
    /\ pending' = [pending EXCEPT ![p][s] = @ + 1]
    /\ UNCHANGED <<now, iat, threads, marks, dispatched, overlap, orphaned, crashes>>

(* A free thread of the pod takes a queued task. *)
StartTask(w, s) ==
    LET p == PodOf[w] IN
    /\ pc[w] = "idle"
    /\ pending[p][s] > 0
    /\ pending' = [pending EXCEPT ![p][s] = @ - 1]
    /\ Goto(w, "verify")
    /\ job' = [job EXCEPT ![w] = s]
    /\ UNCHANGED <<now, iat, verifiedAt, marks, dispatched, overlap, orphaned, posts, crashes>>

(* verify_set accepts the token. *)
VerifySet(w) ==
    /\ pc[w] = "verify"
    /\ Fresh(job[w])
    /\ Goto(w, "seen")
    /\ verifiedAt' = [verifiedAt EXCEPT ![w] = now]
    /\ UNCHANGED <<now, iat, pending, job, marks, dispatched, overlap, orphaned, posts, crashes>>

(* Mutant: the jti is marked before the SET is verified. *)
RejectSet_Marks(w) ==
    /\ pc[w] = "verify"
    /\ ~Fresh(job[w]) \/ "verify" \in Faults
    /\ marks' = [marks EXCEPT ![MyStore(w)][job[w]] = Expiry]
    /\ Finish(w)
    /\ UNCHANGED <<now, iat, pending, dispatched, overlap, orphaned, posts, crashes>>

(* Mutant: a SET that does not verify is queued again. *)
RejectSet_Requeues(w) ==
    /\ pc[w] = "verify"
    /\ ~Fresh(job[w]) \/ "verify" \in Faults
    /\ pending' = [pending EXCEPT ![PodOf[w]][job[w]] = @ + 1]
    /\ Finish(w)
    /\ UNCHANGED <<now, iat, marks, dispatched, overlap, orphaned, posts, crashes>>

(* verify_set raises: the SET is stale or dated in the future, or, as a    *)
(* fault, its key cannot be resolved or its claims do not validate.  The   *)
(* task ends and nothing is remembered of the SET.                         *)
RejectSet(w) ==
    /\ pc[w] = "verify"
    /\ ~Fresh(job[w]) \/ "verify" \in Faults
    /\ Finish(w)
    /\ UNCHANGED <<now, iat, pending, marks, dispatched, overlap, orphaned, posts, crashes>>

(* ReplayStore.seen answers no: the thread goes on to mark the jti. *)
Admit(w) ==
    /\ pc[w] = "seen"
    /\ ~Marked(MyStore(w), job[w])
    /\ marks' = [marks EXCEPT ![MyStore(w)] = Swept(MyStore(w))]
    /\ Goto(w, "mark")
    /\ overlap' = IF \E v \in Workers \ {w} : job[v] = job[w] /\ pc[v] = "mark"
                  THEN overlap \cup {job[w]}
                  ELSE overlap
    /\ UNCHANGED <<now, iat, pending, job, verifiedAt, dispatched, orphaned, posts, crashes>>

(* ReplayStore.seen answers yes: ReplayDetected, the task ends. *)
DropReplay(w) ==
    /\ pc[w] = "seen"
    /\ Marked(MyStore(w), job[w])
    /\ marks' = [marks EXCEPT ![MyStore(w)] = Swept(MyStore(w))]
    /\ Finish(w)
    /\ UNCHANGED <<now, iat, pending, dispatched, overlap, orphaned, posts, crashes>>

(* Mutant: nothing is written. *)
Mark_Forgets(w) ==
    /\ pc[w] = "mark"
    /\ Goto(w, "dispatch")
    /\ UNCHANGED <<now, iat, pending, job, verifiedAt, marks, dispatched, overlap, orphaned, posts, crashes>>

(* ReplayStore.mark. *)
Mark(w) ==
    /\ pc[w] = "mark"
    /\ marks' = [marks EXCEPT ![MyStore(w)][job[w]] = Expiry]
    /\ Goto(w, "dispatch")
    /\ UNCHANGED <<now, iat, pending, job, verifiedAt, dispatched, overlap, orphaned, posts, crashes>>

(* handle_verified_set runs, or raises and is logged; the task ends. *)
Dispatch(w) ==
    /\ pc[w] = "dispatch"
    /\ dispatched' = [dispatched EXCEPT ![job[w]] = @ + 1]
    /\ Finish(w)
    /\ UNCHANGED <<now, iat, pending, marks, overlap, orphaned, posts, crashes>>

(* A store call raises: the last-resort handler of _process logs it.  A    *)
(* mark whose answer was lost may still have been written.                 *)
StoreFails(w) ==
    /\ "store" \in Faults
    /\ pc[w] \in {"seen", "mark"}
    /\ \/ UNCHANGED <<marks, orphaned>>
       \/ /\ pc[w] = "mark"
          /\ marks' = [marks EXCEPT ![MyStore(w)][job[w]] = Expiry]
          /\ orphaned' = orphaned \cup {job[w]}
    /\ Finish(w)
    /\ UNCHANGED <<now, iat, pending, dispatched, overlap, posts, crashes>>

(* The replay store never answers: the Redis client has no socket timeout, *)
(* so the thread waits for ever.  The mark may have been written.          *)
Hang(w) ==
    /\ "hang" \in Faults
    /\ pc[w] \in {"seen", "mark"}
    /\ \/ UNCHANGED <<marks, orphaned>>
       \/ /\ pc[w] = "mark"
          /\ marks' = [marks EXCEPT ![MyStore(w)][job[w]] = Expiry]
          /\ orphaned' = orphaned \cup {job[w]}
    /\ Goto(w, "hung")
    /\ UNCHANGED <<now, iat, pending, job, verifiedAt, dispatched, overlap, posts, crashes>>

(* So may the stores that handle_verified_set calls. *)
HangInHandler(w) ==
    /\ "hang" \in Faults
    /\ pc[w] = "dispatch"
    /\ dispatched' = [dispatched EXCEPT ![job[w]] = @ + 1]
    /\ Goto(w, "hung")
    /\ UNCHANGED <<now, iat, pending, job, verifiedAt, marks, overlap, orphaned, posts, crashes>>

(* The connection is reset after all: the call raises, the task ends.  The *)
(* code does not see to it, so nothing is assumed of when.                 *)
HangEnds(w) ==
    /\ pc[w] = "hung"
    /\ Finish(w)
    /\ UNCHANGED <<now, iat, pending, marks, dispatched, overlap, orphaned, posts, crashes>>

(* A pod dies and is restarted: its queued and running tasks are gone, and *)
(* so is its replay store if that was the dict.                            *)
Crash(p) ==
    LET mine == {w \in Workers : PodOf[w] = p} IN
    /\ crashes < MaxCrashes
    /\ crashes' = crashes + 1
    /\ pending' = [pending EXCEPT ![p] = [s \in Sets |-> 0]]
    /\ pc' = [w \in Workers |-> IF w \in mine THEN "idle" ELSE pc[w]]
    /\ job' = [w \in Workers |-> IF w \in mine THEN NoSet ELSE job[w]]
    /\ marks' = IF StoreOf[p] \in Volatile
                THEN [marks EXCEPT ![StoreOf[p]] = [s \in Sets |-> 0]]
                ELSE marks
    /\ orphaned' = orphaned \cup {job[w] : w \in {v \in mine : pc[v] = "dispatch"}}
    /\ UNCHANGED <<now, iat, verifiedAt, dispatched, overlap, posts>>

(* Time passes.  MaxStall is an assumption on the threads, not a rule of   *)
(* the code: it bounds the time from the freshness check to the lookup.    *)
Tick ==
    /\ now < MaxTime
    /\ \A w \in Workers : pc[w] = "seen" => now < verifiedAt[w] + MaxStall
    /\ now' = now + 1
    /\ UNCHANGED <<iat, pending, threads, marks, dispatched, overlap, orphaned, posts, crashes>>

Task(w) ==
    \/ \E s \in Sets : StartTask(w, s)
    \/ VerifySet(w)
    \/ RejectSet(w)
    \/ Admit(w)
    \/ DropReplay(w)
    \/ Mark(w)
    \/ Dispatch(w)
    \/ StoreFails(w)

Next ==
    \/ \E p \in Pods, s \in Sets : ReceiveSet(p, s)
    \/ \E w \in Workers : Task(w) \/ Hang(w) \/ HangInHandler(w) \/ HangEnds(w)
    \/ \E p \in Pods : Crash(p)
    \/ Tick

Spec == Init /\ [][Next]_vars

(* A thread that does not hang goes on.  Nothing makes a hung call end:    *)
(* fairness is asked of the steps of Task only.                            *)
FairSpec == Spec /\ \A w \in Workers : WF_vars(Task(w))

-----------------------------------------------------------------------------
(* The jti of a SET is not processed twice (replay_guard.py). *)
AtMostOnce == \A s \in Sets : dispatched[s] <= 1

(* Twice only when two threads looked the jti up before either marked it:  *)
(* no expiry, no retry, no crash of a pod, and no delay brings a SET back. *)
OnceUnlessOverlap == \A s \in Sets \ overlap : dispatched[s] <= 1

(* As long as an already processed SET would still pass the freshness      *)
(* check, every pod still knows its jti (the comment on                    *)
(* set_max_age_seconds).                                                   *)
ProcessedStaysMarked ==
    \A s \in Sets, p \in Pods :
        dispatched[s] > 0 /\ Fresh(s) => Marked(StoreOf[p], s)

(* A SET is dropped as a replay only when it has been dispatched, a thread *)
(* is just about to dispatch it, or a fault ended its task between mark    *)
(* and dispatch (_process marks first): delays, rejections, expiry and     *)
(* other SETs never make the guard eat a SET that nobody enforces.         *)
ReplayDropIsHonest ==
    [][\A w \in Workers :
          DropReplay(w) =>
              \/ dispatched[job[w]] > 0
              \/ \E v \in Workers : job[v] = job[w] /\ pc[v] = "dispatch"
              \/ job[w] \in orphaned]_vars

(* Once the transmitters fall silent, a pod works off every accepted POST  *)
(* unless all its threads hang in Redis calls that nobody answers: no task *)
(* is requeued or waits for another, and a hung thread costs only its own. *)
PodWorksOff(p) ==
    /\ \A s \in Sets : pending[p][s] = 0
    /\ \A w \in Workers : PodOf[w] = p => pc[w] \in {"idle", "hung"}

PodHangs(p) == \A w \in Workers : PodOf[w] = p => pc[w] = "hung"

EveryTaskEnds == \A p \in Pods : <>[]PodWorksOff(p) \/ <>[]PodHangs(p)
=============================================================================
