-------------------------------- MODULE Poller --------------------------------
(***************************************************************************)
(* PollDeliveryClient.poll_once against a transmitter (RFC 8936), next to  *)
(* push tasks in the pool, all over the memory replay store.               *)
(*                                                                         *)
(* Nothing in the repository passes poll_once a handler yet.  The one here *)
(* does what the module says it should, "the same verify -> enforce        *)
(* pipeline the push endpoint uses": it refuses a SET that verify_set      *)
(* refuses, and by and by that is any SET, asks the guard, dispatches.  A  *)
(* replay counts as processed.                                             *)
(***************************************************************************)
EXTENDS MemoryReplay, Sequences

CONSTANTS
    Poll,          \* the thread poll_once runs on
    Polled,        \* jtis of the SETs the transmitter holds for polling
    Refused,       \* those among them that verification refuses whatever their age
    MaxAge,        \* set_max_age_seconds
    MaxEvents,     \* max_events
    MaxFaults,     \* bound on faults: broken calls and restarts
    MaxPushes      \* bound on pushed SETs

ASSUME PollerAssumption ==
    /\ Poll \in Threads
    /\ Polled \subseteq Jtis /\ Refused \subseteq Polled
    /\ MaxAge \in Nat /\ MaxEvents \in Nat /\ MaxFaults \in Nat /\ MaxPushes \in Nat

VARIABLES
    issued,        \* the SETs the transmitter has ever held, in order
    iat,           \* their dates
    pending,       \* those not acknowledged
    polling,       \* poll_once is at work
    batch,         \* the SETs fetched and not handled yet
    acked,         \* the list of that name
    fetched,       \* history: the batch as it was fetched
    failed,        \* history: those of it whose verification failed for now
    dispatched,    \* history: the SETs handed to handle_verified_set
    broken,        \* history: SETs whose dispatch raised after the mark
    faults,        \* faults so far
    pushes         \* pushed SETs so far

cycle == <<fetched, failed>>
delivery == <<issued, iat, pending, polling, batch, acked, cycle>>
outcome == <<dispatched, broken>>
bounds == <<faults, pushes>>
vars == <<store, delivery, outcome, bounds>>

-----------------------------------------------------------------------------
TypeOK ==
    /\ StoreTypeOK
    /\ issued \in Seq(Polled)
    /\ pending \subseteq Polled /\ batch \subseteq pending /\ acked \subseteq pending \ batch
    /\ iat \in [Polled -> 0 .. MaxTime]
    /\ polling \in BOOLEAN
    /\ fetched \subseteq Polled /\ failed \subseteq Polled
    /\ dispatched \subseteq Jtis /\ broken \subseteq Jtis
    /\ faults \in 0 .. MaxFaults /\ pushes \in 0 .. MaxPushes

Init ==
    /\ StoreInit
    /\ issued = <<>>
    /\ iat = [j \in Polled |-> 0]
    /\ pending = {}
    /\ polling = FALSE
    /\ batch = {}
    /\ acked = {}
    /\ fetched = {}
    /\ failed = {}
    /\ dispatched = {}
    /\ broken = {}
    /\ faults = 0
    /\ pushes = 0

Fault ==
    /\ faults < MaxFaults
    /\ faults' = faults + 1
    /\ UNCHANGED pushes

Transmitter(j) ==
    /\ \A i \in DOMAIN issued : issued[i] # j
    /\ issued' = Append(issued, j)
    /\ iat' = [iat EXCEPT ![j] = now]
    /\ pending' = pending \cup {j}
    /\ UNCHANGED <<store, polling, batch, acked, cycle, outcome, bounds>>

-----------------------------------------------------------------------------
(* The pending SETs at or before the one issued as the i-th. *)
UpTo(i) == {issued[h] : h \in 1 .. i} \cap pending

(* poll_once asks for a batch, and the transmitter answers with the oldest *)
(* SETs; a transport error or an error status only ends the cycle.         *)
Fetch ==
    /\ ~polling
    /\ pending # {}
    /\ polling' = TRUE
    /\ batch' = {issued[i] : i \in {h \in DOMAIN issued : Cardinality(UpTo(h)) <= MaxEvents}} \cap pending
    /\ acked' = {}
    /\ fetched' = batch'
    /\ failed' = {}
    /\ UNCHANGED <<store, issued, iat, pending, outcome, bounds>>

(* The handler's answer for a SET. *)
Answered(j, ok) ==
    /\ batch' = batch \ {j}
    /\ acked' = IF ok THEN acked \cup {j} ELSE acked
    /\ UNCHANGED <<issued, iat, pending, polling, fetched>>

(* An exception of the handler ends poll_once: nothing is acknowledged. *)
Abort ==
    /\ polling' = FALSE
    /\ batch' = {}
    /\ acked' = {}
    /\ fetched' = {}
    /\ failed' = {}
    /\ UNCHANGED <<issued, iat, pending>>

(* The next SET of the batch; they are members of a JSON object. *)
Takes(j) == polling /\ pc[Poll] = "idle" /\ j \in batch

(* _reject_stale_iat: older than MaxAge. *)
Stale(j) == now > iat[j] + MaxAge

HandlerRefuses(j) ==
    /\ Takes(j)
    /\ j \in Refused \/ Stale(j)
    /\ Answered(j, FALSE)
    /\ UNCHANGED <<store, failed, outcome, bounds>>

(* Verification fails for now (no keys), or raises something else. *)
HandlerFails(j) ==
    /\ Takes(j)
    /\ Fault
    /\ Abort \/ (Answered(j, FALSE) /\ failed' = failed \cup {j})
    /\ UNCHANGED <<store, outcome>>

HandlerChecks(j) ==
    /\ Takes(j)
    /\ j \notin Refused /\ ~Stale(j)
    /\ Check(Poll, j)
    /\ UNCHANGED <<delivery, outcome, bounds>>

(* The caller of the guard goes on. *)
Resume(t) ==
    /\ Goto(t, "idle")
    /\ call' = [call EXCEPT ![t] = NoCall]
    /\ UNCHANGED <<now, marks, lastMark, exposed>>

(* Mutant: a replay is not acknowledged. *)
HandlerSeesReplay_Keeps ==
    /\ pc[Poll] = "replay"
    /\ Resume(Poll)
    /\ Answered(call[Poll].jti, FALSE)
    /\ UNCHANGED <<failed, outcome, bounds>>

HandlerSeesReplay ==
    /\ pc[Poll] = "replay"
    /\ Resume(Poll)
    /\ Answered(call[Poll].jti, TRUE)
    /\ UNCHANGED <<failed, outcome, bounds>>

(* Mutant: an exception of the guard counts as processed. *)
HandlerRaises_Acks ==
    /\ pc[Poll] = "raised"
    /\ Resume(Poll)
    /\ Answered(call[Poll].jti, TRUE)
    /\ UNCHANGED <<failed, outcome, bounds>>

HandlerRaises ==
    /\ pc[Poll] = "raised"
    /\ Resume(Poll)
    /\ Abort
    /\ UNCHANGED <<outcome, bounds>>

HandlerDispatches ==
    /\ pc[Poll] = "marked"
    /\ Resume(Poll)
    /\ \/ /\ Answered(call[Poll].jti, TRUE)
          /\ dispatched' = dispatched \cup {call[Poll].jti}
          /\ UNCHANGED <<failed, broken, bounds>>
       \/ /\ Fault
          /\ Abort
          /\ broken' = broken \cup {call[Poll].jti}
          /\ UNCHANGED dispatched

Done ==
    /\ polling
    /\ batch = {}
    /\ polling' = FALSE
    /\ acked' = {}
    /\ fetched' = {}
    /\ failed' = {}
    /\ UNCHANGED <<store, issued, iat, batch, outcome>>

(* The acknowledgement; its answer is not looked at. *)
Acknowledge ==
    /\ Done
    /\ pending' = pending \ acked
    /\ UNCHANGED bounds

(* It does not arrive, or is answered with an error: the count returned is *)
(* the same.                                                               *)
AcknowledgementLost ==
    /\ Done
    /\ acked # {}
    /\ Fault
    /\ UNCHANGED pending

-----------------------------------------------------------------------------
(* _process in the pool, from the guard on. *)
Push(t, j) ==
    /\ t # Poll
    /\ pushes < MaxPushes
    /\ pushes' = pushes + 1
    /\ Check(t, j)
    /\ UNCHANGED <<delivery, outcome, faults>>

PushEnds(t) ==
    /\ t # Poll
    /\ pc[t] \in Ended
    /\ Resume(t)
    /\ dispatched' = IF pc[t] = "marked" THEN dispatched \cup {call[t].jti} ELSE dispatched
    /\ UNCHANGED <<delivery, broken, bounds>>

Guard(t) == GuardStep(t) /\ UNCHANGED <<delivery, outcome, bounds>>

Crash ==
    /\ Fault
    /\ StoreCrash
    /\ Abort
    /\ UNCHANGED outcome

Tick == StoreTick /\ UNCHANGED <<delivery, outcome, bounds>>

Next ==
    \/ Fetch \/ HandlerSeesReplay \/ HandlerRaises \/ HandlerDispatches \/ Acknowledge \/ AcknowledgementLost
    \/ Crash \/ Tick
    \/ \E j \in Polled : Transmitter(j) \/ HandlerRefuses(j) \/ HandlerFails(j) \/ HandlerChecks(j)
    \/ \E t \in Threads, j \in Jtis \ Polled : Push(t, j)
    \/ \E t \in Threads : Guard(t) \/ PushEnds(t)

Spec == Init /\ [][Next]_vars

-----------------------------------------------------------------------------
(* What poll delivery is for ("then ack the ones we successfully processed *)
(* so the transmitter can drop them"): a SET leaves the transmitter only   *)
(* when it was dispatched, in whatever cycle, before or after a restart;   *)
(* or its dispatch raised, the guard having marked it before.              *)
DroppedWasDispatched ==
    \A i \in DOMAIN issued : issued[i] \in pending \cup dispatched \cup broken

(* A polled SET gets past the guard again, and is enforced again, only     *)
(* when its last mark is a whole Ttl old, the process restarted (lastMark  *)
(* is then Never), or the mark was set while another thread's sweep was    *)
(* about to delete an older one: redelivery after a lost acknowledgement   *)
(* or an aborted batch alone does not do it, whatever the pool does with   *)
(* other SETs.                                                             *)
MarkedAgainOnlyIfLapsed ==
    [][\A t \in Threads : Mark(t) =>
          LET j == call[t].jti IN
          j \in Polled => lastMark[j] = Never \/ now >= lastMark[j] + Ttl \/ j \in exposed]_vars

(* A cycle whose acknowledgement arrives leaves with the transmitter only  *)
(* SETs that verification refuses, now by their age at least, and those it *)
(* failed on: redelivered after a lost acknowledgement, an aborted batch   *)
(* or a restart, a SET that was enforced before does not stay.             *)
CycleLeavesOnlyRefused ==
    [][Acknowledge => \A j \in fetched \ failed : j \in pending' => j \in Refused \/ Stale(j)]_vars
=============================================================================
