----------------------------- MODULE MemoryReplay -----------------------------
(***************************************************************************)
(* check_and_mark over InMemoryReplayStore, in the steps between which     *)
(* CPython may switch threads (after a call, at the back edge of a loop).  *)
(* The dictionary is shared and not locked.  A call ends in one of the     *)
(* steps "replay" (ReplayDetected), "raised" (another exception) and       *)
(* "marked"; what the caller does then is for the module that uses this.   *)
(***************************************************************************)
EXTENDS Integers, FiniteSets

CONSTANTS
    Jtis,
    Threads,       \* the callers: the event loop, the threads of the pool
    Ttl,           \* replay_jti_ttl_seconds
    MaxTime        \* bound on the clock

ASSUME MemoryReplayAssumption ==
    IsFiniteSet(Jtis) /\ Jtis # {} /\ Ttl \in Nat /\ MaxTime \in Nat

VARIABLES
    now,           \* the clock
    marks,         \* _seen: jti -> expiry
    pc,            \* the next step of each thread
    call,          \* its argument and the locals of _sweep
    lastMark,      \* history: when each jti was marked last, Never before
    exposed        \* history: jtis marked while another thread's sweep was about to delete them

store == <<now, marks, pc, call, lastMark, exposed>>

-----------------------------------------------------------------------------
Sweeping == {"iterate", "scan", "delete"}

Ended == {"replay", "raised", "marked"}

Never == -1

(* cutoff: the time read; size: of the dictionary when the iteration began; *)
(* expired: the jtis still to delete.                                       *)
Calls == [jti : Jtis, cutoff : 0 .. MaxTime, size : Nat, expired : SUBSET Jtis]

StoreTypeOK ==
    /\ now \in 0 .. MaxTime
    /\ DOMAIN marks \subseteq Jtis
    /\ \A j \in DOMAIN marks : marks[j] \in 0 .. MaxTime + Ttl
    /\ pc \in [Threads -> {"idle", "look", "mark"} \cup Sweeping \cup Ended]
    /\ call \in [Threads -> Calls]
    /\ lastMark \in [Jtis -> {Never} \cup 0 .. MaxTime]
    /\ exposed \subseteq Jtis

(* No call is under way: its locals are gone. *)
NoCall == [jti |-> CHOOSE j \in Jtis : TRUE, cutoff |-> 0, size |-> 0, expired |-> {}]

StoreInit ==
    /\ now = 0
    /\ marks = [j \in {} |-> 0]
    /\ pc = [t \in Threads |-> "idle"]
    /\ call = [t \in Threads |-> NoCall]
    /\ lastMark = [j \in Jtis |-> Never]
    /\ exposed = {}

Goto(t, step) == pc' = [pc EXCEPT ![t] = step]

-----------------------------------------------------------------------------
(* check_and_mark calls seen, and that _sweep, which reads the time. *)
Check(t, j) ==
    /\ pc[t] = "idle"
    /\ Goto(t, "iterate")
    /\ call' = [call EXCEPT ![t] = [jti |-> j, cutoff |-> now, size |-> 0, expired |-> {}]]
    /\ UNCHANGED <<now, marks, lastMark, exposed>>

(* The iterator notes the size of the dictionary ... *)
Iterate(t) ==
    /\ pc[t] = "iterate"
    /\ Goto(t, "scan")
    /\ call' = [call EXCEPT ![t].size = Cardinality(DOMAIN marks)]
    /\ UNCHANGED <<now, marks, lastMark, exposed>>

(* Mutant: a mark goes one tick early. *)
Expired_Early(cutoff) == {j \in DOMAIN marks : marks[j] <= cutoff + 1}

Expired(cutoff) == {j \in DOMAIN marks : marks[j] <= cutoff}

(* ... and raises RuntimeError when it has changed. *)
Scan(t) ==
    /\ pc[t] = "scan"
    /\ IF Cardinality(DOMAIN marks) = call[t].size
       THEN Goto(t, "delete") /\ call' = [call EXCEPT ![t].expired = Expired(call[t].cutoff)]
       ELSE Goto(t, "raised") /\ UNCHANGED call
    /\ UNCHANGED <<now, marks, lastMark, exposed>>

(* del: KeyError when another thread was first.  By now the jti may have   *)
(* been marked anew.                                                       *)
Delete(t) ==
    /\ pc[t] = "delete"
    /\ \E j \in call[t].expired :
          IF j \in DOMAIN marks
          THEN /\ marks' = [k \in DOMAIN marks \ {j} |-> marks[k]]
               /\ call' = [call EXCEPT ![t].expired = @ \ {j}]
               /\ UNCHANGED pc
          ELSE /\ Goto(t, "raised")
               /\ call' = [call EXCEPT ![t].expired = {}]
               /\ UNCHANGED marks
    /\ UNCHANGED <<now, lastMark, exposed>>

(* The sweep is over ... *)
Swept(t) ==
    /\ pc[t] = "delete"
    /\ call[t].expired = {}
    /\ Goto(t, "look")
    /\ UNCHANGED <<now, marks, call, lastMark, exposed>>

(* ... and seen looks the jti up. *)
Look(t) ==
    /\ pc[t] = "look"
    /\ Goto(t, IF call[t].jti \in DOMAIN marks THEN "replay" ELSE "mark")
    /\ UNCHANGED <<now, marks, call, lastMark, exposed>>

Mark(t) ==
    LET j == call[t].jti IN
    /\ pc[t] = "mark"
    /\ marks' = [k \in DOMAIN marks \cup {j} |-> IF k = j THEN now + Ttl ELSE marks[k]]
    /\ lastMark' = [lastMark EXCEPT ![j] = now]
    /\ exposed' = IF \E u \in Threads : j \in call[u].expired THEN exposed \cup {j} ELSE exposed \ {j}
    /\ Goto(t, "marked")
    /\ UNCHANGED <<now, call>>

GuardStep(t) == Iterate(t) \/ Scan(t) \/ Delete(t) \/ Swept(t) \/ Look(t) \/ Mark(t)

(* The process restarts: marks and calls are gone. *)
StoreCrash ==
    /\ marks' = [j \in {} |-> 0]
    /\ pc' = [t \in Threads |-> "idle"]
    /\ call' = [t \in Threads |-> NoCall]
    /\ lastMark' = [j \in Jtis |-> Never]
    /\ exposed' = {}
    /\ UNCHANGED now

StoreTick ==
    /\ now < MaxTime
    /\ now' = now + 1
    /\ UNCHANGED <<marks, pc, call, lastMark, exposed>>
=============================================================================
