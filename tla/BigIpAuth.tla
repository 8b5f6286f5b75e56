------------------------------- MODULE BigIpAuth -------------------------------
(***************************************************************************)
(* BigIpApmClient._request: the iControl REST token that the threads of a  *)
(* pod share, its early renewal, and the one retry after a 401.            *)
(*                                                                         *)
(* Nothing locks _token and _token_expires_at.  A step ends where CPython  *)
(* 3.12 may switch threads between two uses of them: after a call.         *)
(***************************************************************************)
EXTENDS Integers, Sequences

CONSTANTS
    Threads,       \* threads that kill sessions
    Modes,         \* the settings of bigip_auth_mode: "token", "basic"
    Timeout,       \* life of a token
    Margin,        \* a token is renewed that much earlier
    MaxStall,      \* longest time from a login's answer to _token_expires_at
    Faults,        \* "denied", "login", "tokenless", "transport"
    MaxTime,       \* bound on the clock
    MaxCalls,      \* bound on the calls of _request
    MaxRevokes     \* bound on the tokens revoked out of band

ASSUME AuthAssumption ==
    /\ Modes \subseteq {"token", "basic"}
    /\ {Timeout, Margin, MaxStall, MaxTime, MaxCalls, MaxRevokes} \subseteq Nat
    /\ Margin <= Timeout
    /\ Faults \subseteq {"denied", "login", "tokenless", "transport"}

VARIABLES
    mode,          \* bigip_auth_mode
    now,           \* the clock
    token,         \* _token: the index of a granted token, NoToken for None
    renewAt,       \* _token_expires_at
    grants,        \* tokens granted by BIG-IP: when each expires there
    revoked,       \* tokens revoked out of band
    pc,            \* the next step of each thread
    second,        \* whether the thread is in its retry
    checkedAt,     \* when the thread looked at the clock, or at its login's answer
    got,           \* the token in the login response at hand
    header,        \* the token in the request's header
    refused,       \* the header that BIG-IP has answered with 401
    cleared,       \* history: _token became None since the thread looked at it
    calls          \* calls so far

vars == <<mode, now, token, renewAt, grants, revoked, pc, second, checkedAt, got, header,
          refused, cleared, calls>>

-----------------------------------------------------------------------------
NoToken == 0

Tokens == 1 .. Len(grants)

Steps == {"idle", "check", "compare", "login", "store", "stamp", "send", "refused"}

TypeOK ==
    /\ mode \in Modes
    /\ now \in 0 .. MaxTime
    /\ token \in Tokens \cup {NoToken}
    /\ renewAt \in 0 .. MaxTime + Timeout
    /\ grants \in Seq(0 .. MaxTime + Timeout)
    /\ revoked \subseteq Tokens
    /\ pc \in [Threads -> Steps]
    /\ second \in [Threads -> BOOLEAN] /\ cleared \in [Threads -> BOOLEAN]
    /\ checkedAt \in [Threads -> 0 .. MaxTime]
    /\ got \in [Threads -> Tokens \cup {NoToken}]
    /\ header \in [Threads -> Tokens \cup {NoToken}]
    /\ refused \in [Threads -> Tokens \cup {NoToken}]
    /\ calls \in 0 .. MaxCalls

Init ==
    /\ mode \in Modes
    /\ now = 0
    /\ token = NoToken
    /\ renewAt = 0
    /\ grants = <<>>
    /\ revoked = {}
    /\ pc = [t \in Threads |-> "idle"]
    /\ second = [t \in Threads |-> FALSE]
    /\ checkedAt = [t \in Threads |-> 0]
    /\ got = [t \in Threads |-> NoToken]
    /\ header = [t \in Threads |-> NoToken]
    /\ refused = [t \in Threads |-> NoToken]
    /\ cleared = [t \in Threads |-> FALSE]
    /\ calls = 0

Goto(t, step) == pc' = [pc EXCEPT ![t] = step]

(* The call returns or raises; its locals are gone. *)
End(t) ==
    /\ Goto(t, "idle")
    /\ second' = [second EXCEPT ![t] = FALSE]
    /\ checkedAt' = [checkedAt EXCEPT ![t] = 0]
    /\ got' = [got EXCEPT ![t] = NoToken]
    /\ header' = [header EXCEPT ![t] = NoToken]
    /\ refused' = [refused EXCEPT ![t] = NoToken]
    /\ cleared' = [cleared EXCEPT ![t] = FALSE]

locals == <<second, checkedAt, got, header, refused, cleared>>

(* _token has just become None under the other threads' eyes. *)
Clear(t) == cleared' = [u \in Threads |-> cleared[u] \/ (u # t /\ pc[u] = "compare")]

(* _request; with Basic authentication there is no token to fetch. *)
Request(t) ==
    /\ pc[t] = "idle"
    /\ calls < MaxCalls
    /\ calls' = calls + 1
    /\ Goto(t, IF mode = "basic" THEN "send" ELSE "check")
    /\ UNCHANGED <<mode, now, token, renewAt, grants, revoked, locals>>

(* Mutant: the retry does not look whether there is a token. *)
Check_OnceOnly(t) ==
    /\ pc[t] = "check"
    /\ Goto(t, IF token = NoToken /\ ~second[t] THEN "login" ELSE "compare")
    /\ checkedAt' = [checkedAt EXCEPT ![t] = now]
    /\ cleared' = [cleared EXCEPT ![t] = FALSE]
    /\ UNCHANGED <<mode, now, token, renewAt, grants, revoked, second, got, header, refused, calls>>

(* _auth_headers: is there a token?  Then the time is taken ... *)
Check(t) ==
    /\ pc[t] = "check"
    /\ Goto(t, IF token = NoToken THEN "login" ELSE "compare")
    /\ checkedAt' = [checkedAt EXCEPT ![t] = now]
    /\ cleared' = [cleared EXCEPT ![t] = FALSE]
    /\ UNCHANGED <<mode, now, token, renewAt, grants, revoked, second, got, header, refused, calls>>

(* ... and compared with _token_expires_at, and the token is read again.   *)
(* It may be None by then.                                                 *)
Compare(t) ==
    /\ pc[t] = "compare"
    /\ IF checkedAt[t] >= renewAt
       THEN Goto(t, "login") /\ UNCHANGED header
       ELSE Goto(t, "send") /\ header' = [header EXCEPT ![t] = token]
    /\ UNCHANGED <<mode, now, token, renewAt, grants, revoked, second, checkedAt, got, refused,
                   cleared, calls>>

(* The login request is answered with a token, or without one. *)
Login(t) ==
    /\ pc[t] = "login"
    /\ Goto(t, "store")
    /\ checkedAt' = [checkedAt EXCEPT ![t] = now]
    /\ \/ /\ grants' = Append(grants, now + Timeout)
          /\ got' = [got EXCEPT ![t] = Len(grants')]
       \/ /\ "tokenless" \in Faults
          /\ got' = [got EXCEPT ![t] = NoToken]
          /\ UNCHANGED grants
    /\ UNCHANGED <<mode, now, token, renewAt, revoked, second, header, refused, cleared, calls>>

(* It is refused (BigIpError), or it breaks off (an httpx error). *)
LoginFails(t) ==
    /\ pc[t] = "login"
    /\ Faults \cap {"login", "transport"} # {}
    /\ End(t)
    /\ UNCHANGED <<mode, now, token, renewAt, grants, revoked, calls>>

(* _token is assigned ... *)
Store(t) ==
    /\ pc[t] = "store"
    /\ token' = got[t]
    /\ IF got[t] = NoToken
       THEN Clear(t)
       ELSE UNCHANGED cleared
    /\ Goto(t, "stamp")
    /\ UNCHANGED <<mode, now, renewAt, grants, revoked, second, checkedAt, got, header, refused, calls>>

(* Mutant: the margin is left out. *)
RenewalTime_Late == now + Timeout

RenewalTime == now + Timeout - Margin

(* ... then _token_expires_at.  Whatever _token is by now goes into the    *)
(* header; None raises BigIpError.                                         *)
Stamp(t) ==
    /\ pc[t] = "stamp"
    /\ renewAt' = RenewalTime
    /\ IF token = NoToken
       THEN End(t)
       ELSE /\ header' = [header EXCEPT ![t] = token]
            /\ checkedAt' = [checkedAt EXCEPT ![t] = now]
            /\ got' = [got EXCEPT ![t] = NoToken]
            /\ Goto(t, "send")
            /\ UNCHANGED <<second, refused, cleared>>
    /\ UNCHANGED <<mode, now, token, grants, revoked, calls>>

(* What BIG-IP says to a request. *)
Accepts(t) == mode = "basic" \/ (header[t] \in Tokens \ revoked /\ now < grants[header[t]])

(* The request is answered, or breaks off, or cannot be built because its  *)
(* header is None.                                                         *)
Send(t) ==
    /\ pc[t] = "send"
    /\ \/ Accepts(t)
       \/ "transport" \in Faults
       \/ mode = "token" /\ header[t] = NoToken
    /\ End(t)
    /\ UNCHANGED <<mode, now, token, renewAt, grants, revoked, calls>>

Answers401(t) ==
    /\ pc[t] = "send"
    /\ "denied" \in Faults \/ ~Accepts(t)
    /\ mode = "basic" \/ header[t] # NoToken

(* A 401 calls for a fresh login, once. *)
Refuse(t) ==
    /\ Answers401(t)
    /\ mode = "token" /\ ~second[t]
    /\ refused' = [refused EXCEPT ![t] = header[t]]
    /\ Goto(t, "refused")
    /\ UNCHANGED <<mode, now, token, renewAt, grants, revoked, second, checkedAt, got, header,
                   cleared, calls>>

(* Mutant: the retry is repeated. *)
RefuseAgain_Resends(t) ==
    /\ Answers401(t)
    /\ mode = "basic" \/ second[t]
    /\ UNCHANGED vars

(* The answer to the retry stands, and so does any with Basic. *)
RefuseAgain(t) ==
    /\ Answers401(t)
    /\ mode = "basic" \/ second[t]
    /\ End(t)
    /\ UNCHANGED <<mode, now, token, renewAt, grants, revoked, calls>>

(* Mutant: the token is kept. *)
DropToken_Keeps(t) ==
    /\ pc[t] = "refused"
    /\ second' = [second EXCEPT ![t] = TRUE]
    /\ Goto(t, "check")
    /\ UNCHANGED <<mode, now, token, renewAt, grants, revoked, checkedAt, got, header, refused,
                   cleared, calls>>

(* _token = None, whatever it is by now. *)
DropToken(t) ==
    /\ pc[t] = "refused"
    /\ token' = NoToken
    /\ Clear(t)
    /\ second' = [second EXCEPT ![t] = TRUE]
    /\ Goto(t, "check")
    /\ UNCHANGED <<mode, now, renewAt, grants, revoked, checkedAt, got, header, refused, calls>>

-----------------------------------------------------------------------------
(* An administrator revokes a token. *)
Revoke(k) ==
    /\ Len(grants) >= k
    /\ k \notin revoked
    /\ \A j \in revoked : j < k
    /\ revoked' = revoked \cup {k}
    /\ UNCHANGED <<mode, now, token, renewAt, grants, pc, locals, calls>>

(* Time passes.  MaxStall is an assumption on the threads, not a rule of   *)
(* the code.                                                               *)
Tick ==
    /\ now < MaxTime
    /\ \A t \in Threads : pc[t] \in {"store", "stamp"} => now < checkedAt[t] + MaxStall
    /\ now' = now + 1
    /\ UNCHANGED <<mode, token, renewAt, grants, revoked, pc, locals, calls>>

Step(t) ==
    \/ Check(t) \/ Compare(t)
    \/ Login(t) \/ LoginFails(t) \/ Store(t) \/ Stamp(t)
    \/ Send(t) \/ Refuse(t) \/ RefuseAgain(t) \/ DropToken(t)

Next ==
    \/ \E t \in Threads : Request(t) \/ Step(t)
    \/ \E k \in 1 .. MaxRevokes : Revoke(k)
    \/ Tick

Spec == Init /\ [][Next]_vars

(* Every REST call returns or raises within its 15 s timeout. *)
FairSpec == Spec /\ \A t \in Threads : WF_vars(Step(t))

-----------------------------------------------------------------------------
(* "retry once with a fresh login": the retry never carries the token that *)
(* was refused, whatever the other threads log in, store and drop.         *)
RetryIsFresh ==
    \A t \in Threads :
        pc[t] = "send" /\ second[t] /\ header[t] # NoToken => header[t] # refused[t]

(* "renew a bit early": no request carries a token that had expired on     *)
(* BIG-IP when _auth_headers looked at the clock, although two logins may  *)
(* leave the token of one with the renewal time of the other.              *)
NoExpiredToken ==
    \A t \in Threads :
        pc[t] = "send" /\ header[t] # NoToken => checkedAt[t] < grants[header[t]]

(* A request goes out with None for a token only when another thread       *)
(* dropped the token between this thread's two looks at it.                *)
NullHeaderOnlyIfCleared ==
    \A t \in Threads :
        mode = "token" /\ pc[t] = "send" /\ header[t] = NoToken => cleared[t]

(* Every call ends, even when BIG-IP refuses every token it grants. *)
EveryCallEnds == \A t \in Threads : (pc[t] # "idle") ~> (pc[t] = "idle")
=============================================================================
