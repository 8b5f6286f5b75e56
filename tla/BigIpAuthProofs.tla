---------------------------- MODULE BigIpAuthProofs ----------------------------
(* Proofs about BigIpAuth: its types, that a retry never repeats the token *)
(* that was refused, that no request carries a token known to be expired,  *)
(* and when one goes out without a token, for any number of threads.       *)
EXTENDS BigIpAuth, TLAPS

LEMMA NatConstants ==
    /\ Timeout \in Nat /\ Margin \in Nat /\ MaxStall \in Nat
    /\ MaxTime \in Nat /\ MaxCalls \in Nat /\ MaxRevokes \in Nat
    /\ Margin <= Timeout
  BY AuthAssumption

LEMMA EndTypes ==
  ASSUME TypeOK, NEW t \in Threads, End(t)
  PROVE  /\ pc' \in [Threads -> Steps]
         /\ second' \in [Threads -> BOOLEAN] /\ cleared' \in [Threads -> BOOLEAN]
         /\ checkedAt' \in [Threads -> 0 .. MaxTime]
         /\ got' \in [Threads -> Tokens \cup {NoToken}]
         /\ header' \in [Threads -> Tokens \cup {NoToken}]
         /\ refused' \in [Threads -> Tokens \cup {NoToken}]
  BY NatConstants DEF TypeOK, End, Goto, Steps

LEMMA TokensStay == ASSUME UNCHANGED grants PROVE Tokens' = Tokens
  BY DEF Tokens

LEMMA NextTypeOK == TypeOK /\ [Next]_vars => TypeOK'
<1> SUFFICES ASSUME TypeOK, [Next]_vars PROVE TypeOK'
  OBVIOUS
<1> USE NatConstants DEF TypeOK, Steps, NoToken
<1>1. ASSUME NEW t \in Threads, Request(t) PROVE TypeOK'
  BY <1>1, TokensStay DEF Request, Goto, locals
<1>2. ASSUME NEW t \in Threads, Check(t) PROVE TypeOK'
  BY <1>2, TokensStay DEF Check, Goto
<1>3. ASSUME NEW t \in Threads, Compare(t) PROVE TypeOK'
  BY <1>3, TokensStay DEF Compare, Goto
<1>4. ASSUME NEW t \in Threads, Login(t) PROVE TypeOK'
  <2>1. CASE got' = [got EXCEPT ![t] = NoToken] /\ UNCHANGED grants
    BY <1>4, <2>1, TokensStay DEF Login, Goto
  <2>2. CASE grants' = Append(grants, now + Timeout) /\ got' = [got EXCEPT ![t] = Len(grants')]
    <3>1. /\ grants' \in Seq(0 .. MaxTime + Timeout)
          /\ Len(grants') = Len(grants) + 1
          /\ Tokens' = Tokens \cup {Len(grants')}
      BY <2>2 DEF Tokens
    <3>2. Tokens \subseteq Tokens' /\ Len(grants') \in Tokens'
      BY <3>1
    <3> QED
      BY <1>4, <2>2, <3>1, <3>2 DEF Login, Goto
  <2> QED
    BY <1>4, <2>1, <2>2 DEF Login
<1>5. ASSUME NEW t \in Threads, LoginFails(t) PROVE TypeOK'
  BY <1>5, EndTypes, TokensStay DEF LoginFails
<1>6. ASSUME NEW t \in Threads, Store(t) PROVE TypeOK'
  BY <1>6, TokensStay DEF Store, Goto, Clear
<1>7. ASSUME NEW t \in Threads, Stamp(t) PROVE TypeOK'
  <2>1. RenewalTime \in 0 .. MaxTime + Timeout
    BY DEF RenewalTime
  <2>2. CASE token = NoToken
    BY <1>7, <2>1, <2>2, EndTypes, TokensStay DEF Stamp
  <2>3. CASE token # NoToken
    <3>1. /\ UNCHANGED <<mode, now, token, grants, revoked, second, refused, cleared, calls>>
          /\ renewAt' = RenewalTime
          /\ Tokens' = Tokens
      BY <1>7, <2>3, TokensStay DEF Stamp
    <3>2. /\ pc' = [pc EXCEPT ![t] = "send"]
          /\ header' = [header EXCEPT ![t] = token]
          /\ checkedAt' = [checkedAt EXCEPT ![t] = now]
          /\ got' = [got EXCEPT ![t] = NoToken]
      BY <1>7, <2>3 DEF Stamp, Goto
    <3>3. pc' \in [Threads -> Steps] /\ checkedAt' \in [Threads -> 0 .. MaxTime]
      BY <3>2
    <3>4. header' \in [Threads -> Tokens \cup {NoToken}] /\ got' \in [Threads -> Tokens \cup {NoToken}]
      BY <2>3, <3>2
    <3> QED
      BY <2>1, <3>1, <3>3, <3>4
  <2> QED
    BY <2>2, <2>3
<1>8. ASSUME NEW t \in Threads, Send(t) PROVE TypeOK'
  BY <1>8, EndTypes, TokensStay DEF Send
<1>9. ASSUME NEW t \in Threads, Refuse(t) PROVE TypeOK'
  BY <1>9, TokensStay DEF Refuse, Goto
<1>10. ASSUME NEW t \in Threads, RefuseAgain(t) PROVE TypeOK'
  BY <1>10, EndTypes, TokensStay DEF RefuseAgain
<1>11. ASSUME NEW t \in Threads, DropToken(t) PROVE TypeOK'
  BY <1>11, TokensStay DEF DropToken, Goto, Clear
<1>12. ASSUME NEW k \in 1 .. MaxRevokes, Revoke(k) PROVE TypeOK'
  BY <1>12, TokensStay DEF Revoke, locals, Tokens
<1>13. CASE Tick
  BY <1>13, TokensStay DEF Tick, locals
<1>14. CASE UNCHANGED vars
  BY <1>14, TokensStay DEF vars
<1> QED
  BY <1>1, <1>2, <1>3, <1>4, <1>5, <1>6, <1>7, <1>8, <1>9, <1>10, <1>11, <1>12, <1>13, <1>14
  DEF Next, Step

(* The variables keep to their types. *)
THEOREM Typing == Spec => []TypeOK
<1>1. Init => TypeOK
  BY NatConstants DEF Init, TypeOK, Steps, NoToken, Tokens
<1> QED
  BY <1>1, NextTypeOK, PTL DEF Spec

-----------------------------------------------------------------------------
(* A token that a thread is about to store is in nobody else's hands, so   *)
(* one that was refused and dropped never comes back.                      *)
Unshared ==
    \A t \in Threads :
        pc[t] = "store" /\ got[t] # NoToken =>
            /\ got[t] # token
            /\ \A u \in Threads : got[t] # header[u] /\ got[t] # refused[u]
            /\ \A u \in Threads \ {t} : pc[u] = "store" => got[t] # got[u]

Dropped ==
    \A t \in Threads :
        /\ pc[t] = "idle" => ~second[t]
        /\ pc[t] = "refused" => refused[t] # NoToken
        /\ second[t] => refused[t] # NoToken /\ token # refused[t]

FreshInv == Unshared /\ Dropped /\ RetryIsFresh

(* A step that stores nothing hands on only tokens that are out already. *)
LEMMA UnsharedStays ==
  ASSUME TypeOK, Unshared, NEW t \in Threads, pc'[t] # "store", token' = token,
         \A u \in Threads \ {t} : pc'[u] = pc[u] /\ got'[u] = got[u],
         \A u \in Threads : header'[u] \in {header[u], token, NoToken} /\ refused'[u] \in {refused[u], NoToken}
  PROVE  Unshared'
<1> SUFFICES ASSUME NEW u \in Threads, pc'[u] = "store", got'[u] # NoToken
             PROVE  /\ got'[u] # token
                    /\ \A v \in Threads : got'[u] # header'[v] /\ got'[u] # refused'[v]
                    /\ \A v \in Threads \ {u} : pc'[v] = "store" => got'[u] # got'[v]
  BY DEF Unshared
<1>1. u # t /\ pc[u] = "store" /\ got'[u] = got[u]
  OBVIOUS
<1>2. /\ got[u] # token
      /\ \A v \in Threads : got[u] # header[v] /\ got[u] # refused[v]
      /\ \A v \in Threads \ {u} : pc[v] = "store" => got[u] # got[v]
  BY <1>1 DEF Unshared
<1> QED
  BY <1>1, <1>2

(* Nor does a request that ends. *)
LEMMA FreshAtEnd ==
  ASSUME TypeOK, FreshInv, NEW t \in Threads, End(t), UNCHANGED token
  PROVE  FreshInv'
<1>1. /\ pc' = [pc EXCEPT ![t] = "idle"] /\ second' = [second EXCEPT ![t] = FALSE]
      /\ got' = [got EXCEPT ![t] = NoToken] /\ header' = [header EXCEPT ![t] = NoToken]
      /\ refused' = [refused EXCEPT ![t] = NoToken]
  BY DEF End, Goto
<1>2. pc'[t] = "idle" /\ ~second'[t]
  BY <1>1 DEF TypeOK
<1>3. \A u \in Threads \ {t} : /\ pc'[u] = pc[u] /\ second'[u] = second[u] /\ got'[u] = got[u]
                                /\ header'[u] = header[u] /\ refused'[u] = refused[u]
  BY <1>1 DEF TypeOK
<1>4. header'[t] = NoToken /\ refused'[t] = NoToken
  BY <1>1 DEF TypeOK
<1>5. Unshared'
  BY <1>2, <1>3, <1>4, UnsharedStays DEF FreshInv
<1>6. Dropped'
  BY <1>2, <1>3 DEF FreshInv, Dropped
<1>7. RetryIsFresh'
  BY <1>2, <1>3 DEF FreshInv, RetryIsFresh
<1> QED
  BY <1>5, <1>6, <1>7 DEF FreshInv

LEMMA NextFresh == TypeOK /\ FreshInv /\ [Next]_vars => FreshInv'
<1> SUFFICES ASSUME TypeOK, FreshInv, [Next]_vars PROVE FreshInv'
  OBVIOUS
<1> USE DEF TypeOK, Steps, NoToken, FreshInv, Unshared, Dropped, RetryIsFresh
<1>1. ASSUME NEW t \in Threads, Request(t) PROVE FreshInv'
  BY <1>1 DEF Request, Goto, locals
<1>2. ASSUME NEW t \in Threads, Check(t) PROVE FreshInv'
  BY <1>2 DEF Check, Goto
<1>3. ASSUME NEW t \in Threads, Compare(t) PROVE FreshInv'
  <2>1. Unshared'
    <3>1. pc'[t] # "store" /\ token' = token /\ UNCHANGED <<got, refused>>
      BY <1>3 DEF Compare, Goto
    <3>2. \A u \in Threads \ {t} : pc'[u] = pc[u]
      BY <1>3 DEF Compare, Goto
    <3>3. \A u \in Threads : header'[u] \in {header[u], token}
      BY <1>3 DEF Compare, Goto
    <3> QED
      BY <3>1, <3>2, <3>3, UnsharedStays
  <2>2. Dropped'
    BY <1>3 DEF Compare, Goto
  <2>3. RetryIsFresh'
    BY <1>3 DEF Compare, Goto
  <2> QED
    BY <2>1, <2>2, <2>3
<1>4. ASSUME NEW t \in Threads, Login(t) PROVE FreshInv'
  <2>1. CASE got' = [got EXCEPT ![t] = NoToken] /\ UNCHANGED grants
    BY <1>4, <2>1 DEF Login, Goto
  <2>2. CASE grants' = Append(grants, now + Timeout) /\ got' = [got EXCEPT ![t] = Len(grants')]
    <3>1. Len(grants') = Len(grants) + 1 /\ Len(grants) \in Nat
      BY <2>2, NatConstants
    <3>2. \A k \in Tokens \cup {NoToken} : Len(grants') # k
      BY <3>1 DEF Tokens
    <3> QED
      BY <1>4, <2>2, <3>2 DEF Login, Goto
  <2> QED
    BY <1>4, <2>1, <2>2 DEF Login
<1>5. ASSUME NEW t \in Threads, LoginFails(t) PROVE FreshInv'
  BY <1>5, FreshAtEnd DEF LoginFails
<1>6. ASSUME NEW t \in Threads, Store(t) PROVE FreshInv'
  BY <1>6 DEF Store, Goto, Clear
<1>7. ASSUME NEW t \in Threads, Stamp(t) PROVE FreshInv'
  <2>1. CASE token = NoToken
    BY <1>7, <2>1, FreshAtEnd DEF Stamp
  <2>2. CASE token # NoToken
    <3>1. Unshared'
      <4>1. /\ pc' = [pc EXCEPT ![t] = "send"]
            /\ got' = [got EXCEPT ![t] = NoToken]
            /\ header' = [header EXCEPT ![t] = token]
            /\ UNCHANGED refused /\ UNCHANGED token
        BY <1>7, <2>2 DEF Stamp, Goto
      <4>2. /\ pc'[t] # "store"
            /\ \A u \in Threads \ {t} : pc'[u] = pc[u] /\ got'[u] = got[u]
        BY <4>1
      <4>3. \A u \in Threads : header'[u] \in {header[u], token, NoToken} /\ refused'[u] \in {refused[u], NoToken}
        BY <4>1
      <4> QED
        BY <4>1, <4>2, <4>3, UnsharedStays
    <3>2. Dropped'
      BY <1>7, <2>2 DEF Stamp, Goto
    <3>3. RetryIsFresh'
      <4>1. /\ header' = [header EXCEPT ![t] = token]
            /\ pc' = [pc EXCEPT ![t] = "send"]
            /\ UNCHANGED <<second, refused>>
        BY <1>7, <2>2 DEF Stamp, Goto
      <4>2. second[t] => token # refused[t]
        OBVIOUS
      <4> QED
        BY <4>1, <4>2
    <3> QED
      BY <3>1, <3>2, <3>3
  <2> QED
    BY <2>1, <2>2
<1>8. ASSUME NEW t \in Threads, Send(t) PROVE FreshInv'
  BY <1>8, FreshAtEnd DEF Send
<1>9. ASSUME NEW t \in Threads, Refuse(t) PROVE FreshInv'
  <2>1. /\ refused' = [refused EXCEPT ![t] = header[t]] /\ pc' = [pc EXCEPT ![t] = "refused"]
        /\ ~second[t] /\ header[t] # NoToken
        /\ UNCHANGED <<token, second, got, header>>
    BY <1>9 DEF Refuse, Answers401, Goto
  <2>2. refused'[t] = header[t] /\ pc'[t] = "refused"
    BY <2>1
  <2>3. \A u \in Threads \ {t} : refused'[u] = refused[u] /\ pc'[u] = pc[u]
    BY <2>1
  <2>4. Unshared'
    BY <2>1, <2>2, <2>3
  <2>5. Dropped'
    BY <2>1, <2>2, <2>3
  <2>6. RetryIsFresh'
    BY <2>1, <2>2, <2>3
  <2> QED
    BY <2>4, <2>5, <2>6
<1>10. ASSUME NEW t \in Threads, RefuseAgain(t) PROVE FreshInv'
  BY <1>10, FreshAtEnd DEF RefuseAgain
<1>11. ASSUME NEW t \in Threads, DropToken(t) PROVE FreshInv'
  BY <1>11 DEF DropToken, Goto, Clear
<1>12. ASSUME NEW k \in 1 .. MaxRevokes, Revoke(k) PROVE FreshInv'
  BY <1>12 DEF Revoke, locals
<1>13. CASE Tick
  BY <1>13 DEF Tick, locals
<1>14. CASE UNCHANGED vars
  BY <1>14 DEF vars
<1> QED
  BY <1>1, <1>2, <1>3, <1>4, <1>5, <1>6, <1>7, <1>8, <1>9, <1>10, <1>11, <1>12, <1>13, <1>14
  DEF Next, Step

(* "retry once with a fresh login": whatever other threads log in, store   *)
(* and drop between the refusal and the retry, and however BIG-IP and the  *)
(* network fail, the retry carries another token than the refused one.     *)
THEOREM RetryIsFreshHolds == Spec => []RetryIsFresh
<1>1. Init => FreshInv
  BY DEF Init, FreshInv, Unshared, Dropped, RetryIsFresh, NoToken
<1>2. FreshInv => RetryIsFresh
  BY DEF FreshInv
<1> QED
  BY <1>1, <1>2, Typing, NextFresh, PTL DEF Spec

-----------------------------------------------------------------------------
(* What the two margins have to cover: a thread held up between a login's  *)
(* answer and _token_expires_at, while another thread in the same          *)
(* situation replaces the token.                                           *)
StallCovered == 2 * MaxStall <= Margin /\ 2 * MaxStall < Timeout

RenewedInTime ==
    /\ renewAt <= now + Timeout - Margin
    /\ token # NoToken => renewAt <= grants[token]

Punctual ==
    \A t \in Threads :
        /\ pc[t] = "idle" => header[t] = NoToken
        /\ pc[t] \in {"store", "stamp"} => checkedAt[t] <= now /\ now <= checkedAt[t] + MaxStall
        /\ pc[t] = "store" /\ got[t] # NoToken => grants[got[t]] = checkedAt[t] + Timeout
        /\ pc[t] = "stamp" /\ token # NoToken => checkedAt[t] + Timeout <= grants[token] + MaxStall

ExpiryInv == RenewedInTime /\ Punctual /\ NoExpiredToken

LEMMA GrantTypes ==
  ASSUME TypeOK
  PROVE  /\ \A k \in Tokens : grants[k] \in Nat
         /\ now \in Nat /\ renewAt \in Nat
         /\ \A t \in Threads : checkedAt[t] \in Nat
  BY NatConstants DEF TypeOK, Tokens

(* What the other threads do is not disturbed by a step that touches       *)
(* neither the clock, nor the token, nor what they hold.                   *)
LEMMA PunctualStays ==
  ASSUME TypeOK, Punctual, NEW t \in Threads,
         UNCHANGED <<now, token, grants>>, pc'[t] \notin {"store", "stamp"},
         pc'[t] = "idle" => header'[t] = NoToken,
         \A u \in Threads \ {t} : /\ pc'[u] = pc[u] /\ got'[u] = got[u]
                                  /\ checkedAt'[u] = checkedAt[u] /\ header'[u] = header[u]
  PROVE  Punctual'
BY DEF Punctual

LEMMA NextExpiry ==
  ASSUME StallCovered, TypeOK, ExpiryInv, [Next]_vars
  PROVE  ExpiryInv'
<1> USE DEF Steps, NoToken, ExpiryInv
<1>0. /\ now \in Nat /\ renewAt \in Nat
      /\ \A k \in Tokens : grants[k] \in Nat
      /\ \A t \in Threads : checkedAt[t] \in Nat
      /\ pc \in [Threads -> Steps]
      /\ token \in Tokens \cup {NoToken}
      /\ header \in [Threads -> Tokens \cup {NoToken}] /\ got \in [Threads -> Tokens \cup {NoToken}]
      /\ checkedAt \in [Threads -> 0 .. MaxTime]
  BY GrantTypes DEF TypeOK
<1>1. ASSUME NEW t \in Threads, Request(t) PROVE ExpiryInv'
  <2>1. Punctual'
    BY <1>1, <1>0, PunctualStays DEF Request, Goto, locals
  <2>2. RenewedInTime'
    BY <1>1, <1>0 DEF Request, Goto, locals, RenewedInTime
  <2>3. NoExpiredToken'
    BY <1>1, <1>0 DEF Request, Goto, locals, NoExpiredToken, RenewedInTime, Punctual
  <2> QED
    BY <2>1, <2>2, <2>3
<1>2. ASSUME NEW t \in Threads, Check(t) PROVE ExpiryInv'
  <2>1. Punctual'
    BY <1>2, <1>0, PunctualStays DEF Check, Goto
  <2>2. RenewedInTime'
    BY <1>2, <1>0 DEF Check, Goto, RenewedInTime
  <2>3. NoExpiredToken'
    BY <1>2, <1>0 DEF Check, Goto, NoExpiredToken, RenewedInTime, Punctual
  <2> QED
    BY <2>1, <2>2, <2>3
<1>3. ASSUME NEW t \in Threads, Compare(t) PROVE ExpiryInv'
  <2>1. Punctual'
    BY <1>3, <1>0, PunctualStays DEF Compare, Goto
  <2>2. RenewedInTime'
    BY <1>3, <1>0 DEF Compare, Goto, RenewedInTime
  <2>3. NoExpiredToken'
    BY <1>3, <1>0 DEF Compare, Goto, NoExpiredToken, RenewedInTime, Punctual
  <2> QED
    BY <2>1, <2>2, <2>3
<1>4. ASSUME NEW t \in Threads, Login(t) PROVE ExpiryInv'
  <2>1. \A k \in Tokens : grants'[k] = grants[k]
    <3>1. grants \in Seq(0 .. MaxTime + Timeout) /\ (grants' = grants \/ grants' = Append(grants, now + Timeout))
      BY <1>4 DEF Login, TypeOK
    <3> QED
      BY <3>1 DEF Tokens
  <2>2. got'[t] # NoToken => grants'[got'[t]] = now + Timeout
    BY <1>4, <1>0, NatConstants DEF Login, TypeOK, Tokens
  <2>3. Punctual'
    <3>1. /\ pc' = [pc EXCEPT ![t] = "store"] /\ pc[t] = "login"
          /\ checkedAt' = [checkedAt EXCEPT ![t] = now]
          /\ UNCHANGED <<now, token, header>>
          /\ \A u \in Threads \ {t} : got'[u] = got[u]
      BY <1>4, <1>0 DEF Login, Goto
    <3>2. pc'[t] = "store" /\ checkedAt'[t] = now /\ now <= now + MaxStall
      BY <1>0, <3>1, NatConstants
    <3>3. ASSUME NEW u \in Threads \ {t}
          PROVE  /\ pc'[u] = pc[u] /\ checkedAt'[u] = checkedAt[u] /\ got'[u] = got[u]
                 /\ got[u] # NoToken => grants'[got[u]] = grants[got[u]]
                 /\ token # NoToken => grants'[token] = grants[token]
      BY <1>0, <2>1, <3>1
    <3>4. UNCHANGED <<now, token, header>>
      BY <3>1
    <3>5. ASSUME NEW u \in Threads \ {t}
          PROVE  /\ pc'[u] = "idle" => header'[u] = NoToken
                 /\ pc'[u] \in {"store", "stamp"} => checkedAt'[u] <= now' /\ now' <= checkedAt'[u] + MaxStall
                 /\ pc'[u] = "store" /\ got'[u] # NoToken => grants'[got'[u]] = checkedAt'[u] + Timeout
                 /\ pc'[u] = "stamp" /\ token' # NoToken => checkedAt'[u] + Timeout <= grants'[token'] + MaxStall
      BY <3>3, <3>4 DEF Punctual
    <3>6. /\ pc'[t] = "idle" => header'[t] = NoToken
          /\ pc'[t] \in {"store", "stamp"} => checkedAt'[t] <= now' /\ now' <= checkedAt'[t] + MaxStall
          /\ pc'[t] = "store" /\ got'[t] # NoToken => grants'[got'[t]] = checkedAt'[t] + Timeout
          /\ pc'[t] = "stamp" /\ token' # NoToken => checkedAt'[t] + Timeout <= grants'[token'] + MaxStall
      BY <1>0, <2>2, <3>2, <3>4
    <3> QED
      BY <3>5, <3>6 DEF Punctual
  <2>4. RenewedInTime'
    BY <1>4, <1>0, <2>1 DEF Login, RenewedInTime
  <2>5. NoExpiredToken'
    BY <1>4, <1>0, <2>1 DEF Login, Goto, NoExpiredToken
  <2> QED
    BY <2>3, <2>4, <2>5
<1>5. ASSUME NEW t \in Threads, LoginFails(t) PROVE ExpiryInv'
  <2>1. Punctual'
    BY <1>5, <1>0, PunctualStays DEF LoginFails, End, Goto
  <2>2. RenewedInTime'
    BY <1>5, <1>0 DEF LoginFails, End, Goto, RenewedInTime
  <2>3. NoExpiredToken'
    BY <1>5, <1>0 DEF LoginFails, End, Goto, NoExpiredToken, RenewedInTime, Punctual
  <2> QED
    BY <2>1, <2>2, <2>3
<1>6. ASSUME NEW t \in Threads, Store(t) PROVE ExpiryInv'
  <2>1. /\ checkedAt[t] <= now /\ now <= checkedAt[t] + MaxStall
        /\ got[t] # NoToken => grants[got[t]] = checkedAt[t] + Timeout
    BY <1>6 DEF Store, Punctual
  <2>2. RenewedInTime'
    BY <1>6, <1>0, <2>1, NatConstants DEF Store, RenewedInTime, StallCovered
  <2>3. Punctual'
    <3> SUFFICES ASSUME NEW u \in Threads
                 PROVE  /\ pc'[u] = "idle" => header'[u] = NoToken
                        /\ pc'[u] \in {"store", "stamp"} => checkedAt'[u] <= now' /\ now' <= checkedAt'[u] + MaxStall
                        /\ pc'[u] = "store" /\ got'[u] # NoToken => grants'[got'[u]] = checkedAt'[u] + Timeout
                        /\ pc'[u] = "stamp" /\ token' # NoToken => checkedAt'[u] + Timeout <= grants'[token'] + MaxStall
      BY DEF Punctual
    <3>1. CASE u = t
      BY <1>6, <1>0, <2>1, <3>1, NatConstants DEF Store, Goto
    <3>2. CASE u # t
      BY <1>6, <1>0, <2>1, <3>2, NatConstants DEF Store, Goto, Punctual
    <3> QED
      BY <3>1, <3>2
  <2>4. NoExpiredToken'
    BY <1>6, <1>0 DEF Store, Goto, NoExpiredToken
  <2> QED
    BY <2>2, <2>3, <2>4
<1>7. ASSUME NEW t \in Threads, Stamp(t) PROVE ExpiryInv'
  <2>1. /\ now <= checkedAt[t] + MaxStall
        /\ token # NoToken => checkedAt[t] + Timeout <= grants[token] + MaxStall
    BY <1>7 DEF Stamp, Punctual
  <2>2. token # NoToken => now < grants[token] /\ now + Timeout - Margin <= grants[token]
    BY <1>0, <2>1, NatConstants DEF StallCovered
  <2>3. RenewedInTime'
    BY <1>7, <1>0, <2>2, NatConstants DEF Stamp, RenewalTime, RenewedInTime
  <2>4. Punctual'
    BY <1>7, <1>0, PunctualStays DEF Stamp, End, Goto
  <2>5. NoExpiredToken'
    <3>1. CASE token = NoToken
      BY <1>7, <1>0, <3>1 DEF Stamp, End, Goto, NoExpiredToken
    <3>2. CASE token # NoToken
      BY <1>7, <1>0, <2>2, <3>2 DEF Stamp, Goto, NoExpiredToken
    <3> QED
      BY <3>1, <3>2
  <2> QED
    BY <2>3, <2>4, <2>5
<1>8. ASSUME NEW t \in Threads, Send(t) PROVE ExpiryInv'
  <2>1. Punctual'
    BY <1>8, <1>0, PunctualStays DEF Send, End, Goto
  <2>2. RenewedInTime'
    BY <1>8, <1>0 DEF Send, End, Goto, RenewedInTime
  <2>3. NoExpiredToken'
    BY <1>8, <1>0 DEF Send, End, Goto, NoExpiredToken, RenewedInTime, Punctual
  <2> QED
    BY <2>1, <2>2, <2>3
<1>9. ASSUME NEW t \in Threads, Refuse(t) PROVE ExpiryInv'
  <2>1. Punctual'
    BY <1>9, <1>0, PunctualStays DEF Refuse, Answers401, Goto
  <2>2. RenewedInTime'
    BY <1>9, <1>0 DEF Refuse, Answers401, Goto, RenewedInTime
  <2>3. NoExpiredToken'
    BY <1>9, <1>0 DEF Refuse, Answers401, Goto, NoExpiredToken, RenewedInTime, Punctual
  <2> QED
    BY <2>1, <2>2, <2>3
<1>10. ASSUME NEW t \in Threads, RefuseAgain(t) PROVE ExpiryInv'
  <2>1. Punctual'
    BY <1>10, <1>0, PunctualStays DEF RefuseAgain, End, Goto
  <2>2. RenewedInTime'
    BY <1>10, <1>0 DEF RefuseAgain, End, Goto, RenewedInTime
  <2>3. NoExpiredToken'
    BY <1>10, <1>0 DEF RefuseAgain, End, Goto, NoExpiredToken, RenewedInTime, Punctual
  <2> QED
    BY <2>1, <2>2, <2>3
<1>11. ASSUME NEW t \in Threads, DropToken(t) PROVE ExpiryInv'
  BY <1>11, <1>0 DEF DropToken, Goto, RenewedInTime, Punctual, NoExpiredToken
<1>12. ASSUME NEW k \in 1 .. MaxRevokes, Revoke(k) PROVE ExpiryInv'
  BY <1>12, <1>0 DEF Revoke, locals, RenewedInTime, Punctual, NoExpiredToken
<1>13. CASE Tick
  BY <1>13, <1>0, NatConstants DEF Tick, locals, RenewedInTime, Punctual, NoExpiredToken
<1>14. CASE UNCHANGED vars
  BY <1>14 DEF vars, RenewedInTime, Punctual, NoExpiredToken
<1> QED
  BY <1>1, <1>2, <1>3, <1>4, <1>5, <1>6, <1>7, <1>8, <1>9, <1>10, <1>11, <1>12, <1>13, <1>14
  DEF Next, Step

(* "renew a bit early": if the early renewal covers two stalls, no request *)
(* carries a token that had expired on BIG-IP when its thread looked at    *)
(* the clock, whichever login's token and renewal time end up together.    *)
THEOREM NoExpiredTokenHolds == ASSUME StallCovered PROVE Spec => []NoExpiredToken
<1>1. Init => ExpiryInv
  BY NatConstants DEF Init, ExpiryInv, RenewedInTime, Punctual, NoExpiredToken, NoToken
<1>2. TypeOK /\ ExpiryInv /\ [Next]_vars => ExpiryInv'
  BY NextExpiry
<1>3. ExpiryInv => NoExpiredToken
  BY DEF ExpiryInv
<1> QED
  BY <1>1, <1>2, <1>3, Typing, PTL DEF Spec
-----------------------------------------------------------------------------
(* A token that is gone from under a thread between its two looks was      *)
(* dropped by another: the thread's own look found one.                    *)
ClearedUnderway ==
    \A t \in Threads : mode = "token" /\ pc[t] = "compare" /\ token = NoToken => cleared[t]

NullInv == ClearedUnderway /\ NullHeaderOnlyIfCleared

(* A step that leaves the token alone disturbs only its own thread. *)
LEMMA NullStays ==
  ASSUME TypeOK, NullInv, NEW t \in Threads, UNCHANGED <<mode, token>>,
         \A u \in Threads \ {t} : pc'[u] = pc[u] /\ header'[u] = header[u] /\ cleared'[u] = cleared[u],
         mode = "token" /\ pc'[t] = "compare" => token # NoToken,
         mode = "token" /\ pc'[t] = "send" /\ header'[t] = NoToken => cleared'[t]
  PROVE  NullInv'
BY DEF NullInv, ClearedUnderway, NullHeaderOnlyIfCleared

(* A step that takes the token away tells every thread between its looks. *)
LEMMA NullAfterClear ==
  ASSUME TypeOK, NullInv, NEW t \in Threads, UNCHANGED <<mode, header>>,
         (token' # NoToken /\ UNCHANGED cleared) \/ Clear(t),
         \A u \in Threads \ {t} : pc'[u] = pc[u],
         pc'[t] \notin {"compare", "send"}
  PROVE  NullInv'
<1> SUFFICES ASSUME NEW u \in Threads, mode = "token"
             PROVE  /\ pc'[u] = "compare" /\ token' = NoToken => cleared'[u]
                    /\ pc'[u] = "send" /\ header'[u] = NoToken => cleared'[u]
  BY DEF NullInv, ClearedUnderway, NullHeaderOnlyIfCleared
<1>1. CASE u = t
  BY <1>1
<1>2. CASE u # t /\ UNCHANGED cleared /\ token' # NoToken
  BY <1>2 DEF NullInv, NullHeaderOnlyIfCleared
<1>3. CASE u # t /\ Clear(t)
  BY <1>3 DEF Clear, NullInv, NullHeaderOnlyIfCleared
<1> QED
  BY <1>1, <1>2, <1>3

LEMMA NextNull == TypeOK /\ NullInv /\ [Next]_vars => NullInv'
<1> SUFFICES ASSUME TypeOK, NullInv, [Next]_vars PROVE NullInv'
  OBVIOUS
<1>0. pc \in [Threads -> Steps] /\ header \in [Threads -> Tokens \cup {NoToken}] /\ cleared \in [Threads -> BOOLEAN]
  BY DEF TypeOK
<1>1. ASSUME NEW t \in Threads, Request(t) PROVE NullInv'
  BY <1>0, <1>1, NullStays DEF Request, Goto, locals
<1>2. ASSUME NEW t \in Threads, Check(t) PROVE NullInv'
  BY <1>0, <1>2, NullStays DEF Check, Goto
<1>3. ASSUME NEW t \in Threads, Compare(t) PROVE NullInv'
  <2>1. mode = "token" /\ token = NoToken => cleared[t]
    BY <1>3 DEF Compare, NullInv, ClearedUnderway
  <2> QED
    BY <1>0, <1>3, <2>1, NullStays DEF Compare, Goto
<1>4. ASSUME NEW t \in Threads, Login(t) PROVE NullInv'
  BY <1>0, <1>4, NullStays DEF Login, Goto
<1>5. ASSUME NEW t \in Threads, LoginFails(t) \/ Send(t) \/ RefuseAgain(t) PROVE NullInv'
  BY <1>0, <1>5, NullStays DEF LoginFails, Send, RefuseAgain, End, Goto
<1>6. ASSUME NEW t \in Threads, Store(t) PROVE NullInv'
  BY <1>0, <1>6, NullAfterClear DEF Store, Goto
<1>7. ASSUME NEW t \in Threads, Stamp(t) PROVE NullInv'
  BY <1>0, <1>7, NullStays DEF Stamp, End, Goto
<1>8. ASSUME NEW t \in Threads, Refuse(t) PROVE NullInv'
  BY <1>0, <1>8, NullStays DEF Refuse, Goto
<1>9. ASSUME NEW t \in Threads, DropToken(t) PROVE NullInv'
  BY <1>0, <1>9, NullAfterClear DEF DropToken, Goto
<1>10. CASE UNCHANGED <<mode, token, pc, header, cleared>>
  BY <1>10 DEF NullInv, ClearedUnderway, NullHeaderOnlyIfCleared
<1> QED
  BY <1>1, <1>2, <1>3, <1>4, <1>5, <1>6, <1>7, <1>8, <1>9, <1>10
  DEF Next, Step, Revoke, Tick, locals, vars

(* Only the second look of _auth_headers at _token can hand None to a      *)
(* request, and only when another thread's 401 or tokenless login fell     *)
(* between the two looks.                                                  *)
THEOREM NullHeaderOnlyIfClearedHolds == Spec => []NullHeaderOnlyIfCleared
<1>1. Init => NullInv
  BY DEF Init, NullInv, ClearedUnderway, NullHeaderOnlyIfCleared
<1>2. NullInv => NullHeaderOnlyIfCleared
  BY DEF NullInv
<1> QED
  BY <1>1, <1>2, Typing, NextNull, PTL DEF Spec
=============================================================================
