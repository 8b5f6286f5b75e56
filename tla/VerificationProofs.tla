--------------------------- MODULE VerificationProofs ---------------------------
(* Proofs about what decides whether a SET is believed, for any number of  *)
(* threads, pods, requests, keys and registrations, and any subjects: the  *)
(* verifier (SetVerifier) and the key under which sessions are found       *)
(* (SubjectKey), the manager of the keys it asks (JwksManager) and the     *)
(* admin API that makes a transmitter known to both (Onboarding).          *)
EXTENDS SetVerifier, JwksManager, Onboarding, SequenceTheorems, TLAPS

-----------------------------------------------------------------------------
(* The verifier: SetVerifier.                                              *)

(* The limits are numbers, and so are the dates and the clock. *)
LEMMA Numbers ==
    /\ MaxAge \in Nat /\ Skew \in Nat /\ ClientTtl \in Nat /\ MaxTime \in Nat
    /\ Undated \in Int /\ Undated < 0
    /\ \A tok \in Tokens : tok.iat \in Int
<1>1. MaxAge \in Nat /\ Skew \in Nat /\ ClientTtl \in Nat /\ MaxTime \in Nat
  BY SetVerifierAssumption
<1>2. Undated \in Int /\ Undated < 0
  BY <1>1 DEF Undated
<1>3. \A tok \in Tokens : tok.iat \in Int
  BY SetVerifierAssumption DEF TokenRecords
<1> QED
  BY <1>1, <1>2, <1>3

(* What is chosen where it does not matter. *)
LEMMA Chosen == SomeToken \in Tokens /\ SomeSubject \in Subjects
  BY SetVerifierAssumption DEF SomeToken, SomeSubject

(* What the types say of the times. *)
LEMMA Clock ==
  ASSUME TypeOK
  PROVE  /\ now \in Int /\ began \in Int /\ datedAt \in Int
         /\ 0 <= now /\ now <= MaxTime /\ 0 <= began /\ began <= now /\ datedAt <= now
         /\ \A r \in Registrations : putBack[r] \in Int /\ putBack[r] <= now
  BY Numbers DEF TypeOK

(* Putting a client there, or dating it, keeps the types of the record of  *)
(* it, and moves nothing in it back.                                       *)
LEMMA PutsBackTyped ==
  ASSUME TypeOK, NEW r, PutsBack(r)
  PROVE  /\ putBack' \in [Registrations -> {Undated} \cup 0 .. now]
         /\ \A x \in Registrations : putBack[x] <= putBack'[x]
         /\ r \in Registrations /\ r # keys => putBack'[r] = now
<1>1. now \in 0 .. now /\ now \in Int
  BY Clock
<1>2. putBack \in [Registrations -> {Undated} \cup 0 .. now]
  BY DEF TypeOK
<1>3. putBack' \in [Registrations -> {Undated} \cup 0 .. now]
  BY <1>1, <1>2 DEF PutsBack
<1>4. ASSUME NEW x \in Registrations PROVE putBack[x] <= putBack'[x]
  BY <1>2, Clock DEF PutsBack
<1>5. r \in Registrations /\ r # keys => putBack'[r] = now
  BY <1>2 DEF PutsBack
<1> QED
  BY <1>3, <1>4, <1>5

(* Whatever ends a call, or takes it to its next step, keeps the types of  *)
(* what the thread has.                                                    *)
CallTyped ==
    /\ {transmitter, signingKey} \subseteq Registrations \cup {None}
    /\ pc \in Steps
    /\ token \in Tokens
    /\ again \in BOOLEAN
    /\ verdict \in Verdicts
    /\ span \subseteq Registrations \cup {None}
    /\ began \in 0 .. now
    /\ raced \in BOOLEAN
    /\ pc \notin {"idle", "get"} => transmitter # None
    /\ pc \in {"client", "create", "take", "resolve", "decode", "claims"} => signingKey # None

LEMMA EndTyped ==
  ASSUME TypeOK, UNCHANGED now, NEW how \in Verdicts, End(how)
  PROVE  CallTyped'
<1>1. 0 \in 0 .. now
  BY Clock
<1> QED
  BY <1>1, Chosen DEF End, CallTyped, Steps, None

LEMMA ProceedTyped ==
  ASSUME TypeOK, UNCHANGED now, NEW step \in Steps \ {"idle", "get"}, NEW key \in Registrations, Proceed(step, key),
         pc \notin {"idle", "get"}
  PROVE  CallTyped' /\ subject' = subject
  BY SetVerifierAssumption DEF Proceed, CallTyped, TypeOK, call

(* Every step keeps the types. *)
LEMMA NextTypeOK == TypeOK /\ [Next]_vars => TypeOK'
<1> SUFFICES ASSUME TypeOK, [Next]_vars PROVE TypeOK'
  OBVIOUS
<1>0. now \in 0 .. now
  BY Clock
<1>1. ASSUME NEW r \in Registrations, Register(r) PROVE TypeOK'
  BY <1>1, SetVerifierAssumption DEF Register, TypeOK, thread, call
<1>2. ASSUME NEW r \in Registrations, OtherCreates(r) PROVE TypeOK'
  BY <1>2, PutsBackTyped DEF OtherCreates, TypeOK, thread, call
<1>3. CASE RegisterKeys
  BY <1>3 DEF RegisterKeys, TypeOK, thread, call
<1>4. CASE OtherDates
  BY <1>0, <1>4, PutsBackTyped DEF OtherDates, TypeOK, thread, call
<1>5. CASE OtherPops
  BY <1>5 DEF OtherPops, TypeOK, thread, call
<1>6. ASSUME NEW tok \in Tokens, Peek(tok) PROVE TypeOK'
  <2>1. UNCHANGED <<now, registry, keys, kept, datedAt, read, putBack>> /\ subject' \in Subjects
    BY <1>6, Chosen DEF Peek, managers
  <2>2. CASE tok.form \in {"garbled", "typ", "no iss", "odd typ"}
    <3>1. \E how \in Verdicts : End(how)
      BY <1>6, <2>2 DEF Peek, Verdicts
    <3> QED
      BY <2>1, <3>1, EndTyped DEF CallTyped, TypeOK
  <2>3. CASE tok.form \notin {"garbled", "typ", "no iss", "odd typ"}
    <3>1. pc' = "get" /\ token' = tok /\ verdict' = "none" /\ span' = {registry, keys} /\ began' = now
          /\ UNCHANGED <<transmitter, signingKey, again, raced>>
      BY <1>6, <2>3 DEF Peek
    <3> QED
      BY <1>0, <2>1, <3>1 DEF TypeOK, Steps, Verdicts
  <2> QED
    BY <2>2, <2>3
<1>7. CASE GetTransmitter
  <2>1. UNCHANGED <<now, registry, keys, kept, datedAt, read, putBack>> /\ UNCHANGED subject
    BY <1>7 DEF GetTransmitter, managers, Fail
  <2>2. CASE End("refused")
    BY <2>1, <2>2, EndTyped DEF Verdicts, CallTyped, TypeOK
  <2>3. CASE /\ registry # None /\ transmitter' = registry /\ pc' = "key"
             /\ UNCHANGED <<token, signingKey, again, verdict, subject, call>>
    BY <2>1, <2>3 DEF TypeOK, Steps, call
  <2> QED
    BY <1>7, <2>2, <2>3 DEF GetTransmitter, Fail
<1>8. ASSUME UNCHANGED <<now, registry, keys, read>>, kept' \in Registrations \cup {None},
             datedAt' \in {datedAt, now}, putBack' \in [Registrations -> {Undated} \cup 0 .. now],
             \/ \E how \in Verdicts : Fail(how)
             \/ \E step \in Steps \ {"idle", "get"}, key \in Registrations : Proceed(step, key) /\ pc \notin {"idle", "get"}
      PROVE  TypeOK'
  <2>1. CallTyped' /\ subject' = subject
    BY <1>8, EndTyped, ProceedTyped DEF Fail
  <2> QED
    BY <1>0, <1>8, <2>1 DEF CallTyped, TypeOK
<1>9. CASE FindUri
  BY <1>8, <1>9 DEF FindUri, managers, TypeOK, Steps, Verdicts
<1>10. CASE FindClient
  BY <1>8, <1>10 DEF FindClient, IsFresh, managers, TypeOK, Steps
<1>11. CASE MakeClient
  BY <1>8, <1>11, PutsBackTyped DEF MakeClient, TypeOK, Steps
<1>12. CASE TakeKept
  BY <1>8, <1>12, PutsBackTyped DEF TakeKept, TypeOK, Steps, Verdicts
<1>13. CASE ResolveKey
  BY <1>8, <1>13 DEF ResolveKey, managers, TypeOK, Steps, Verdicts
<1>14. CASE TryAgain
  BY <1>14 DEF TryAgain, TypeOK, Steps, call
<1>15. CASE KeysUnavailable
  BY <1>8, <1>15 DEF KeysUnavailable, managers, TypeOK, Verdicts
<1>16. CASE Decode
  BY <1>8, <1>16 DEF Decode, managers, TypeOK, Steps, Verdicts
<1>17. ASSUME NEW s \in Subjects, CheckClaims(s) PROVE TypeOK'
  <2>1. UNCHANGED <<now, registry, keys, kept, datedAt, read, putBack>> /\ subject' \in Subjects
    BY <1>17 DEF CheckClaims, managers, Fail, TypeOK
  <2>2. \E how \in Verdicts : End(how)
    BY <1>17 DEF CheckClaims, Fail, Verdicts
  <2> QED
    BY <2>1, <2>2, EndTyped DEF CallTyped, TypeOK
<1>18. CASE Tick
  <2>1. /\ now' = now + 1 /\ now < MaxTime
        /\ UNCHANGED <<registry, keys, kept, datedAt, read, pc, token, transmitter, signingKey, again, verdict, subject,
                       span, began, raced, putBack>>
    BY <1>18 DEF Tick, managers, thread, call
  <2>2. now' \in 0 .. MaxTime /\ 0 .. now \subseteq 0 .. now'
    BY <2>1, Clock, Numbers
  <2>3. began' \in 0 .. now' /\ datedAt' \in {Undated} \cup 0 .. now' /\ putBack' \in [Registrations -> {Undated} \cup 0 .. now']
    BY <2>1, <2>2 DEF TypeOK
  <2> QED
    BY <2>1, <2>2, <2>3 DEF TypeOK
<1>19. CASE UNCHANGED vars
  BY <1>19 DEF vars, TypeOK
<1> QED
  BY <1>1, <1>2, <1>3, <1>4, <1>5, <1>6, <1>7, <1>9, <1>10, <1>11, <1>12, <1>13, <1>14, <1>15, <1>16, <1>17, <1>18, <1>19
     DEF Next

(* The variables keep to their types. *)
THEOREM Typing == Spec => []TypeOK
<1>1. Init => TypeOK
  <2> SUFFICES ASSUME Init PROVE TypeOK
    OBVIOUS
  <2>1. now = 0 /\ began = 0
    BY DEF Init
  <2>2. now \in 0 .. MaxTime /\ began \in 0 .. now
    BY ONLY <2>1, Numbers
  <2> QED
    BY <2>2, Chosen DEF Init, TypeOK, Steps, Verdicts
<1> QED
  BY <1>1, NextTypeOK, PTL DEF Spec

-----------------------------------------------------------------------------
Mixed == \E r, s \in span : r # s

WithKey == {"client", "create", "take", "resolve", "decode", "claims"}

(* What a call has looked up so far was in force when it did. *)
LookedUp ==
    /\ pc # "idle" => {registry, keys} \subseteq span
    /\ pc \notin {"idle", "get"} => transmitter \in span /\ token.iss = Issuer

(* The client in the dictionary is the current one, or as old as it was    *)
(* put back at the latest; and so is the one the call has.                 *)
KeyTrusted ==
    /\ kept \notin {None, keys} => datedAt <= putBack[kept]
    /\ pc \in WithKey => signingKey \in span \/ putBack[signingKey] >= began - ClientTtl

(* In its second attempt a call has the current client, unless others have *)
(* interfered; a client it built has not been taken away then.             *)
Undisturbed ==
    /\ pc \in {"client", "create", "take"} => signingKey \in span \/ pc = "take"
    /\ pc \in {"idle", "get"} => ~again
    /\ pc = "take" /\ ~raced /\ ~Mixed => kept # None
    /\ again /\ ~raced /\ ~Mixed => /\ kept \in span \cup {None}
                                    /\ pc \in WithKey => signingKey \in span

(* What it has checked still holds. *)
Checked ==
    /\ pc \in {"decode", "claims"} => token.signer \in {SignerOf[signingKey], Forged}
    /\ pc = "claims" => Decodes

VerdictInv == LookedUp /\ KeyTrusted /\ Undisturbed /\ Checked

(* A SET that decodes now decodes later ... *)
LEMMA DecodesStays ==
  ASSUME TypeOK, now' = now + 1, UNCHANGED <<token, transmitter, signingKey>>, Decodes
  PROVE  Decodes'
<1>1. now \in Int /\ token.iat \in Int /\ Skew \in Int
  BY Numbers, Clock DEF TypeOK
<1>2. token.iat <= now + Skew => token.iat <= now' + Skew
  BY <1>1
<1> QED
  BY <1>2 DEF Decodes

(* ... and one that does not has one of these reasons. *)
LEMMA DecodesNot ==
  ASSUME TypeOK, ~Decodes
  PROVE  \/ token.form = "no jti" \/ token.signer # SignerOf[signingKey] \/ token.aud # AudienceOf[transmitter]
         \/ token.iat > began + Skew
<1>1. now \in Int /\ began \in Int /\ began <= now /\ token.iat \in Int /\ Skew \in Int
  BY Numbers, Clock DEF TypeOK
<1>2. ~(token.iat <= now + Skew) => token.iat > began + Skew
  BY <1>1
<1> QED
  BY <1>2 DEF Decodes

(* With the call all that the invariant says of it is over. *)
LEMMA EndKeeps ==
  ASSUME NEW how, End(how), KeyTrusted, UNCHANGED <<kept, keys>>, kept \in Registrations \cup {None},
         kept \notin {None, keys} => datedAt' <= putBack'[kept]
  PROVE  VerdictInv'
<1>1. pc' = "idle" /\ again' = FALSE
  BY DEF End
<1> QED
  BY <1>1 DEF VerdictInv, LookedUp, KeyTrusted, Undisturbed, Checked, WithKey

(* Every step keeps the invariant. *)
LEMMA NextVerdictInv == TypeOK /\ VerdictInv /\ [Next]_vars => VerdictInv'
<1> SUFFICES ASSUME TypeOK, VerdictInv, [Next]_vars PROVE VerdictInv'
  OBVIOUS
<1>0. /\ now \in Int /\ began \in Int /\ datedAt \in Int /\ began <= now /\ datedAt <= now /\ ClientTtl \in Nat
      /\ \A r \in Registrations : putBack[r] \in Int /\ putBack[r] <= now
  BY Clock, Numbers
<1>a. {registry, keys, kept, signingKey, transmitter} \subseteq Registrations \cup {None} /\ None \notin Registrations
  BY SetVerifierAssumption DEF TypeOK
<1>b. pc \in WithKey => signingKey \in Registrations
  BY <1>a DEF TypeOK, WithKey
<1> DEFINE Moves(how, step, key) == Fail(how) \/ Proceed(step, key)
<1>1. ASSUME NEW r \in Registrations, Register(r) PROVE VerdictInv'
  <2>1. /\ registry' = r /\ UNCHANGED <<keys, kept, datedAt, pc, token, transmitter, signingKey, again, began, raced, putBack, now>>
        /\ span \subseteq span' /\ (pc # "idle" => span' = span \cup {r})
    BY <1>1 DEF Register, thread
  <2>2. Mixed => Mixed'
    BY <2>1 DEF Mixed
  <2>3. LookedUp' /\ KeyTrusted'
    BY <2>1 DEF VerdictInv, LookedUp, KeyTrusted
  <2>4. Undisturbed' /\ Checked'
    BY <2>1, <2>2 DEF VerdictInv, Undisturbed, Checked, Decodes
  <2> QED
    BY <2>3, <2>4 DEF VerdictInv
<1>2. ASSUME NEW r \in Registrations, OtherCreates(r) PROVE VerdictInv'
  <2>1. /\ kept' = r /\ raced' = (raced \/ (pc # "idle" /\ r # keys))
        /\ UNCHANGED <<registry, keys, datedAt, pc, token, transmitter, signingKey, again, began, span, now>>
    BY <1>2 DEF OtherCreates, thread
  <2>2. /\ putBack' \in [Registrations -> {Undated} \cup 0 .. now] /\ \A x \in Registrations : putBack[x] <= putBack'[x]
        /\ r # keys => putBack'[r] = now
    BY <1>2, PutsBackTyped DEF OtherCreates
  <2>3. \A x \in Registrations : putBack'[x] \in Int
    BY <1>0, <2>2, Numbers
  <2>4. KeyTrusted'
    BY <1>0, <1>b, <2>1, <2>2, <2>3 DEF VerdictInv, KeyTrusted
  <2>5. Undisturbed'
    BY <1>a, <2>1 DEF VerdictInv, Undisturbed, LookedUp, Mixed
  <2> QED
    BY <2>1, <2>4, <2>5 DEF VerdictInv, LookedUp, Checked, Decodes
<1>3. CASE RegisterKeys
  <2>1. /\ registry # keys /\ keys' = registry /\ kept' = None
        /\ UNCHANGED <<now, registry, datedAt, pc, token, transmitter, signingKey, again, began, span, raced, putBack>>
    BY <1>3 DEF RegisterKeys, thread, call
  <2>2. pc # "idle" => Mixed'
    BY <2>1 DEF VerdictInv, LookedUp, Mixed
  <2> QED
    BY <2>1, <2>2 DEF VerdictInv, LookedUp, KeyTrusted, Undisturbed, Checked, Decodes, WithKey
<1>4. CASE OtherDates
  <2>1. /\ datedAt' = now
        /\ UNCHANGED <<registry, keys, kept, pc, token, transmitter, signingKey, again, began, span, raced, now>>
    BY <1>4 DEF OtherDates, thread, call
  <2>2. /\ putBack' \in [Registrations -> {Undated} \cup 0 .. now] /\ \A x \in Registrations : putBack[x] <= putBack'[x]
        /\ kept \in Registrations /\ kept # keys => putBack'[kept] = now
    BY <1>4, PutsBackTyped DEF OtherDates
  <2>3. \A x \in Registrations : putBack'[x] \in Int
    BY <1>0, <2>2, Numbers
  <2>4. KeyTrusted'
    BY <1>0, <1>a, <1>b, <2>1, <2>2, <2>3 DEF VerdictInv, KeyTrusted
  <2> QED
    BY <2>1, <2>4 DEF VerdictInv, LookedUp, Undisturbed, Mixed, Checked, Decodes
<1>5. CASE OtherPops
  <2>1. /\ kept' = None /\ raced' = (raced \/ pc # "idle")
        /\ UNCHANGED <<registry, keys, datedAt, pc, token, transmitter, signingKey, again, began, span, now, putBack>>
    BY <1>5 DEF OtherPops, thread
  <2> QED
    BY <2>1 DEF VerdictInv, LookedUp, KeyTrusted, Undisturbed, Mixed, Checked, Decodes
<1>6. ASSUME NEW tok \in Tokens, Peek(tok) PROVE VerdictInv'
  <2>1. UNCHANGED <<now, registry, keys, kept, datedAt, putBack>>
    BY <1>6 DEF Peek, managers
  <2>2. CASE tok.form \in {"garbled", "typ", "no iss", "odd typ"}
    <3>1. \E how \in Verdicts : End(how)
      BY <1>6, <2>2 DEF Peek, Verdicts
    <3> QED
      BY <1>a, <2>1, <3>1, EndKeeps DEF VerdictInv, KeyTrusted
  <2>3. CASE tok.form \notin {"garbled", "typ", "no iss", "odd typ"}
    <3>1. pc = "idle" /\ pc' = "get" /\ span' = {registry, keys} /\ UNCHANGED again
      BY <1>6, <2>3 DEF Peek
    <3> QED
      BY <2>1, <3>1 DEF VerdictInv, LookedUp, KeyTrusted, Undisturbed, Checked, WithKey
  <2> QED
    BY <2>2, <2>3
<1>7. CASE GetTransmitter
  <2>1. UNCHANGED <<now, registry, keys, kept, datedAt, putBack>>
    BY <1>7 DEF GetTransmitter, managers
  <2>2. CASE End("refused")
    BY <1>a, <2>1, <2>2, EndKeeps DEF VerdictInv, KeyTrusted
  <2>3. CASE /\ pc = "get" /\ token.iss = Issuer /\ transmitter' = registry /\ pc' = "key"
             /\ UNCHANGED <<token, signingKey, again, span, began, raced>>
    BY <2>1, <2>3 DEF VerdictInv, LookedUp, KeyTrusted, Undisturbed, Checked, WithKey
  <2> QED
    BY <1>7, <2>2, <2>3 DEF GetTransmitter, Fail, call
<1>8. CASE FindUri
  <2>1. pc = "key" /\ UNCHANGED <<now, registry, keys, kept, datedAt, putBack>>
    BY <1>8 DEF FindUri, managers
  <2>2. CASE End("refused")
    BY <1>a, <2>1, <2>2, EndKeeps DEF VerdictInv, KeyTrusted
  <2>3. CASE Proceed("client", keys)
    <3>1. pc' = "client" /\ signingKey' = keys /\ UNCHANGED <<token, transmitter, again, span, began, raced>>
      BY <2>3 DEF Proceed, call
    <3> QED
      BY <2>1, <3>1 DEF VerdictInv, LookedUp, KeyTrusted, Undisturbed, Mixed, Checked, WithKey
  <2> QED
    BY <1>8, <2>2, <2>3 DEF FindUri, Fail
<1>9. CASE FindClient
  <2>1. pc = "client" /\ UNCHANGED <<now, registry, keys, kept, datedAt, putBack>>
    BY <1>9 DEF FindClient, managers
  <2>2. CASE IsFresh /\ Proceed("resolve", kept)
    <3>1. pc' = "resolve" /\ signingKey' = kept /\ UNCHANGED <<token, transmitter, again, span, began, raced>>
      BY <2>2 DEF Proceed, call
    <3>2. kept \in span \/ putBack[kept] >= began - ClientTtl
      <4>1. CASE kept = keys
        BY <2>1, <4>1 DEF VerdictInv, LookedUp
      <4>2. CASE kept # keys
        <5>1. kept \in Registrations /\ datedAt <= putBack[kept] /\ now - datedAt <= ClientTtl
          BY <1>a, <2>2, <4>2 DEF IsFresh, VerdictInv, KeyTrusted
        <5> QED
          BY <1>0, <5>1
      <4> QED
        BY <4>1, <4>2
    <3>3. again /\ ~raced /\ ~Mixed => kept \in span
      BY <2>2 DEF IsFresh, VerdictInv, Undisturbed
    <3> QED
      BY <2>1, <3>1, <3>2, <3>3 DEF VerdictInv, LookedUp, KeyTrusted, Undisturbed, Mixed, Checked, WithKey
  <2>3. CASE Proceed("create", signingKey)
    <3>1. pc' = "create" /\ UNCHANGED <<signingKey, token, transmitter, again, span, began, raced>>
      BY <2>3 DEF Proceed, call
    <3> QED
      BY <2>1, <3>1 DEF VerdictInv, LookedUp, KeyTrusted, Undisturbed, Mixed, Checked, WithKey
  <2> QED
    BY <1>9, <2>2, <2>3 DEF FindClient
<1>10. CASE MakeClient
  <2>1. /\ pc = "create" /\ pc' = "take" /\ kept' = signingKey
        /\ UNCHANGED <<now, registry, keys, datedAt, signingKey, token, transmitter, again, span, began, raced>>
    BY <1>10 DEF MakeClient, Proceed, call
  <2>2. /\ putBack' \in [Registrations -> {Undated} \cup 0 .. now] /\ \A x \in Registrations : putBack[x] <= putBack'[x]
        /\ signingKey # keys => putBack'[signingKey] = now
    BY <1>10, <1>b, <2>1, PutsBackTyped DEF MakeClient, WithKey
  <2>3. \A x \in Registrations : putBack'[x] \in Int
    BY <1>0, <2>2, Numbers
  <2>4. signingKey \in Registrations /\ signingKey \in span
    BY <1>b, <2>1 DEF VerdictInv, Undisturbed, WithKey
  <2>5. KeyTrusted'
    BY <1>0, <2>1, <2>2, <2>4 DEF VerdictInv, KeyTrusted
  <2>6. Undisturbed'
    BY <1>a, <2>1, <2>4 DEF VerdictInv, Undisturbed, Mixed
  <2> QED
    BY <2>1, <2>5, <2>6 DEF VerdictInv, LookedUp, Checked
<1>11. CASE TakeKept
  <2>1. pc = "take" /\ datedAt' = now /\ UNCHANGED <<now, registry, keys, kept>>
    BY <1>11 DEF TakeKept
  <2>2. /\ putBack' \in [Registrations -> {Undated} \cup 0 .. now] /\ \A x \in Registrations : putBack[x] <= putBack'[x]
        /\ kept \in Registrations /\ kept # keys => putBack'[kept] = now
    BY <1>11, PutsBackTyped DEF TakeKept
  <2>3. kept \notin {None, keys} => datedAt' <= putBack'[kept]
    BY <1>0, <1>a, <2>1, <2>2
  <2>4. CASE End("escaped")
    BY <1>a, <2>1, <2>3, <2>4, EndKeeps DEF VerdictInv
  <2>5. CASE kept # None /\ Proceed("resolve", kept)
    <3>1. pc' = "resolve" /\ signingKey' = kept /\ UNCHANGED <<token, transmitter, again, span, began, raced>>
      BY <2>5 DEF Proceed, call
    <3>2. kept \in span \/ putBack'[kept] >= began - ClientTtl
      BY <1>0, <1>a, <2>1, <2>2, <2>5 DEF VerdictInv, LookedUp
    <3>3. again /\ ~raced /\ ~Mixed => kept \in span
      BY <2>5 DEF VerdictInv, Undisturbed
    <3> QED
      BY <2>1, <2>3, <3>1, <3>2, <3>3 DEF VerdictInv, LookedUp, KeyTrusted, Undisturbed, Mixed, Checked, WithKey
  <2> QED
    BY <1>11, <2>4, <2>5 DEF TakeKept, Fail
<1>12. CASE ResolveKey
  <2>1. pc = "resolve" /\ UNCHANGED <<now, registry, keys, kept, datedAt, putBack>>
    BY <1>12 DEF ResolveKey, managers
  <2>2. CASE End("refused")
    BY <1>a, <2>1, <2>2, EndKeeps DEF VerdictInv, KeyTrusted
  <2>3. CASE token.signer \in {SignerOf[signingKey], Forged} /\ Proceed("decode", signingKey)
    <3>1. pc' = "decode" /\ UNCHANGED <<signingKey, token, transmitter, again, span, began, raced>>
      BY <2>3 DEF Proceed, call
    <3> QED
      BY <2>1, <2>3, <3>1 DEF VerdictInv, LookedUp, KeyTrusted, Undisturbed, Mixed, Checked, WithKey
  <2> QED
    BY <1>12, <2>2, <2>3 DEF ResolveKey, Fail
<1>13. CASE TryAgain
  <2>1. /\ pc = "resolve" /\ pc' = "key" /\ kept' = None
        /\ UNCHANGED <<now, registry, keys, datedAt, putBack, token, transmitter, signingKey, span, began, raced>>
    BY <1>13 DEF TryAgain, call
  <2> QED
    BY <2>1 DEF VerdictInv, LookedUp, KeyTrusted, Undisturbed, Mixed, Checked, WithKey
<1>14. CASE KeysUnavailable
  <2>1. UNCHANGED <<keys, kept, datedAt, putBack>> /\ End("cut off")
    BY <1>14 DEF KeysUnavailable, managers, Fail
  <2> QED
    BY <1>a, <2>1, EndKeeps DEF VerdictInv, KeyTrusted
<1>15. CASE Decode
  <2>1. pc = "decode" /\ UNCHANGED <<now, registry, keys, kept, datedAt, putBack>>
    BY <1>15 DEF Decode, managers
  <2>2. CASE End("refused")
    BY <1>a, <2>1, <2>2, EndKeeps DEF VerdictInv, KeyTrusted
  <2>3. CASE Decodes /\ Proceed("claims", signingKey)
    <3>1. pc' = "claims" /\ UNCHANGED <<signingKey, token, transmitter, again, span, began, raced>>
      BY <2>3 DEF Proceed, call
    <3>2. Decodes'
      BY <2>1, <2>3, <3>1 DEF Decodes
    <3> QED
      BY <2>1, <3>1, <3>2 DEF VerdictInv, LookedUp, KeyTrusted, Undisturbed, Mixed, Checked, WithKey
  <2> QED
    BY <1>15, <2>2, <2>3 DEF Decode, Fail
<1>16. ASSUME NEW s \in Subjects, CheckClaims(s) PROVE VerdictInv'
  <2>1. UNCHANGED <<keys, kept, datedAt, putBack>> /\ \E how \in Verdicts : End(how)
    BY <1>16 DEF CheckClaims, managers, Fail, Verdicts
  <2> QED
    BY <1>a, <2>1, EndKeeps DEF VerdictInv, KeyTrusted
<1>17. CASE Tick
  <2>1. now' = now + 1
        /\ UNCHANGED <<registry, keys, kept, datedAt, pc, token, transmitter, signingKey, again, began, span, raced, putBack>>
    BY <1>17 DEF Tick, managers, thread, call
  <2>2. Decodes => Decodes'
    BY <2>1, DecodesStays
  <2> QED
    BY <2>1, <2>2 DEF VerdictInv, LookedUp, KeyTrusted, Undisturbed, Mixed, Checked
<1>18. CASE UNCHANGED vars
  BY <1>18 DEF vars, VerdictInv, LookedUp, KeyTrusted, Undisturbed, Mixed, Checked, Decodes
<1> QED
  BY <1>1, <1>2, <1>3, <1>4, <1>5, <1>6, <1>7, <1>8, <1>9, <1>10, <1>11, <1>12, <1>13, <1>14, <1>15, <1>16, <1>17, <1>18
     DEF Next

(* It holds at first. *)
LEMMA InitVerdictInv == Init => VerdictInv
  BY DEF Init, VerdictInv, LookedUp, KeyTrusted, Undisturbed, Checked, WithKey

(* The steps by which a call may end. *)
LEMMA EndingSteps ==
  ASSUME TypeOK, [Next]_vars, Ends(Verdicts)
  PROVE  \/ GetTransmitter /\ (token.iss # Issuer \/ registry = None)
         \/ FindUri /\ keys = None
         \/ TakeKept /\ kept = None
         \/ ResolveKey /\ token.signer \notin {SignerOf[signingKey], Forged} /\ again
         \/ KeysUnavailable /\ verdict' = "cut off"
         \/ Decode /\ ~Decodes
         \/ \E s \in Subjects : CheckClaims(s)
<1> USE DEF Ends
<1>1. ASSUME UNCHANGED pc PROVE FALSE
  BY <1>1
<1>2. ASSUME NEW r \in Registrations, Register(r) \/ OtherCreates(r) PROVE FALSE
  BY <1>1, <1>2 DEF Register, OtherCreates, thread
<1>3. CASE RegisterKeys \/ OtherDates \/ OtherPops \/ Tick \/ UNCHANGED vars
  BY <1>1, <1>3 DEF RegisterKeys, OtherDates, OtherPops, Tick, thread, vars
<1>4. ASSUME NEW tok \in Tokens, Peek(tok) PROVE FALSE
  BY <1>4 DEF Peek
<1>5. CASE GetTransmitter
  BY <1>5 DEF GetTransmitter
<1>6. CASE FindUri
  BY <1>6 DEF FindUri, Proceed
<1>7. CASE FindClient \/ MakeClient \/ TryAgain
  BY <1>7 DEF FindClient, MakeClient, TryAgain, Proceed
<1>8. CASE TakeKept
  BY <1>8 DEF TakeKept, Proceed
<1>9. CASE ResolveKey
  BY <1>9 DEF ResolveKey, Proceed
<1>10. CASE KeysUnavailable
  BY <1>10 DEF KeysUnavailable, Fail, End
<1>11. CASE Decode
  BY <1>11 DEF Decode, Proceed
<1>12. ASSUME NEW s \in Subjects, CheckClaims(s) PROVE \E u \in Subjects : CheckClaims(u)
  BY <1>12
<1> QED
  BY <1>2, <1>3, <1>4, <1>5, <1>6, <1>7, <1>8, <1>9, <1>10, <1>11, <1>12 DEF Next

(* Nothing addressed only under a registration that was replaced before    *)
(* the call is accepted, and nothing signed under one whose client no      *)
(* thread has put back within the TTL, however often the issuer is         *)
(* registered anew and whatever the other threads do to the clients.       *)
THEOREM AcceptedIsInForceHolds == Spec => AcceptedIsInForce
<1>1. ASSUME TypeOK, VerdictInv, [Next]_vars, Ends({"accepted"})
      PROVE  /\ token.form = "ok" /\ token.iss = Issuer
             /\ \E r \in span \ {None} : token.aud = AudienceOf[r]
             /\ \E r \in Registrations :
                   /\ token.signer = SignerOf[r]
                   /\ r \in span \/ putBack[r] >= began - ClientTtl
             /\ began - MaxAge <= token.iat /\ token.iat <= now + Skew
  <2>1. Ends(Verdicts) /\ verdict' = "accepted"
    BY <1>1 DEF Ends, Verdicts
  <2>2. PICK s \in Subjects : CheckClaims(s)
    BY <1>1, <2>1, EndingSteps DEF GetTransmitter, FindUri, TakeKept, ResolveKey, Decode, Proceed, Fail, End
  <2>3. pc = "claims" /\ ~Stale /\ token.form = "ok"
    BY <2>1, <2>2 DEF CheckClaims, Fail, End
  <2>4. /\ token.aud = AudienceOf[transmitter] /\ transmitter \in span \ {None}
        /\ token.signer = SignerOf[signingKey] /\ signingKey \in Registrations
        /\ signingKey \in span \/ putBack[signingKey] >= began - ClientTtl
        /\ token.iss = Issuer /\ token.iat <= now + Skew
    BY <1>1, <2>3 DEF VerdictInv, LookedUp, KeyTrusted, Checked, Decodes, WithKey, TypeOK
  <2>5. began - MaxAge <= token.iat
    <3>1. now \in Int /\ began \in Int /\ began <= now /\ token.iat \in Int /\ MaxAge \in Int
      BY <1>1, Numbers, Clock DEF TypeOK
    <3>2. ~(now - token.iat > MaxAge)
      BY <2>3 DEF Stale
    <3> QED
      BY <3>1, <3>2
  <2> QED
    BY <2>3, <2>4, <2>5
<1>2. TypeOK /\ VerdictInv /\ [Next]_vars =>
        [Ends({"accepted"}) =>
           /\ token.form = "ok" /\ token.iss = Issuer
           /\ \E r \in span \ {None} : token.aud = AudienceOf[r]
           /\ \E r \in Registrations :
                 /\ token.signer = SignerOf[r]
                 /\ r \in span \/ putBack[r] >= began - ClientTtl
           /\ began - MaxAge <= token.iat /\ token.iat <= now + Skew]_vars
  BY <1>1
<1> QED
  BY <1>2, Typing, InitVerdictInv, NextVerdictInv, PTL DEF Spec, AcceptedIsInForce

(* A SET that is right under the one registration in force, and whose keys *)
(* can be had, is refused only for its age, unless another thread takes    *)
(* the client away, or puts a replaced one there, while it is verified.    *)
THEOREM RefusedForCauseHolds == Spec => RefusedForCause
<1> DEFINE Cause ==
        \/ token.form # "ok" \/ token.iss # Issuer
        \/ raced
        \/ None \in span \/ \E r, s \in span : r # s
        \/ \E r \in span : token.signer # SignerOf[r] \/ token.aud # AudienceOf[r]
        \/ token.iat < now - MaxAge \/ token.iat > began + Skew
<1>1. ASSUME TypeOK, VerdictInv, [Next]_vars, Ends({"refused", "escaped"}) PROVE Cause
  <2>1. Ends(Verdicts) /\ verdict' \in {"refused", "escaped"} /\ pc # "idle"
    BY <1>1 DEF Ends, Verdicts
  <2>2. {registry, keys} \subseteq span /\ span \subseteq Registrations \cup {None}
    BY <1>1, <2>1 DEF VerdictInv, LookedUp, TypeOK
  <2>3. CASE GetTransmitter /\ (token.iss # Issuer \/ registry = None)
    BY <2>2, <2>3
  <2>4. CASE FindUri /\ keys = None
    BY <2>2, <2>4
  <2>5. CASE TakeKept /\ kept = None
    BY <1>1, <2>5 DEF TakeKept, VerdictInv, Undisturbed, Mixed
  <2>6. CASE ResolveKey /\ token.signer \notin {SignerOf[signingKey], Forged} /\ again
    <3>1. pc = "resolve"
      BY <2>6 DEF ResolveKey
    <3>2. ~raced /\ ~Mixed => signingKey \in span
      BY <1>1, <2>6, <3>1 DEF VerdictInv, Undisturbed, WithKey
    <3> QED
      BY <2>6, <3>2 DEF Mixed
  <2>7. CASE Decode /\ ~Decodes
    <3>1. \/ token.form = "no jti" \/ token.signer # SignerOf[signingKey] \/ token.aud # AudienceOf[transmitter]
          \/ token.iat > began + Skew
      BY <1>1, <2>7, DecodesNot
    <3>2. pc = "decode"
      BY <2>7 DEF Decode
    <3>3. transmitter \in span /\ token.signer \in {SignerOf[signingKey], Forged}
      BY <1>1, <3>2 DEF VerdictInv, LookedUp, Checked
    <3>4. CASE token.signer = Forged
      <4>1. transmitter = None \/ token.signer # SignerOf[transmitter]
        BY <2>2, <3>3, <3>4, SetVerifierAssumption
      <4> QED
        BY <3>3, <4>1
    <3>5. CASE token.signer = SignerOf[signingKey]
      BY <3>1, <3>3, <3>5
    <3> QED
      BY <3>3, <3>4, <3>5
  <2>8. ASSUME NEW s \in Subjects, CheckClaims(s) PROVE Cause
    <3>1. Stale \/ token.form # "ok"
      BY <2>1, <2>8 DEF CheckClaims, End
    <3>2. Stale => token.iat < now - MaxAge
      <4>1. now \in Int /\ token.iat \in Int /\ MaxAge \in Int
        BY <1>1, Numbers, Clock DEF TypeOK
      <4>2. now - token.iat > MaxAge => token.iat < now - MaxAge
        BY <4>1
      <4> QED
        BY <4>2 DEF Stale
    <3> QED
      BY <3>1, <3>2
  <2>9. CASE verdict' = "cut off"
    BY <2>1, <2>9
  <2> HIDE DEF Cause
  <2> QED
    BY <1>1, <2>1, <2>3, <2>4, <2>5, <2>6, <2>7, <2>8, <2>9, EndingSteps
<1>2. TypeOK /\ VerdictInv /\ [Next]_vars => [Ends({"refused", "escaped"}) => Cause]_vars
  BY <1>1
<1> QED
  BY <1>2, Typing, InitVerdictInv, NextVerdictInv, PTL DEF Spec, RefusedForCause

-----------------------------------------------------------------------------
(* Whom a key stands for: SubjectKey.                                      *)

(* The subjects where the nesting that starts in a subject ends: those in  *)
(* every set that holds it and is closed under the user that is nested.    *)
Bases(s) ==
    {b \in Subjects :
        /\ ~Nests(b)
        /\ \A T \in SUBSET Subjects : s \in T /\ (\A x \in T : Nests(x) => x.user.members \in T) => b \in T}

(* A nested user does not change where it ends ... *)
LEMMA BasesOfNested ==
  ASSUME NEW s \in Subjects, Nests(s)
  PROVE  Bases(s) = Bases(s.user.members)
<1> s.user.members \in Subjects
  BY SubjectAssumption
<1>1. ASSUME NEW b \in Bases(s) PROVE b \in Bases(s.user.members)
  <2>1. ASSUME NEW T \in SUBSET Subjects, s.user.members \in T, \A x \in T : Nests(x) => x.user.members \in T
        PROVE  b \in T
    <3>1. T \cup {s} \in SUBSET Subjects /\ \A x \in T \cup {s} : Nests(x) => x.user.members \in T \cup {s}
      BY <2>1
    <3>2. b \in T \cup {s}
      BY <3>1 DEF Bases
    <3> QED
      BY <3>2 DEF Bases
  <2> QED
    BY <2>1 DEF Bases
<1>2. ASSUME NEW b \in Bases(s.user.members) PROVE b \in Bases(s)
  BY DEF Bases
<1> QED
  BY <1>1, <1>2

(* ... and with none it has ended. *)
LEMMA BasesOfBase ==
  ASSUME NEW s \in Subjects, ~Nests(s)
  PROVE  Bases(s) = {s}
<1>1. {s} \in SUBSET Subjects /\ \A x \in {s} : Nests(x) => x.user \in {s}
  OBVIOUS
<1>2. \A b \in Bases(s) : b = s
  BY <1>1 DEF Bases
<1>3. s \in Bases(s)
  BY DEF Bases
<1> QED
  BY <1>2, <1>3

(* So a function that descends to the nested user exists, as the recursive *)
(* definitions of CorrelationKey and Person assume.                        *)
LEMMA Descent ==
  ASSUME NEW own
  PROVE  \E f : f = [s \in Subjects |-> IF Nests(s) THEN f[s.user.members] ELSE own[s]]
<1> DEFINE f == [s \in Subjects |-> own[CHOOSE b : b \in Bases(s)]]
<1>1. ASSUME NEW s \in Subjects PROVE f[s] = IF Nests(s) THEN f[s.user.members] ELSE own[s]
  <2>1. CASE Nests(s)
    BY <2>1, BasesOfNested, SubjectAssumption
  <2>2. CASE ~Nests(s)
    BY <2>2, BasesOfBase
  <2> QED
    BY <2>1, <2>2
<1>2. f = [s \in Subjects |-> f[s]]
  OBVIOUS
<1> HIDE DEF f
<1> QED
  BY <1>1, <1>2

(* And both are what their definitions say. *)
LEMMA KeyEquation ==
  ASSUME NEW s \in Subjects
  PROVE  CorrelationKey[s] = IF Nests(s) THEN CorrelationKey[s.user.members] ELSE OwnKey(s)
<1>1. PICK own : own = [x \in Subjects |-> OwnKey(x)]
  OBVIOUS
<1>2. PICK f : f = [x \in Subjects |-> IF Nests(x) THEN f[x.user.members] ELSE own[x]]
  BY Descent
<1>3. f = [x \in Subjects |-> IF Nests(x) THEN f[x.user.members] ELSE OwnKey(x)]
  BY <1>1, <1>2
<1>4. CorrelationKey = [x \in Subjects |-> IF Nests(x) THEN CorrelationKey[x.user.members] ELSE OwnKey(x)]
  BY <1>3, Zenon DEF CorrelationKey
<1> QED
  BY <1>4

LEMMA PersonEquation ==
  ASSUME NEW s \in Subjects
  PROVE  Person[s] = IF Nests(s) THEN Person[s.user.members] ELSE Self(s)
<1>1. PICK own : own = [x \in Subjects |-> Self(x)]
  OBVIOUS
<1>2. PICK f : f = [x \in Subjects |-> IF Nests(x) THEN f[x.user.members] ELSE own[x]]
  BY Descent
<1>3. f = [x \in Subjects |-> IF Nests(x) THEN f[x.user.members] ELSE Self(x)]
  BY <1>1, <1>2
<1>4. Person = [x \in Subjects |-> IF Nests(x) THEN Person[x.user.members] ELSE Self(x)]
  BY <1>3, Zenon DEF Person
<1> QED
  BY <1>4

(* Every subject ends in one in which none is nested, and that one says    *)
(* who it is, and under which key: of the subjects for which none does,    *)
(* one would have a user that is not of them.                              *)
LEMMA EveryoneHasBase ==
  ASSUME NEW s \in Subjects
  PROVE  \E b \in Subjects : ~Nests(b) /\ CorrelationKey[s] = OwnKey(b) /\ Person[s] = Self(b)
<1> DEFINE Says(x) == \E b \in Subjects : ~Nests(b) /\ CorrelationKey[x] = OwnKey(b) /\ Person[x] = Self(b)
<1> DEFINE Bad == {x \in Subjects : ~Says(x)}
<1>1. ASSUME NEW x \in Subjects, ~Nests(x) PROVE Says(x)
  BY <1>1, KeyEquation, PersonEquation
<1>2. ASSUME NEW x \in Subjects, Nests(x), Says(x.user.members) PROVE Says(x)
  <2>1. CorrelationKey[x] = CorrelationKey[x.user.members] /\ Person[x] = Person[x.user.members]
    BY <1>2, KeyEquation, PersonEquation
  <2> QED
    BY <1>2, <2>1
<1>3. Bad \in SUBSET {x \in Subjects : Nests(x)}
  BY <1>1
<1>4. Bad # {} => \E x \in Bad : x.user.members \notin Bad
  <2> HIDE DEF Bad
  <2> QED
    BY <1>3, SubjectAssumption
<1>5. ASSUME NEW x \in Bad, x.user.members \notin Bad PROVE FALSE
  <2>1. Nests(x)
    BY <1>1
  <2>2. x.user.members \in Subjects
    BY <2>1, SubjectAssumption
  <2>3. Says(x.user.members)
    BY <1>5, <2>2
  <2> HIDE DEF Says
  <2> QED
    BY <1>2, <2>1, <2>3
<1> QED
  BY <1>4, <1>5

(* The sequences that keys are made of. *)
LEMMA Headed ==
  ASSUME NEW S, NEW t \in Seq(S), NEW h, NEW c
  PROVE  /\ Len(<<h, c>> \o t) = Len(t) + 2
         /\ (<<h, c>> \o t)[1] = h /\ (<<h, c>> \o t)[2] = c
         /\ \A i \in 1 .. Len(t) : (<<h, c>> \o t)[i + 2] = t[i]
<1>1. <<h, c>> \in Seq(S \cup {h, c}) /\ t \in Seq(S \cup {h, c}) /\ Len(<<h, c>>) = 2 /\ <<h, c>>[1] = h /\ <<h, c>>[2] = c
  OBVIOUS
<1> QED
  BY <1>1

(* What follows the head is read back. *)
LEMMA SameTail ==
  ASSUME NEW S, NEW t \in Seq(S), NEW u \in Seq(S), NEW h, NEW c, <<h, c>> \o t = <<h, c>> \o u
  PROVE  t = u
<1>1. Len(t) = Len(u)
  BY Headed
<1>2. ASSUME NEW i \in 1 .. Len(t) PROVE t[i] = u[i]
  BY <1>1, Headed
<1> QED
  BY <1>1, <1>2, SeqEqual

(* One sequence after another. *)
LEMMA Appended ==
  ASSUME NEW R, NEW n \in Seq(R), NEW y \in Seq(R)
  PROVE  /\ n \o y \in Seq(R) /\ Len(n \o y) = Len(n) + Len(y)
         /\ \A i \in 1 .. Len(n) : (n \o y)[i] = n[i]
         /\ \A i \in 1 .. Len(y) : (n \o y)[Len(n) + i] = y[i]
<1>1. Len(n) \in Nat /\ Len(y) \in Nat
  OBVIOUS
<1>2. /\ n \o y \in Seq(R) /\ Len(n \o y) = Len(n) + Len(y)
      /\ \A i \in 1 .. Len(n) + Len(y) : (n \o y)[i] = IF i <= Len(n) THEN n[i] ELSE y[i - Len(n)]
  BY ConcatProperties
<1>3. ASSUME NEW i \in 1 .. Len(n) PROVE (n \o y)[i] = n[i]
  <2>1. i \in 1 .. Len(n) + Len(y) /\ i <= Len(n)
    BY <1>1
  <2> QED
    BY <1>2, <2>1
<1>4. ASSUME NEW i \in 1 .. Len(y) PROVE (n \o y)[Len(n) + i] = y[i]
  <2>1. Len(n) + i \in 1 .. Len(n) + Len(y) /\ ~(Len(n) + i <= Len(n)) /\ (Len(n) + i) - Len(n) = i
    BY <1>1
  <2> QED
    BY <1>2, <2>1
<1> QED
  BY <1>2, <1>3, <1>4

(* Where the parts of an iss_sub key are. *)
LEMMA Joined ==
  ASSUME NEW S, NEW x \in Seq(S), NEW y \in Seq(S), NEW h, NEW c, NEW d, NEW k, k = <<h, c>> \o x \o <<d>> \o y
  PROVE  /\ Len(k) = Len(x) + Len(y) + 3
         /\ k[1] = h /\ k[2] = c /\ k[Len(x) + 3] = d
         /\ \A i \in 1 .. Len(x) : k[i + 2] = x[i]
         /\ \A i \in 1 .. Len(y) : k[Len(x) + 3 + i] = y[i]
<1> DEFINE R == S \cup {h, c, d}
           m == <<h, c>> \o x
           n == m \o <<d>>
<1>1. x \in Seq(R) /\ y \in Seq(R) /\ <<h, c>> \in Seq(R) /\ <<d>> \in Seq(R) /\ Len(<<d>>) = 1 /\ <<d>>[1] = d
  OBVIOUS
<1>2. Len(x) \in Nat /\ Len(y) \in Nat
  OBVIOUS
<1>3. m \in Seq(R) /\ Len(m) = Len(x) + 2 /\ m[1] = h /\ m[2] = c /\ \A i \in 1 .. Len(x) : m[i + 2] = x[i]
  BY <1>1, Headed, Appended
<1> HIDE DEF m, R
<1>4. /\ n \in Seq(R) /\ Len(n) = Len(x) + 3 /\ n[Len(x) + 3] = d
      /\ \A i \in 1 .. Len(x) + 2 : n[i] = m[i]
  <2>1. /\ n \in Seq(R) /\ Len(n) = Len(m) + Len(<<d>>)
        /\ \A i \in 1 .. Len(m) : n[i] = m[i]
        /\ \A i \in 1 .. Len(<<d>>) : n[Len(m) + i] = <<d>>[i]
    BY <1>1, <1>3, Appended
  <2>2. 1 \in 1 .. Len(<<d>>) /\ Len(m) + 1 = Len(x) + 3
    BY <1>1, <1>2, <1>3
  <2> HIDE DEF n
  <2>3. n[Len(m) + 1] = d
    BY <1>1, <2>1, <2>2
  <2> QED
    BY <1>1, <1>2, <1>3, <2>1, <2>2, <2>3
<1>5. k = n \o y
  BY DEF n, m
<1> HIDE DEF n
<1>6. /\ Len(k) = Len(n) + Len(y)
      /\ \A i \in 1 .. Len(n) : k[i] = n[i]
      /\ \A i \in 1 .. Len(y) : k[Len(n) + i] = y[i]
  BY <1>1, <1>4, <1>5, Appended
<1>7. /\ 1 \in 1 .. Len(n) /\ 2 \in 1 .. Len(n) /\ Len(x) + 3 \in 1 .. Len(n)
      /\ 1 \in 1 .. Len(x) + 2 /\ 2 \in 1 .. Len(x) + 2
      /\ \A i \in 1 .. Len(x) : i + 2 \in 1 .. Len(n) /\ i + 2 \in 1 .. Len(x) + 2
      /\ Len(n) + Len(y) = Len(x) + Len(y) + 3
  BY <1>2, <1>4
<1> QED
  BY <1>3, <1>4, <1>6, <1>7

IssSubKey(iss, sub) == <<"iss_sub", ":">> \o iss \o <<"|">> \o sub

Plain(v) == \A i \in 1 .. Len(v) : v[i] # "|"

(* An issuer and a subject without the delimiter are read back, whatever   *)
(* the other pair contains.                                                *)
LEMMA ReadBack ==
  ASSUME NEW x \in Seq(DOMAIN Lower), NEW y \in Seq(DOMAIN Lower), NEW v \in Seq(DOMAIN Lower), NEW w \in Seq(DOMAIN Lower),
         IssSubKey(x, y) = IssSubKey(v, w), Plain(v), Plain(w)
  PROVE  x = v /\ y = w
<1>0. PICK k, h, c, d : /\ h = "iss_sub" /\ c = ":" /\ d = "|"
                        /\ k = <<h, c>> \o x \o <<d>> \o y /\ k = <<h, c>> \o v \o <<d>> \o w
  BY DEF IssSubKey
<1>1. /\ Len(x) \in Nat /\ Len(y) \in Nat /\ Len(v) \in Nat /\ Len(w) \in Nat
  OBVIOUS
<1>2. /\ Len(k) = Len(x) + Len(y) + 3 /\ k[Len(x) + 3] = "|"
      /\ \A i \in 1 .. Len(x) : k[i + 2] = x[i]
      /\ \A i \in 1 .. Len(y) : k[Len(x) + 3 + i] = y[i]
  BY <1>0, Joined
<1>3. /\ Len(k) = Len(v) + Len(w) + 3
      /\ \A i \in 1 .. Len(v) : k[i + 2] = v[i]
      /\ \A i \in 1 .. Len(w) : k[Len(v) + 3 + i] = w[i]
  <2>1. k = <<h, c>> \o v \o <<d>> \o w
    BY <1>0
  <2> QED
    BY <2>1, Joined
<1>4. Len(x) = Len(v)
  <2>1. CASE Len(x) < Len(v)
    <3>1. Len(x) + 1 \in 1 .. Len(v) /\ k[(Len(x) + 1) + 2] = "|"
      BY <1>1, <1>2, <2>1
    <3> QED
      BY <1>3, <3>1 DEF Plain
  <2>2. CASE Len(x) > Len(v)
    <3>1. Len(x) - Len(v) \in 1 .. Len(w) /\ k[Len(v) + 3 + (Len(x) - Len(v))] = "|"
      BY <1>1, <1>2, <1>3, <2>2
    <3> QED
      BY <1>3, <3>1 DEF Plain
  <2> QED
    BY <1>1, <2>1, <2>2
<1>5. Len(y) = Len(w)
  BY <1>1, <1>2, <1>3, <1>4
<1>6. \A i \in 1 .. Len(x) : x[i] = v[i]
  BY <1>2, <1>3, <1>4
<1>7. \A i \in 1 .. Len(y) : y[i] = w[i]
  BY <1>2, <1>3, <1>4, <1>5
<1> QED
  BY <1>4, <1>5, <1>6, <1>7, SeqEqual

(* What subjects are made of. *)
LEMMA Values ==
  ASSUME NEW s \in Subjects
  PROVE  /\ s = [name \in DOMAIN s |-> s[name]] /\ "format" \in DOMAIN s /\ s.format \in Seq(DOMAIN Lower)
         /\ \A name : name # "format" => Text(s, name) \in Seq(DOMAIN Lower)
<1>1. ASSUME NEW name, name # "format" PROVE Text(s, name) \in Seq(DOMAIN Lower)
  <2>1. CASE name \in DOMAIN s
    BY <1>1, <2>1, SubjectAssumption DEF Text
  <2>2. CASE name \notin DOMAIN s
    BY <2>2 DEF Text
  <2> QED
    BY <2>1, <2>2
<1> QED
  BY <1>1, SubjectAssumption

LowerWords == {Lower[c] : c \in DOMAIN Lower}

(* Lowering the case keeps the length. *)
LEMMA LowerTyped ==
  ASSUME NEW v \in Seq(DOMAIN Lower)
  PROVE  LowerCase(v) \in Seq(LowerWords) /\ Len(LowerCase(v)) = Len(v)
<1>1. DOMAIN v = 1 .. Len(v) /\ Len(v) \in Nat /\ \A i \in 1 .. Len(v) : v[i] \in DOMAIN Lower
  BY ElementOfSeq, LenProperties
<1>2. LowerCase(v) \in [1 .. Len(v) -> LowerWords]
  BY <1>1 DEF LowerCase, LowerWords
<1> QED
  BY <1>1, <1>2

(* The formats that have members of their own, and those that have not.    *)
LEMMA Formats ==
  ASSUME NEW s
  PROVE  /\ s.format = <<"email">> => Named(s) = {"email"}
         /\ s.format = <<"phone_number">> => Named(s) = {"phone_number"}
         /\ s.format = <<"opaque">> => Named(s) = {"id"}
         /\ s.format = <<"iss_sub">> => Named(s) = {"iss", "sub"}
         /\ s.format \notin {<<"email">>, <<"phone_number">>, <<"opaque">>, <<"iss_sub">>} <=> Named(s) = {}
         /\ HasUser(s) => Named(s) = {}
<1>1. /\ <<"email">> # <<"phone_number">> /\ <<"email">> # <<"opaque">> /\ <<"email">> # <<"iss_sub">>
      /\ <<"phone_number">> # <<"opaque">> /\ <<"phone_number">> # <<"iss_sub">> /\ <<"opaque">> # <<"iss_sub">>
      /\ <<"complex">> \notin {<<"email">>, <<"phone_number">>, <<"opaque">>, <<"iss_sub">>}
  OBVIOUS
<1>2. CASE s.format = <<"email">>
  BY <1>1, <1>2 DEF Named, HasUser
<1>3. CASE s.format = <<"phone_number">>
  BY <1>1, <1>3 DEF Named, HasUser
<1>4. CASE s.format = <<"opaque">>
  BY <1>1, <1>4 DEF Named, HasUser
<1>5. CASE s.format = <<"iss_sub">>
  BY <1>1, <1>5 DEF Named, HasUser
<1>6. CASE s.format \notin {<<"email">>, <<"phone_number">>, <<"opaque">>, <<"iss_sub">>}
  BY <1>1, <1>6 DEF Named
<1> QED
  BY <1>1, <1>2, <1>3, <1>4, <1>5, <1>6

(* The keys by format, and what they begin with. *)
LEMMA KeyOfEmail ==
  ASSUME NEW s \in Subjects, s.format = <<"email">>, OwnKey(s) # Invalid
  PROVE  /\ OwnKey(s) = <<"email", ":">> \o LowerCase(Text(s, "email"))
         /\ OwnKey(s)[1] = "email" /\ OwnKey(s)[2] = ":"
<1>1. OwnKey(s) = <<"email", ":">> \o LowerCase(Text(s, "email"))
  BY Formats DEF OwnKey, HasUser
<1> QED
  BY <1>1, Values, LowerTyped, Headed

LEMMA KeyOfPhone ==
  ASSUME NEW s \in Subjects, s.format = <<"phone_number">>
  PROVE  /\ OwnKey(s) = <<"phone", ":">> \o Text(s, "phone_number")
         /\ OwnKey(s)[1] = "phone" /\ OwnKey(s)[2] = ":"
<1>1. OwnKey(s) = <<"phone", ":">> \o Text(s, "phone_number")
  BY DEF OwnKey, HasUser
<1> QED
  BY <1>1, Values, Headed

LEMMA KeyOfOpaque ==
  ASSUME NEW s \in Subjects, s.format = <<"opaque">>
  PROVE  /\ OwnKey(s) = <<"opaque", ":">> \o Text(s, "id")
         /\ OwnKey(s)[1] = "opaque" /\ OwnKey(s)[2] = ":"
<1>1. OwnKey(s) = <<"opaque", ":">> \o Text(s, "id")
  BY DEF OwnKey, HasUser
<1> QED
  BY <1>1, Values, Headed

LEMMA KeyOfIssSub ==
  ASSUME NEW s \in Subjects, s.format = <<"iss_sub">>
  PROVE  /\ OwnKey(s) = IssSubKey(Text(s, "iss"), Text(s, "sub"))
         /\ OwnKey(s)[1] = "iss_sub" /\ OwnKey(s)[2] = ":"
<1>1. OwnKey(s) = <<"iss_sub", ":">> \o Text(s, "iss") \o <<"|">> \o Text(s, "sub")
  BY DEF OwnKey, HasUser
<1> QED
  BY <1>1, Values, Joined DEF IssSubKey

LEMMA KeyOfOther ==
  ASSUME NEW s \in Subjects, Named(s) = {}, OwnKey(s) # Invalid, ~Nests(s)
  PROVE  /\ OwnKey(s) = s.format \o <<":", Encoding(s)>>
         /\ Len(OwnKey(s)) = Len(s.format) + 2
         /\ OwnKey(s)[Len(s.format) + 2] = Encoding(s)
         /\ \A i \in 1 .. Len(s.format) : OwnKey(s)[i] = s.format[i]
         /\ s.format = <<>> => OwnKey(s)[1] = ":"
         /\ s.format # <<>> => OwnKey(s)[2] = (s.format \o <<":">>)[2]
<1>1. ~HasUser(s)
  BY Formats DEF OwnKey
<1>2. OwnKey(s) = s.format \o <<":", Encoding(s)>>
  BY <1>1, Formats DEF OwnKey
<1> DEFINE R == DOMAIN Lower \cup {":", Encoding(s)}
           tail == <<":", Encoding(s)>>
<1>3. /\ s.format \in Seq(R) /\ tail \in Seq(R) /\ <<":">> \in Seq(R) /\ Len(tail) = 2 /\ tail[1] = ":" /\ tail[2] = Encoding(s)
      /\ Len(<<":">>) = 1 /\ <<":">>[1] = ":" /\ Len(s.format) \in Nat
  BY Values
<1>4. OwnKey(s) = s.format \o tail
  BY <1>2
<1> HIDE DEF R, tail
<1>5. /\ Len(OwnKey(s)) = Len(s.format) + 2
      /\ \A i \in 1 .. Len(s.format) : OwnKey(s)[i] = s.format[i]
      /\ \A i \in 1 .. 2 : OwnKey(s)[Len(s.format) + i] = tail[i]
  <2>1. /\ Len(s.format \o tail) = Len(s.format) + Len(tail)
        /\ \A i \in 1 .. Len(s.format) : (s.format \o tail)[i] = s.format[i]
        /\ \A i \in 1 .. Len(tail) : (s.format \o tail)[Len(s.format) + i] = tail[i]
    <3>1. s.format \in Seq(R) /\ tail \in Seq(R)
      BY <1>3
    <3> QED
      BY <3>1, Appended
  <2> QED
    BY <1>3, <1>4, <2>1
<1>6. /\ OwnKey(s)[Len(s.format) + 2] = Encoding(s)
      /\ OwnKey(s)[Len(s.format) + 1] = ":"
  BY <1>3, <1>5
<1>7. s.format = <<>> => OwnKey(s)[1] = ":"
  BY <1>6
<1>8. ASSUME s.format # <<>> PROVE OwnKey(s)[2] = (s.format \o <<":">>)[2]
  <2>1. Len(s.format) >= 1
    BY <1>3, <1>8, EmptySeq
  <2>2. /\ \A i \in 1 .. Len(s.format) : (s.format \o <<":">>)[i] = s.format[i]
        /\ \A i \in 1 .. 1 : (s.format \o <<":">>)[Len(s.format) + i] = <<":">>[i]
    BY <1>3, Appended
  <2>3. CASE Len(s.format) = 1
    BY <1>3, <1>6, <2>2, <2>3
  <2>4. CASE Len(s.format) >= 2
    BY <1>3, <1>5, <2>2, <2>4
  <2> QED
    BY <1>3, <2>1, <2>3, <2>4
<1> QED
  BY <1>2, <1>5, <1>6, <1>7, <1>8

(* Whom a subject stands for has its format. *)
LEMMA SelfFormat ==
  ASSUME NEW s \in Subjects
  PROVE  Self(s).format = s.format /\ Named(Self(s)) = Named(s)
<1>1. Self(s).format = s.format
  BY DEF Self
<1> QED
  BY <1>1 DEF Named

(* In one that is not odd the members of the key are strings, and its      *)
(* format is not the head of another's keys.                               *)
LEMMA NotOdd ==
  ASSUME NEW s \in Subjects, ~Odd(Self(s))
  PROVE  /\ \A name \in Named(s) : IsString(s, name)
         /\ Named(s) = {} /\ s.format # <<>> /\ s.format[1] \in {"email", "phone", "iss_sub", "opaque"}
               => (s.format \o <<":">>)[2] # ":"
<1>1. ASSUME NEW name \in Named(s) PROVE IsString(s, name)
  <2>1. IsString(Self(s), name)
    BY SelfFormat DEF Odd
  <2>2. CASE Named(s) \subseteq DOMAIN s
    <3>1. name \in DOMAIN Self(s) /\ Self(s)[name].type = s[name].type
      BY <2>2, Formats DEF Self
    <3> QED
      BY <2>1, <3>1 DEF IsString
  <2>3. CASE ~(Named(s) \subseteq DOMAIN s)
    BY <2>1, <2>3 DEF Self
  <2> QED
    BY <2>2, <2>3
<1>2. Named(s) = {} => Self(s) = s
  BY DEF Self
<1> QED
  BY <1>1, <1>2 DEF Odd

(* Of a subject whose key members are there only those count. *)
LEMMA SameSelf ==
  ASSUME NEW a \in Subjects, NEW b \in Subjects, a.format = b.format, Named(a) # {},
         Named(a) \subseteq DOMAIN a, Named(a) \subseteq DOMAIN b,
         \A name \in Named(a) : /\ a[name].type = b[name].type
                                /\ IF name = "email" THEN LowerCase(a[name].text) = LowerCase(b[name].text)
                                                     ELSE a[name].text = b[name].text
  PROVE  Self(a) = Self(b)
<1>1. Named(b) = Named(a)
  BY DEF Named
<1> DEFINE Value(s, name) == CASE name = "format" -> s.format
                               [] name = "email" -> [type |-> s.email.type, text |-> LowerCase(s.email.text)]
                               [] OTHER -> [type |-> s[name].type, text |-> s[name].text]
           Names == {"format"} \cup Named(a)
<1>2. Self(a) = [name \in Names |-> Value(a, name)] /\ Self(b) = [name \in Names |-> Value(b, name)]
  BY <1>1 DEF Self
<1>3. ASSUME NEW name \in Names PROVE Value(a, name) = Value(b, name)
  <2>1. CASE name = "format"
    BY <2>1
  <2>2. CASE name = "email" /\ name \in Named(a)
    BY <2>2
  <2>3. CASE name \notin {"format", "email"} /\ name \in Named(a)
    BY <2>3
  <2> QED
    BY <2>1, <2>2, <2>3
<1> HIDE DEF Value, Names
<1> QED
  BY <1>2, <1>3

(* With a member missing or empty, the subject is vague. *)
LEMMA VagueSelf ==
  ASSUME NEW s \in Subjects, NEW name \in Named(s), Text(s, name) = <<>>
  PROVE  Vague(Self(s))
<1>1. CASE Named(s) \subseteq DOMAIN s
  <2>1. s[name].text = <<>> /\ LowerCase(s[name].text) = <<>> /\ name # "format"
    BY <1>1, Formats DEF Text, LowerCase
  <2>2. name \in DOMAIN Self(s) /\ Self(s)[name].text = <<>>
    BY <1>1, <2>1 DEF Self
  <2> QED
    BY <2>2, SelfFormat DEF Vague, Text
<1>2. CASE ~(Named(s) \subseteq DOMAIN s)
  <2>1. Self(s) = s
    BY <1>2 DEF Self
  <2> QED
    BY <2>1 DEF Vague
<1> QED
  BY <1>1, <1>2

(* A member that is not empty is there. *)
LEMMA OneMember ==
  ASSUME NEW a \in Subjects, NEW b \in Subjects, a.format = b.format, NEW name, Named(a) = {name},
         IsString(a, name), IsString(b, name),
         Text(a, name) = <<>> <=> Text(b, name) = <<>>,
         IF name = "email" THEN LowerCase(Text(a, name)) = LowerCase(Text(b, name)) ELSE Text(a, name) = Text(b, name)
  PROVE  Self(a) = Self(b) \/ (Vague(Self(a)) /\ Vague(Self(b)))
<1>0. Named(b) = {name}
  BY DEF Named
<1>1. CASE Text(a, name) = <<>>
  BY <1>0, <1>1, VagueSelf
<1>2. CASE Text(a, name) # <<>>
  <2>1. name \in DOMAIN a /\ name \in DOMAIN b /\ Text(a, name) = a[name].text /\ Text(b, name) = b[name].text
    BY <1>2 DEF Text
  <2>2. a[name].type = "string" /\ b[name].type = "string"
    BY <2>1 DEF IsString
  <2> QED
    BY <2>1, <2>2, SameSelf
<1> QED
  BY <1>1, <1>2

Clear(s) ==
    \A name \in {"iss", "sub"} :
        Text(s, name) # <<>> /\ \A i \in DOMAIN Text(s, name) : Text(s, name)[i] # "|"

(* An iss_sub subject that is not clear is vague. *)
LEMMA UnclearIsVague ==
  ASSUME NEW s \in Subjects, s.format = <<"iss_sub">>, ~Clear(s)
  PROVE  Vague(Self(s))
<1>1. PICK name \in {"iss", "sub"} :
        Text(s, name) = <<>> \/ \E i \in DOMAIN Text(s, name) : Text(s, name)[i] = "|"
  BY DEF Clear
<1>2. Named(s) = {"iss", "sub"}
  BY Formats
<1>3. CASE Text(s, name) = <<>>
  BY <1>1, <1>2, <1>3, VagueSelf
<1>4. CASE Text(s, name) # <<>> /\ \E i \in DOMAIN Text(s, name) : Text(s, name)[i] = "|"
  <2>1. name \in DOMAIN s /\ Text(s, name) = s[name].text /\ name # "email" /\ name # "format"
    BY <1>1, <1>4 DEF Text
  <2>2. Text(Self(s), name) = Text(s, name)
    BY <1>1, <1>2, <2>1 DEF Self, Text
  <2> QED
    BY <1>1, <1>4, <2>2, SelfFormat DEF Vague
<1> QED
  BY <1>1, <1>3, <1>4

(* One that is clear is told from all others. *)
LEMMA ClearIssSub ==
  ASSUME NEW a \in Subjects, NEW b \in Subjects, a.format = <<"iss_sub">>, b.format = <<"iss_sub">>,
         OwnKey(a) = OwnKey(b), Clear(b),
         \A name \in {"iss", "sub"} : IsString(a, name) /\ IsString(b, name)
  PROVE  Self(a) = Self(b)
<1>1. /\ Text(a, "iss") \in Seq(DOMAIN Lower) /\ Text(a, "sub") \in Seq(DOMAIN Lower)
      /\ Text(b, "iss") \in Seq(DOMAIN Lower) /\ Text(b, "sub") \in Seq(DOMAIN Lower)
  BY Values
<1>2. IssSubKey(Text(a, "iss"), Text(a, "sub")) = IssSubKey(Text(b, "iss"), Text(b, "sub"))
  BY KeyOfIssSub
<1>3. /\ \A i \in 1 .. Len(Text(b, "iss")) : Text(b, "iss")[i] # "|"
      /\ \A i \in 1 .. Len(Text(b, "sub")) : Text(b, "sub")[i] # "|"
      /\ Text(b, "iss") # <<>> /\ Text(b, "sub") # <<>>
  BY <1>1, LenProperties DEF Clear
<1>4. Text(a, "iss") = Text(b, "iss") /\ Text(a, "sub") = Text(b, "sub")
  <2>1. Plain(Text(b, "iss")) /\ Plain(Text(b, "sub"))
    BY <1>3 DEF Plain
  <2> QED
    BY <1>1, <1>2, <2>1, ReadBack
<1>5. \A name \in {"iss", "sub"} :
        name \in DOMAIN a /\ name \in DOMAIN b /\ a[name].text = b[name].text /\ name # "email"
  BY <1>3, <1>4 DEF Text
<1>6. \A name \in {"iss", "sub"} : a[name].type = "string" /\ b[name].type = "string"
  BY <1>5 DEF IsString
<1>7. Named(a) = {"iss", "sub"}
  BY Formats
<1> QED
  BY <1>5, <1>6, <1>7, SameSelf

(* Subjects of formats that have no members of their own are told apart.   *)
LEMMA OthersTold ==
  ASSUME NEW a \in Subjects, NEW b \in Subjects, ~Nests(a), ~Nests(b), OwnKey(a) = OwnKey(b), OwnKey(a) # Invalid,
         Named(a) = {}, Named(b) = {}
  PROVE  a = b
<1>1. /\ Len(a.format) + 2 = Len(b.format) + 2
      /\ OwnKey(a)[Len(a.format) + 2] = Encoding(a) /\ OwnKey(b)[Len(b.format) + 2] = Encoding(b)
      /\ \A i \in 1 .. Len(a.format) : OwnKey(a)[i] = a.format[i]
      /\ \A i \in 1 .. Len(b.format) : OwnKey(b)[i] = b.format[i]
  BY KeyOfOther
<1>2. a.format \in Seq(DOMAIN Lower) /\ b.format \in Seq(DOMAIN Lower)
  BY Values
<1>3. Len(a.format) = Len(b.format)
  BY <1>1, <1>2
<1>4. a.format = b.format
  BY <1>1, <1>2, <1>3, SeqEqual
<1>5. Encoding(a) = Encoding(b)
  BY <1>1, <1>3
<1>6. (DOMAIN a = {"format"} /\ DOMAIN b = {"format"}) \/ Members(a) = Members(b)
  <2>1. Digest(Members(a)) # "empty" /\ Digest(Members(b)) # "empty"
        /\ (Digest(Members(a)) = Digest(Members(b)) => Members(a) = Members(b))
    BY SubjectAssumption
  <2> QED
    BY <1>5, <2>1 DEF Encoding
<1>7. a = [name \in DOMAIN a |-> a[name]] /\ b = [name \in DOMAIN b |-> b[name]] /\ "format" \in DOMAIN a \cap DOMAIN b
  BY Values
<1>8. DOMAIN a = DOMAIN b
  <2>1. DOMAIN Members(a) = DOMAIN a \ {"format"} /\ DOMAIN Members(b) = DOMAIN b \ {"format"}
    BY DEF Members
  <2> QED
    BY <1>6, <1>7, <2>1
<1>9. ASSUME NEW name \in DOMAIN a PROVE a[name] = b[name]
  <2>1. CASE name = "format"
    BY <1>4, <2>1
  <2>2. CASE name # "format"
    <3>1. Members(a) = Members(b)
      BY <1>6, <2>2
    <3>2. Members(a)[name] = a[name] /\ Members(b)[name] = b[name]
      BY <1>8, <2>2 DEF Members
    <3> QED
      BY <3>1, <3>2
  <2> QED
    BY <2>1, <2>2
<1> QED
  BY <1>7, <1>8, <1>9

(* The heads of the keys tell the formats apart. *)
LEMMA FormatFromKey ==
  ASSUME NEW a \in Subjects, NEW b \in Subjects, ~Nests(a), ~Nests(b), OwnKey(a) = OwnKey(b), OwnKey(a) # Invalid,
         ~Odd(Self(a)), ~Odd(Self(b))
  PROVE  a.format = b.format \/ (Named(a) = {} /\ Named(b) = {})
<1> DEFINE Heads == {"email", "phone", "iss_sub", "opaque"}
<1>1. ASSUME NEW s \in Subjects, Named(s) # {}, OwnKey(s) # Invalid
      PROVE  /\ OwnKey(s)[1] \in Heads /\ OwnKey(s)[2] = ":"
             /\ OwnKey(s)[1] = "email" <=> s.format = <<"email">>
             /\ OwnKey(s)[1] = "phone" <=> s.format = <<"phone_number">>
             /\ OwnKey(s)[1] = "opaque" <=> s.format = <<"opaque">>
             /\ OwnKey(s)[1] = "iss_sub" <=> s.format = <<"iss_sub">>
  BY <1>1, KeyOfEmail, KeyOfPhone, KeyOfOpaque, KeyOfIssSub, Formats
<1>2. ASSUME NEW s \in Subjects, Named(s) = {}, OwnKey(s) # Invalid, ~Nests(s), ~Odd(Self(s)),
             OwnKey(s)[1] \in Heads, OwnKey(s)[2] = ":"
      PROVE  FALSE
  <2>1. s.format # <<>>
    BY <1>2, KeyOfOther
  <2>2. Len(s.format) >= 1
    BY <2>1, Values, EmptySeq
  <2>3. OwnKey(s)[1] = s.format[1]
    <3>1. Len(s.format) \in Nat /\ 1 \in 1 .. Len(s.format)
      BY <2>2, Values
    <3>2. \A i \in 1 .. Len(s.format) : OwnKey(s)[i] = s.format[i]
      BY <1>2, KeyOfOther
    <3> QED
      BY <3>1, <3>2
  <2>4. OwnKey(s)[2] = (s.format \o <<":">>)[2]
    BY <1>2, <2>1, KeyOfOther
  <2> QED
    BY <1>2, <2>1, <2>3, <2>4, NotOdd
<1>3. CASE Named(a) # {} /\ Named(b) # {}
  <2>1. OwnKey(a)[1] \in Heads
    BY <1>1, <1>3
  <2> QED
    BY <1>1, <1>3, <2>1
<1>4. CASE Named(a) # {} /\ Named(b) = {}
  BY <1>1, <1>2, <1>4
<1>5. CASE Named(a) = {} /\ Named(b) # {}
  BY <1>1, <1>2, <1>5
<1> QED
  BY <1>3, <1>4, <1>5

(* A key tells subjects apart in which none is nested, vague ones aside    *)
(* and odd ones.                                                           *)
LEMMA BasesTold ==
  ASSUME NEW a \in Subjects, NEW b \in Subjects, ~Nests(a), ~Nests(b), OwnKey(a) = OwnKey(b), OwnKey(a) # Invalid,
         ~Odd(Self(a)), ~Odd(Self(b))
  PROVE  \/ Self(a) = Self(b)
         \/ Self(a).format = Self(b).format /\ Vague(Self(a)) /\ Vague(Self(b))
<1>1. CASE Named(a) = {} /\ Named(b) = {}
  BY <1>1, OthersTold
<1>2. CASE a.format = b.format /\ Named(a) # {}
  <2>1. Self(a).format = Self(b).format /\ Named(b) = Named(a)
    BY <1>2, SelfFormat DEF Named
  <2>2. \A name \in Named(a) : IsString(a, name) /\ IsString(b, name)
    BY <2>1, NotOdd
  <2>3. CASE a.format = <<"email">>
    <3>0. Named(a) = {"email"}
      BY <2>3, Formats
    <3>1. <<"email", ":">> \o LowerCase(Text(a, "email")) = <<"email", ":">> \o LowerCase(Text(b, "email"))
      BY <1>2, <2>3, KeyOfEmail
    <3>2. Text(a, "email") \in Seq(DOMAIN Lower) /\ Text(b, "email") \in Seq(DOMAIN Lower)
      BY Values
    <3>3. LowerCase(Text(a, "email")) = LowerCase(Text(b, "email"))
      <4>1. LowerCase(Text(a, "email")) \in Seq(LowerWords) /\ LowerCase(Text(b, "email")) \in Seq(LowerWords)
        BY <3>2, LowerTyped
      <4> QED
        BY <3>1, <4>1, SameTail
    <3>4. Text(a, "email") = <<>> <=> Text(b, "email") = <<>>
      <4>1. Len(Text(a, "email")) = Len(Text(b, "email"))
        BY <3>2, <3>3, LowerTyped
      <4> QED
        BY <3>2, <4>1, EmptySeq
    <3> QED
      BY <1>2, <2>1, <2>2, <3>0, <3>3, <3>4, OneMember
  <2>4. CASE a.format = <<"phone_number">>
    <3>0. Named(a) = {"phone_number"} /\ "phone_number" # "email"
      BY <2>4, Formats
    <3>1. <<"phone", ":">> \o Text(a, "phone_number") = <<"phone", ":">> \o Text(b, "phone_number")
      BY <1>2, <2>4, KeyOfPhone
    <3>2. Text(a, "phone_number") = Text(b, "phone_number")
      <4>1. Text(a, "phone_number") \in Seq(DOMAIN Lower) /\ Text(b, "phone_number") \in Seq(DOMAIN Lower)
        BY Values
      <4> QED
        BY <3>1, <4>1, SameTail
    <3> QED
      BY <1>2, <2>1, <2>2, <3>0, <3>2, OneMember
  <2>5. CASE a.format = <<"opaque">>
    <3>0. Named(a) = {"id"} /\ "id" # "email"
      BY <2>5, Formats
    <3>1. <<"opaque", ":">> \o Text(a, "id") = <<"opaque", ":">> \o Text(b, "id")
      BY <1>2, <2>5, KeyOfOpaque
    <3>2. Text(a, "id") = Text(b, "id")
      <4>1. Text(a, "id") \in Seq(DOMAIN Lower) /\ Text(b, "id") \in Seq(DOMAIN Lower)
        BY Values
      <4> QED
        BY <3>1, <4>1, SameTail
    <3> QED
      BY <1>2, <2>1, <2>2, <3>0, <3>2, OneMember
  <2>6. CASE a.format = <<"iss_sub">>
    <3>0. \A name \in {"iss", "sub"} : IsString(a, name) /\ IsString(b, name)
      BY <2>2, <2>6, Formats
    <3>1. CASE Clear(a)
      <4>1. Self(b) = Self(a)
        BY <1>2, <2>6, <3>0, <3>1, ClearIssSub
      <4> QED
        BY <4>1
    <3>2. CASE Clear(b)
      BY <1>2, <2>6, <3>0, <3>2, ClearIssSub
    <3>3. CASE ~Clear(a) /\ ~Clear(b)
      BY <1>2, <2>1, <2>6, <3>3, UnclearIsVague
    <3> QED
      BY <3>1, <3>2, <3>3
  <2> QED
    BY <1>2, <2>3, <2>4, <2>5, <2>6, Formats
<1>3. a.format = b.format => Named(a) = Named(b)
  BY DEF Named
<1> QED
  BY <1>1, <1>2, <1>3, FormatFromKey

(* A key tells whom subjects stand for, however deep the user is nested:   *)
(* two subjects that have one key stand for one person, or for two of the  *)
(* same format that are both vague, or one of them is odd                  *)
(* (correlation_key; app/models.py:132 says "two different subjects never  *)
(* share a key").                                                          *)
THEOREM KeysTellPersonsApart ==
  ASSUME NEW s \in Subjects, NEW u \in Subjects, CorrelationKey[s] = CorrelationKey[u], CorrelationKey[u] # Invalid
  PROVE  \/ Person[s] = Person[u]
         \/ Person[s].format = Person[u].format /\ Vague(Person[s]) /\ Vague(Person[u])
         \/ Odd(Person[s]) \/ Odd(Person[u])
<1>1. PICK a \in Subjects : ~Nests(a) /\ CorrelationKey[s] = OwnKey(a) /\ Person[s] = Self(a)
  BY EveryoneHasBase
<1>2. PICK b \in Subjects : ~Nests(b) /\ CorrelationKey[u] = OwnKey(b) /\ Person[u] = Self(b)
  BY EveryoneHasBase
<1> QED
  BY <1>1, <1>2, BasesTold

(* The sessions a SET acts on were registered for the person it is about,  *)
(* or for one as vague, whatever subjects there are, as long as neither is *)
(* odd ("a collision between two distinct subjects is a security bug",     *)
(* tests/test_models.py).                                                  *)
THEOREM ActsOnOwnSessionsHolds == Spec => []ActsOnOwnSessions
<1>1. TypeOK => ActsOnOwnSessions
  <2> SUFFICES ASSUME TypeOK, CorrelationKey[subject] # Invalid,
                      NEW s \in Subjects, CorrelationKey[s] = CorrelationKey[subject]
               PROVE  LET p == Person[s]
                          q == Person[subject] IN
                      \/ p = q
                      \/ p.format = q.format /\ Vague(p) /\ Vague(q)
                      \/ Odd(p) \/ Odd(q)
    BY DEF ActsOnOwnSessions
  <2>1. subject \in Subjects
    BY DEF TypeOK
  <2> QED
    BY <2>1, KeysTellPersonsApart
<1> QED
  BY <1>1, Typing, PTL

-----------------------------------------------------------------------------
(* The JWKS manager: JwksManager.                                          *)

(* What the constants are, and what a client that is there has. *)
LEMMA JwksFacts ==
    /\ NoUri \notin Uris /\ InitialKeys \in [Uris -> SUBSET Keys]
    /\ Ttl \in Nat /\ JwksMaxTime \in Nat /\ MaxEvents \in Nat
    /\ Never \in Nat /\ 0 \in 0 .. Never /\ 0 \in 0 .. JwksMaxTime /\ 0 \in 0 .. MaxEvents
    /\ \A c \in Client : c # NoClient /\ c.uri \in Uris
    /\ \A u \in Uris : NewClient(u) \in Client /\ NewClient(u).uri = u
<1>1. Ttl \in Nat /\ JwksMaxTime \in Nat /\ MaxEvents \in Nat
  BY JwksAssumption
<1>2. Never \in Nat /\ 0 \in 0 .. Never /\ 0 \in 0 .. JwksMaxTime /\ 0 \in 0 .. MaxEvents
  BY <1>1 DEF Never
<1>3. \A c \in Client : c # NoClient /\ c.uri \in Uris
  BY JwksAssumption DEF Client, NoClient
<1>4. \A u \in Uris : NewClient(u) = [uri |-> u, resolved |-> {}, fetched |-> {}]
  BY DEF NewClient, NoClient
<1>5. \A u \in Uris : NewClient(u) \in Client /\ NewClient(u).uri = u
  BY <1>4 DEF Client
<1> QED
  BY <1>1, <1>2, <1>3, <1>5, JwksAssumption

(* What a client can have become while its content was updated: it is      *)
(* still of its URI, and knows no key more than that URI serves.           *)
Refreshed(new, old) ==
    \/ new = old
    \/ /\ old \in Client /\ new \in Client /\ new.uri = old.uri
       /\ \A k \in Keys : Knows(new, k) => Knows(old, k) \/ k \in published[old.uri]

(* Fetching does no more than that to a client. *)
LEMMA FetchedRefreshes ==
  ASSUME JwksTypeOK, NEW c \in Client, NEW k \in Keys
  PROVE  Fetched(c, k) \in Client /\ Refreshed(Fetched(c, k), c)
<1> DEFINE new == Fetched(c, k)
<1>1. published[c.uri] \subseteq Keys /\ Serves(c) \subseteq published[c.uri]
  BY DEF JwksTypeOK, Serves, Client
<1>2. CASE Knows(c, k)
  <2>1. new = [c EXCEPT !.resolved = c.resolved \cup {k}]
    BY <1>2 DEF Fetched
  <2>2. /\ new \in Client /\ new.uri = c.uri /\ new.fetched = c.fetched
        /\ new.resolved = c.resolved \cup {k}
    BY <2>1 DEF Client
  <2> HIDE DEF new
  <2> QED
    BY <1>2, <2>2 DEF Refreshed, Knows, new
<1>3. CASE ~Knows(c, k)
  <2>1. new = [c EXCEPT !.fetched = Serves(c), !.resolved = c.resolved \cup ({k} \cap Serves(c))]
    BY <1>3 DEF Fetched
  <2>2. /\ new \in Client /\ new.uri = c.uri /\ new.fetched = Serves(c)
        /\ new.resolved = c.resolved \cup ({k} \cap Serves(c))
    BY <1>1, <2>1 DEF Client
  <2> HIDE DEF new
  <2> QED
    BY <1>1, <1>3, <2>2 DEF Refreshed, Knows, new
<1> QED
  BY <1>2, <1>3

(* A thread that resolves updates its client wherever that is referred to. *)
LEMMA UpdateRefreshes ==
  ASSUME JwksTypeOK, NEW t \in Threads, jwksPc[t] = "resolve", Update(t)
  PROVE  /\ client' \in Client \cup {NoClient} /\ Refreshed(client', client)
         /\ held' \in [Threads -> Client \cup {NoClient}]
         /\ held'[t] = NoClient
         /\ \A u \in Threads \ {t} :
               Refreshed(held'[u], held[u]) /\ (held[u] \in Client => held'[u] \in Client)
<1> DEFINE new == Fetched(held[t], kid[t])
<1>1. held[t] \in Client /\ kid[t] \in Keys
  BY DEF JwksTypeOK
<1>2. new \in Client /\ Refreshed(new, held[t])
  BY <1>1, FetchedRefreshes
<1>3. /\ client' = IF client = held[t] THEN new ELSE client
      /\ held' = [u \in Threads |-> IF u = t THEN NoClient ELSE IF held[u] = held[t] THEN new ELSE held[u]]
  BY DEF Update
<1>4. \A c : Refreshed(c, c)
  BY DEF Refreshed
<1> HIDE DEF new
<1>5. client' \in Client \cup {NoClient} /\ Refreshed(client', client)
  BY <1>2, <1>3, <1>4 DEF JwksTypeOK
<1>6. held' \in [Threads -> Client \cup {NoClient}] /\ held'[t] = NoClient
  BY <1>2, <1>3 DEF JwksTypeOK
<1>7. \A u \in Threads \ {t} : Refreshed(held'[u], held[u]) /\ (held[u] \in Client => held'[u] \in Client)
  BY <1>2, <1>3, <1>4
<1> QED
  BY <1>5, <1>6, <1>7

(* A call that ends leaves its locals empty. *)
LEMMA EndTypeOK ==
  ASSUME JwksTypeOK, NEW t \in Threads, EndCall(t)
  PROVE  /\ jwksPc' \in [Threads -> JwksSteps] /\ jwksPc'[t] = "idle" /\ retry'[t] = FALSE
         /\ found' \in [Threads -> Uris \cup {NoUri}]
         /\ held' \in [Threads -> Client \cup {NoClient}]
         /\ retry' \in [Threads -> BOOLEAN] /\ excused' \in [Threads -> BOOLEAN]
         /\ \A u \in Threads \ {t} : UNCHANGED <<jwksPc[u], found[u], held[u], retry[u], excused[u]>>
  BY DEF JwksTypeOK, EndCall, Goto, JwksSteps

(* What excuses some threads keeps its type. *)
LEMMA ExcuseTypeOK ==
  ASSUME JwksTypeOK, NEW S, Excuse(S) PROVE excused' \in [Threads -> BOOLEAN]
  BY DEF JwksTypeOK, Excuse

(* One more event is still within the bound. *)
LEMMA EventTypeOK ==
  ASSUME JwksTypeOK, Event PROVE events' \in 0 .. MaxEvents
<1>1. events \in 0 .. MaxEvents /\ events < MaxEvents /\ events' = events + 1 /\ MaxEvents \in Nat
  BY JwksFacts DEF JwksTypeOK, Event
<1> QED
  BY <1>1

(* Every step keeps the types. *)
LEMMA JwksNextTypeOK ==
  ASSUME JwksTypeOK, [JwksNext]_jwksVars
  PROVE  JwksTypeOK'
<1> USE JwksFacts DEF Goto, jwksEndpoint, manager
<1>1. ASSUME NEW t \in Threads, NEW k \in Keys, SigningKeyFor(t, k) PROVE JwksTypeOK'
  <2>1. excused' \in [Threads -> BOOLEAN] /\ kid' \in [Threads -> Keys]
    BY <1>1 DEF SigningKeyFor, JwksTypeOK
  <2> QED
    BY <1>1, <2>1 DEF SigningKeyFor, JwksTypeOK, JwksSteps
<1>2. ASSUME NEW t \in Threads, ReadUri(t) PROVE JwksTypeOK'
  BY <1>2 DEF ReadUri, JwksTypeOK, JwksSteps
<1>3. ASSUME NEW t \in Threads, NotRegistered(t) PROVE JwksTypeOK'
  BY <1>3, EndTypeOK DEF NotRegistered, JwksTypeOK
<1>4. ASSUME NEW t \in Threads, UseClient(t) PROVE JwksTypeOK'
  BY <1>4 DEF UseClient, JwksTypeOK, JwksSteps
<1>5. ASSUME NEW t \in Threads, BuildClient(t) PROVE JwksTypeOK'
  BY <1>5 DEF BuildClient, JwksTypeOK, JwksSteps
<1>6. ASSUME NEW t \in Threads, CreateClient(t) PROVE JwksTypeOK'
  <2>1. client' \in Client
    BY <1>6 DEF CreateClient, JwksTypeOK
  <2>2. excused' \in [Threads -> BOOLEAN]
    BY <1>6, ExcuseTypeOK DEF CreateClient, JwksTypeOK
  <2> QED
    BY <1>6, <2>1, <2>2 DEF CreateClient, JwksTypeOK, JwksSteps
<1>7. ASSUME NEW t \in Threads, TakeClient(t) PROVE JwksTypeOK'
  BY <1>7 DEF TakeClient, JwksTypeOK, JwksSteps
<1>8. ASSUME NEW t \in Threads, ClientGone(t) PROVE JwksTypeOK'
  BY <1>8, EndTypeOK DEF ClientGone, JwksTypeOK
<1>9. ASSUME NEW t \in Threads, Resolve(t) PROVE JwksTypeOK'
  <2>1. jwksPc[t] = "resolve" /\ Update(t)
    BY <1>9 DEF Resolve
  <2>2. retry' \in [Threads -> BOOLEAN] /\ excused' \in [Threads -> BOOLEAN]
    BY <1>9 DEF Resolve, JwksTypeOK
  <2> QED
    BY <1>9, <2>1, <2>2, UpdateRefreshes DEF Resolve, JwksTypeOK, JwksSteps
<1>10. ASSUME NEW t \in Threads, FailOnce(t) PROVE JwksTypeOK'
  <2>1. jwksPc[t] = "resolve" /\ Update(t)
    BY <1>10 DEF FailOnce, Unresolvable
  <2> QED
    BY <1>10, <2>1, UpdateRefreshes DEF FailOnce, JwksTypeOK, JwksSteps
<1>11. ASSUME NEW t \in Threads, PopClient(t) PROVE JwksTypeOK'
  <2>1. excused' \in [Threads -> BOOLEAN]
    BY <1>11, ExcuseTypeOK DEF PopClient
  <2> QED
    BY <1>11, <2>1 DEF PopClient, JwksTypeOK, JwksSteps
<1>12. ASSUME NEW t \in Threads, FailTwice(t) PROVE JwksTypeOK'
  <2>1. held[t] \in Client /\ kid[t] \in Keys
    BY <1>12 DEF FailTwice, Unresolvable, JwksTypeOK
  <2>2. client' \in Client \cup {NoClient}
    BY <1>12, <2>1, FetchedRefreshes DEF FailTwice, JwksTypeOK
  <2>3. EndCall(t)
    BY <1>12 DEF FailTwice
  <2> QED
    BY <1>12, <2>2, <2>3, EndTypeOK DEF FailTwice, JwksTypeOK
<1>13. ASSUME NEW u \in Uris, RegisterIssuer(u) PROVE JwksTypeOK'
  BY <1>13, EventTypeOK, ExcuseTypeOK DEF RegisterIssuer, JwksTypeOK
<1>14. ASSUME NEW u \in Uris, NEW k \in Keys, Publish(u, k) PROVE JwksTypeOK'
  BY <1>14, EventTypeOK DEF Publish, JwksTypeOK
<1>15. ASSUME NEW u \in Uris, NEW k \in Keys, Withdraw(u, k) PROVE JwksTypeOK'
  <2>1. jwksNow \in 0 .. Never
    BY DEF JwksTypeOK, Never
  <2>2. [withdrawnAt[u] EXCEPT ![k] = jwksNow] \in [Keys -> 0 .. Never]
    BY <2>1 DEF JwksTypeOK
  <2>3. withdrawnAt' = [withdrawnAt EXCEPT ![u] = [withdrawnAt[u] EXCEPT ![k] = jwksNow]]
    BY <1>15 DEF Withdraw
  <2>4. withdrawnAt' \in [Uris -> [Keys -> 0 .. Never]]
    BY <2>2, <2>3 DEF JwksTypeOK
  <2>5. published' \in [Uris -> SUBSET Keys]
    BY <1>15 DEF Withdraw, JwksTypeOK
  <2> QED
    BY <1>15, <2>4, <2>5, EventTypeOK, ExcuseTypeOK DEF Withdraw, JwksTypeOK
<1>16. CASE GoDown
  BY <1>16, EventTypeOK, ExcuseTypeOK DEF GoDown, JwksTypeOK
<1>17. CASE ComeUp
  BY <1>17 DEF ComeUp, JwksTypeOK
<1>18. CASE JwksTick
  <2>1. jwksNow' \in 0 .. JwksMaxTime
    BY <1>18 DEF JwksTick, JwksTypeOK
  <2> QED
    BY <1>18, <2>1 DEF JwksTick, JwksTypeOK
<1>19. CASE UNCHANGED jwksVars
  BY <1>19 DEF jwksVars, JwksTypeOK
<1> QED
  BY <1>1, <1>2, <1>3, <1>4, <1>5, <1>6, <1>7, <1>8, <1>9, <1>10, <1>11, <1>12, <1>13, <1>14, <1>15, <1>16,
     <1>17, <1>18, <1>19 DEF JwksNext

(* At first the types are kept. *)
LEMMA JwksInitTypeOK == ASSUME JwksInit PROVE JwksTypeOK
<1>1. kid \in [Threads -> Keys]
  BY DEF JwksInit
<1>2. withdrawnAt \in [Uris -> [Keys -> 0 .. Never]]
  BY JwksFacts DEF JwksInit
<1> QED
  BY <1>1, <1>2, JwksFacts DEF JwksInit, JwksTypeOK, JwksSteps

(* The variables of the JWKS manager keep to their types. *)
THEOREM JwksTyping == JwksSpec => []JwksTypeOK
<1>1. JwksInit => JwksTypeOK
  BY JwksInitTypeOK
<1>2. JwksTypeOK /\ [JwksNext]_jwksVars => JwksTypeOK'
  BY JwksNextTypeOK
<1> QED
  BY <1>1, <1>2, PTL DEF JwksSpec

-----------------------------------------------------------------------------
(* A client is fresh as of a time: it is of the URI registered now, or of  *)
(* one replaced then at the earliest, and knows no key withdrawn before.   *)
Fresh(c, time) ==
    /\ c.uri # uri => time <= registeredAt
    /\ \A k \in Keys : Knows(c, k) => time <= withdrawnAt[c.uri][k]

(* The clock is ahead of what is noted, and a key served is not withdrawn. *)
Dated ==
    /\ registeredAt <= jwksNow /\ createdAt <= jwksNow
    /\ \A u \in Uris : \A k \in published[u] : withdrawnAt[u][k] = Never

(* A URI that a call has read and that is replaced was replaced just now. *)
Looked ==
    \A t \in Threads : jwksPc[t] \in {"client", "create", "take"} /\ found[t] # uri => registeredAt = jwksNow

(* The client kept is as fresh as its date says; while a thread is about   *)
(* to date it, it is new.                                                  *)
Kept ==
    client # NoClient =>
        /\ Fresh(client, createdAt)
        /\ (\E t \in Threads : jwksPc[t] = "take") => Fresh(client, jwksNow)

(* The client that a thread resolves with is at most the TTL old. *)
Taken == \A t \in Threads : jwksPc[t] = "resolve" => Fresh(held[t], jwksNow - Ttl)

Aged == Dated /\ Looked /\ Kept /\ Taken

(* The times are numbers. *)
LEMMA Times ==
  ASSUME JwksTypeOK
  PROVE  /\ jwksNow \in Int /\ createdAt \in Int /\ registeredAt \in Int /\ Ttl \in Nat
         /\ jwksNow - Ttl \in Int /\ jwksNow - Ttl <= jwksNow /\ jwksNow <= Never
         /\ \A u \in Uris : \A k \in Keys : withdrawnAt[u][k] \in Int
<1>1. JwksMaxTime \in Nat /\ Ttl \in Nat /\ Never \in Nat /\ -Never \in Int
  BY JwksFacts
<1>2. jwksNow \in 0 .. JwksMaxTime /\ registeredAt \in 0 .. JwksMaxTime /\ createdAt \in {-Never} \cup 0 .. JwksMaxTime
  BY DEF JwksTypeOK
<1>3. \A u \in Uris : \A k \in Keys : withdrawnAt[u][k] \in 0 .. Never
  BY DEF JwksTypeOK
<1>4. jwksNow <= Never
  BY <1>1, <1>2 DEF Never
<1> HIDE DEF Never
<1> QED
  BY <1>1, <1>2, <1>3, <1>4

(* What is fresh as of a time is so as of any earlier one. *)
LEMMA FreshEarlier ==
  ASSUME JwksTypeOK, NEW c \in Client, NEW a \in Int, NEW b \in Int, b <= a, Fresh(c, a)
  PROVE  Fresh(c, b)
<1>1. \A k \in Keys : withdrawnAt[c.uri][k] \in Int
  BY Times, JwksFacts
<1>2. registeredAt \in Int
  BY Times
<1> QED
  BY <1>1, <1>2 DEF Fresh

(* Keys that are fetched do not make a client older. *)
LEMMA FreshRefreshed ==
  ASSUME JwksTypeOK, Dated, NEW c \in Client, NEW new, Refreshed(new, c),
         NEW a \in Int, a <= jwksNow, Fresh(c, a)
  PROVE  Fresh(new, a)
<1>1. CASE new = c
  BY <1>1
<1>2. CASE new # c
  <2>1. c.uri \in Uris /\ new.uri = c.uri
    BY <1>2, JwksFacts DEF Refreshed
  <2>2. ASSUME NEW k \in Keys, Knows(new, k) PROVE a <= withdrawnAt[c.uri][k]
    <3>1. CASE Knows(c, k)
      BY <3>1 DEF Fresh
    <3>2. CASE k \in published[c.uri]
      <4>1. withdrawnAt[c.uri][k] = Never
        BY <2>1, <3>2 DEF Dated
      <4>2. jwksNow \in Int /\ jwksNow <= Never /\ Never \in Nat
        BY Times, JwksFacts
      <4> QED
        BY <4>1, <4>2
    <3> QED
      BY <1>2, <2>2, <3>1, <3>2 DEF Refreshed
  <2> QED
    BY <2>1, <2>2 DEF Fresh
<1> QED
  BY <1>1, <1>2

(* A new client is fresh as of the moment. *)
LEMMA FreshNew ==
  ASSUME JwksTypeOK, Aged, NEW t \in Threads, jwksPc[t] = "create"
  PROVE  NewClient(found[t]) \in Client /\ Fresh(NewClient(found[t]), jwksNow)
<1> DEFINE new == NewClient(found[t])
<1>1. found[t] \in Uris
  BY DEF JwksTypeOK
<1>2. new \in Client /\ new.uri = found[t]
  BY <1>1, JwksFacts
<1>3. \A k \in Keys : ~Knows(new, k)
  BY DEF Knows, NewClient, NoClient
<1>4. found[t] # uri => jwksNow <= registeredAt
  BY Times DEF Aged, Looked
<1> HIDE DEF new
<1> QED
  BY <1>2, <1>3, <1>4 DEF Fresh, new

(* A step of the JWKS manager for a thread, of whichever kind. *)
LEMMA ThreadAges ==
  ASSUME JwksTypeOK, Aged, NEW t \in Threads,
         UNCHANGED <<jwksNow, published, withdrawnAt, uri, registeredAt>>,
         \A u \in Threads \ {t} : UNCHANGED <<jwksPc[u], found[u]>> /\ Refreshed(held'[u], held[u]),
         \/ client' = NoClient \/ Refreshed(client', client)
         \/ jwksPc[t] = "create" /\ client' = NewClient(found[t]),
         createdAt' = createdAt \/ (createdAt' = jwksNow /\ jwksPc[t] = "take" /\ client' = client),
         jwksPc'[t] = "take" => jwksPc[t] = "create" /\ client' = NewClient(found[t]),
         jwksPc'[t] \in {"client", "create", "take"} =>
             found'[t] = uri \/ (jwksPc[t] \in {"client", "create"} /\ found'[t] = found[t]),
         jwksPc'[t] = "resolve" =>
             /\ held'[t] = client /\ client # NoClient
             /\ jwksPc[t] = "take" \/ ~StaleClient
  PROVE  Aged'
<1> DEFINE Taking == \E u \in Threads : jwksPc[u] = "take"
<1>1. \A c, a : Fresh(c, a)' <=> Fresh(c, a)
  BY DEF Fresh
<1>2. \A c \in Client, a, b \in Int : b <= a /\ Fresh(c, a) => Fresh(c, b)
  BY FreshEarlier
<1>3. \A new : \A c \in Client, a \in Int : Refreshed(new, c) /\ a <= jwksNow /\ Fresh(c, a) => Fresh(new, a)
  BY FreshRefreshed DEF Aged
<1>4. jwksNow \in Int /\ createdAt \in Int /\ jwksNow - Ttl \in Int /\ jwksNow - Ttl <= jwksNow /\ createdAt <= jwksNow
  BY Times DEF Aged, Dated
<1>5. client # NoClient =>
         client \in Client /\ Fresh(client, createdAt) /\ (Taking => Fresh(client, jwksNow))
  BY DEF Aged, Kept, JwksTypeOK
<1>6. Dated'
  BY <1>4 DEF Aged, Dated
<1>7. Looked'
  BY DEF Aged, Looked
<1>8. Kept'
  <2>1. CASE client' = NoClient
    BY <2>1 DEF Kept, NoClient
  <2>2. CASE jwksPc[t] = "create" /\ client' = NewClient(found[t])
    <3>1. client' \in Client /\ Fresh(client', jwksNow) /\ createdAt' = createdAt
      BY <2>2, FreshNew
    <3>2. Fresh(client', createdAt)
      BY <1>2, <1>4, <3>1
    <3> QED
      BY <1>1, <3>1, <3>2 DEF Kept, Fresh
  <2>3. CASE client' # NoClient /\ Refreshed(client', client) /\ jwksPc'[t] # "take"
    <3>1. client # NoClient /\ client \in Client
      BY <1>5, <2>3, JwksFacts DEF Refreshed
    <3>2. Fresh(client', createdAt) /\ (Taking => Fresh(client', jwksNow))
      BY <1>3, <1>4, <1>5, <2>3, <3>1
    <3>3. (\E u \in Threads : jwksPc'[u] = "take") => Taking
      BY <2>3
    <3>4. createdAt' = createdAt \/ (createdAt' = jwksNow /\ Taking)
      OBVIOUS
    <3>5. Fresh(client', createdAt')
      BY <3>2, <3>4
    <3> QED
      BY <1>1, <3>2, <3>3, <3>5 DEF Kept, Fresh
  <2> QED
    BY <2>1, <2>2, <2>3
<1>9. Taken'
  <2>1. ASSUME NEW u \in Threads \ {t}, jwksPc'[u] = "resolve" PROVE Fresh(held'[u], jwksNow - Ttl)
    <3>1. jwksPc[u] = "resolve" /\ held[u] \in Client /\ Fresh(held[u], jwksNow - Ttl)
      BY <2>1 DEF Aged, Taken, JwksTypeOK
    <3> QED
      BY <1>3, <1>4, <3>1
  <2>2. ASSUME jwksPc'[t] = "resolve" PROVE Fresh(held'[t], jwksNow - Ttl)
    <3>1. held'[t] = client /\ client \in Client
      BY <1>5, <2>2
    <3>2. CASE jwksPc[t] = "take"
      BY <1>2, <1>4, <1>5, <2>2, <3>1, <3>2
    <3>3. CASE ~StaleClient
      <4>1. jwksNow - Ttl <= createdAt
        BY <1>4, <3>3, Times DEF StaleClient
      <4> QED
        BY <1>2, <1>4, <1>5, <2>2, <3>1, <4>1
    <3> QED
      BY <2>2, <3>2, <3>3
  <2>3. \A u \in Threads : jwksPc'[u] = "resolve" => Fresh(held'[u], jwksNow - Ttl)
    BY <2>1, <2>2
  <2> QED
    BY <2>3 DEF Taken, Fresh
<1> QED
  BY <1>6, <1>7, <1>8, <1>9 DEF Aged

(* A step of the clock, the transmitter or the admin API.                  *)
LEMMA WorldAges ==
  ASSUME JwksTypeOK, Aged,
         UNCHANGED <<createdAt, jwksPc, found, held>>,
         client' \in {client, NoClient},
         Dated', Looked',
         \A t \in Threads : jwksPc[t] = "idle" \/ jwksNow' = jwksNow,
         \A c \in Client : \A a \in Int : a <= jwksNow /\ Fresh(c, a) => Fresh(c, a)'
  PROVE  Aged'
<1>1. jwksNow \in Int /\ createdAt \in Int /\ jwksNow - Ttl \in Int /\ jwksNow - Ttl <= jwksNow /\ createdAt <= jwksNow
  BY Times DEF Aged, Dated
<1>2. Kept'
  <2>1. CASE client' = NoClient
    BY <2>1 DEF Kept, NoClient
  <2>2. CASE client' # NoClient
    <3>1. client' = client /\ client \in Client
      BY <2>2 DEF JwksTypeOK
    <3>2. PICK c \in Client : c = client
      BY <3>1
    <3>3. PICK a \in Int : a = createdAt
      BY <1>1
    <3>4. PICK n \in Int : n = jwksNow
      BY <1>1
    <3>5. Fresh(c, a)' /\ ((\E t \in Threads : jwksPc[t] = "take") => Fresh(c, n)')
      BY <1>1, <2>2, <3>1, <3>2, <3>3, <3>4 DEF Aged, Kept
    <3>6. (\E t \in Threads : jwksPc[t] = "take") => jwksNow' = jwksNow
      OBVIOUS
    <3> QED
      BY <3>1, <3>2, <3>3, <3>4, <3>5, <3>6 DEF Kept, Fresh
  <2> QED
    BY <2>1, <2>2
<1>3. Taken'
  <2> SUFFICES ASSUME NEW t \in Threads, jwksPc[t] = "resolve" PROVE Fresh(held[t], jwksNow - Ttl)'
    BY DEF Taken
  <2>1. held[t] \in Client /\ Fresh(held[t], jwksNow - Ttl) /\ jwksNow' = jwksNow
    BY DEF Aged, Taken, JwksTypeOK
  <2>2. PICK c \in Client : c = held[t]
    BY <2>1
  <2>3. PICK a \in Int : a = jwksNow - Ttl
    BY <1>1
  <2>4. Fresh(c, a)'
    BY <1>1, <2>1, <2>2, <2>3
  <2> QED
    BY <2>1, <2>2, <2>3, <2>4 DEF Fresh
<1> QED
  BY <1>2, <1>3 DEF Aged

(* Every step keeps the ages. *)
LEMMA AgedStays ==
  ASSUME JwksTypeOK, Aged, [JwksNext]_jwksVars
  PROVE  Aged'
<1> USE DEF Goto, jwksEndpoint, manager
<1>1. \A c : Refreshed(c, c)
  BY DEF Refreshed
<1>2. ASSUME NEW t \in Threads, NEW k \in Keys, SigningKeyFor(t, k) PROVE Aged'
  BY <1>1, <1>2, ThreadAges DEF SigningKeyFor, JwksTypeOK
<1>3. ASSUME NEW t \in Threads, ReadUri(t) PROVE Aged'
  BY <1>1, <1>3, ThreadAges DEF ReadUri, JwksTypeOK
<1>4. ASSUME NEW t \in Threads, NotRegistered(t) PROVE Aged'
  BY <1>1, <1>4, ThreadAges, EndTypeOK DEF NotRegistered
<1>5. ASSUME NEW t \in Threads, UseClient(t) PROVE Aged'
  BY <1>1, <1>5, ThreadAges DEF UseClient, JwksTypeOK
<1>6. ASSUME NEW t \in Threads, BuildClient(t) PROVE Aged'
  BY <1>1, <1>6, ThreadAges DEF BuildClient, JwksTypeOK
<1>7. ASSUME NEW t \in Threads, CreateClient(t) PROVE Aged'
  BY <1>1, <1>7, ThreadAges DEF CreateClient, JwksTypeOK
<1>8. ASSUME NEW t \in Threads, TakeClient(t) PROVE Aged'
  BY <1>1, <1>8, ThreadAges DEF TakeClient, JwksTypeOK
<1>9. ASSUME NEW t \in Threads, ClientGone(t) PROVE Aged'
  BY <1>1, <1>9, ThreadAges, EndTypeOK DEF ClientGone
<1>10. ASSUME NEW t \in Threads, Resolve(t) PROVE Aged'
  <2>1. jwksPc[t] = "resolve" /\ Update(t)
    BY <1>10 DEF Resolve
  <2> QED
    BY <1>10, <2>1, ThreadAges, UpdateRefreshes DEF Resolve, JwksTypeOK
<1>11. ASSUME NEW t \in Threads, FailOnce(t) PROVE Aged'
  <2>1. jwksPc[t] = "resolve" /\ Update(t)
    BY <1>11 DEF FailOnce, Unresolvable
  <2> QED
    BY <1>11, <2>1, ThreadAges, UpdateRefreshes DEF FailOnce, JwksTypeOK
<1>12. ASSUME NEW t \in Threads, PopClient(t) PROVE Aged'
  BY <1>1, <1>12, ThreadAges DEF PopClient, JwksTypeOK
<1>13. ASSUME NEW t \in Threads, FailTwice(t) PROVE Aged'
  <2>1. held[t] \in Client /\ kid[t] \in Keys
    BY <1>13 DEF FailTwice, Unresolvable, JwksTypeOK
  <2>2. Refreshed(client', client)
    BY <1>1, <1>13, <2>1, FetchedRefreshes DEF FailTwice
  <2>3. EndCall(t)
    BY <1>13 DEF FailTwice
  <2> QED
    BY <1>1, <1>13, <2>2, <2>3, ThreadAges, EndTypeOK DEF FailTwice
<1>14. ASSUME NEW u \in Uris, RegisterIssuer(u) PROVE Aged'
  <2>1. registeredAt' = jwksNow /\ jwksNow' = jwksNow /\ UNCHANGED <<published, withdrawnAt, createdAt, jwksPc, found, held>>
    BY <1>14 DEF RegisterIssuer
  <2>2. Dated'
    BY <2>1, Times DEF Aged, Dated
  <2>3. Looked'
    BY <2>1 DEF Looked
  <2>4. \A c \in Client : \A a \in Int : a <= jwksNow /\ Fresh(c, a) => Fresh(c, a)'
    BY <2>1 DEF Fresh
  <2> QED
    BY <1>14, <2>1, <2>2, <2>3, <2>4, WorldAges DEF RegisterIssuer
<1>15. ASSUME NEW u \in Uris, NEW k \in Keys, Publish(u, k) PROVE Aged'
  <2>1. published' = [published EXCEPT ![u] = published[u] \cup {k}] /\ withdrawnAt[u][k] = Never
        /\ UNCHANGED <<jwksNow, withdrawnAt, uri, registeredAt, client, createdAt, jwksPc, found, held>>
    BY <1>15 DEF Publish
  <2>2. Dated'
    BY <2>1 DEF Aged, Dated, JwksTypeOK
  <2>3. Looked'
    BY <2>1 DEF Aged, Looked
  <2>4. \A c \in Client : \A a \in Int : a <= jwksNow /\ Fresh(c, a) => Fresh(c, a)'
    BY <2>1 DEF Fresh
  <2> QED
    BY <2>1, <2>2, <2>3, <2>4, WorldAges
<1>16. ASSUME NEW u \in Uris, NEW k \in Keys, Withdraw(u, k) PROVE Aged'
  <2>1. /\ published' = [published EXCEPT ![u] = published[u] \ {k}]
        /\ withdrawnAt' = [withdrawnAt EXCEPT ![u] = [withdrawnAt[u] EXCEPT ![k] = jwksNow]]
        /\ UNCHANGED <<jwksNow, uri, registeredAt, client, createdAt, jwksPc, found, held>>
    BY <1>16 DEF Withdraw
  <2>2. \A v \in Uris : \A j \in Keys :
           withdrawnAt'[v][j] = IF v = u /\ j = k THEN jwksNow ELSE withdrawnAt[v][j]
    BY <2>1 DEF JwksTypeOK
  <2>3. Dated'
    <3>1. \A v \in Uris : published[v] \subseteq Keys
      BY DEF JwksTypeOK
    <3>2. \A v \in Uris : \A j \in published'[v] : j \in published[v] /\ ~(v = u /\ j = k)
      BY <2>1 DEF JwksTypeOK
    <3> QED
      BY <2>1, <2>2, <3>1, <3>2 DEF Aged, Dated, Never
  <2>4. Looked'
    BY <2>1 DEF Aged, Looked
  <2>5. \A c \in Client : \A a \in Int : a <= jwksNow /\ Fresh(c, a) => Fresh(c, a)'
    BY <2>1, <2>2, JwksFacts DEF Fresh
  <2> QED
    BY <2>1, <2>3, <2>4, <2>5, WorldAges
<1>17. CASE GoDown \/ ComeUp \/ UNCHANGED jwksVars
  <2>1. UNCHANGED <<jwksNow, published, withdrawnAt, uri, registeredAt, client, createdAt, jwksPc, found, held>>
    BY <1>17 DEF GoDown, ComeUp, jwksVars
  <2>2. Dated' /\ Looked'
    BY <2>1 DEF Aged, Dated, Looked
  <2>3. \A c \in Client : \A a \in Int : a <= jwksNow /\ Fresh(c, a) => Fresh(c, a)'
    BY <2>1 DEF Fresh
  <2> QED
    BY <2>1, <2>2, <2>3, WorldAges
<1>18. CASE JwksTick
  <2>1. jwksNow' = jwksNow + 1 /\ (\A t \in Threads : jwksPc[t] = "idle")
        /\ UNCHANGED <<published, withdrawnAt, uri, registeredAt, client, createdAt, jwksPc, found, held>>
    BY <1>18 DEF JwksTick
  <2>2. Dated'
    BY <2>1, Times DEF Aged, Dated, Never
  <2>3. Looked'
    BY <2>1 DEF Looked
  <2>4. \A c \in Client : \A a \in Int : a <= jwksNow /\ Fresh(c, a) => Fresh(c, a)'
    BY <2>1 DEF Fresh
  <2> QED
    BY <2>1, <2>2, <2>3, <2>4, WorldAges
<1> QED
  BY <1>2, <1>3, <1>4, <1>5, <1>6, <1>7, <1>8, <1>9, <1>10, <1>11, <1>12, <1>13, <1>14, <1>15, <1>16,
     <1>17, <1>18 DEF JwksNext

(* At first nothing has an age. *)
LEMMA AgedInit == ASSUME JwksInit PROVE Aged
<1>1. Never \in Nat /\ registeredAt = 0 /\ createdAt = -Never /\ jwksNow = 0
  BY JwksFacts DEF JwksInit
<1>2. \A u \in Uris : \A k \in published[u] : withdrawnAt[u][k] = Never
  BY JwksFacts DEF JwksInit
<1>3. Dated
  BY <1>1, <1>2 DEF Dated
<1>4. \A t \in Threads : jwksPc[t] = "idle"
  BY DEF JwksInit
<1>5. client = NoClient
  BY DEF JwksInit
<1> QED
  BY <1>3, <1>4, <1>5 DEF Aged, Looked, Kept, Taken

(* The ages are kept always. *)
LEMMA AgedAlways == JwksSpec => [](JwksTypeOK /\ Aged)
<1>1. JwksInit => JwksTypeOK /\ Aged
  BY JwksInitTypeOK, AgedInit
<1>2. JwksTypeOK /\ Aged /\ [JwksNext]_jwksVars => (JwksTypeOK /\ Aged)'
  BY JwksNextTypeOK, AgedStays
<1> QED
  BY <1>1, <1>2, PTL DEF JwksSpec

(* No SET is verified with a key withdrawn longer than the TTL ago, for    *)
(* any number of threads, URIs, rotations and registrations.               *)
THEOREM WithdrawnKeyDiesHolds == JwksSpec => WithdrawnKeyDies
<1>1. ASSUME JwksTypeOK, Aged, NEW t \in Threads, Resolve(t)
      PROVE  jwksNow <= withdrawnAt[held[t].uri][kid[t]] + Ttl
  <2>1. held[t] \in Client /\ kid[t] \in Keys /\ Fresh(held[t], jwksNow - Ttl)
    BY <1>1 DEF Resolve, JwksTypeOK, Aged, Taken
  <2>2. held[t].uri \in Uris /\ withdrawnAt[held[t].uri][kid[t]] \in Int
    BY <1>1, <2>1, JwksFacts, Times
  <2>3. CASE Knows(held[t], kid[t])
    BY <1>1, <2>1, <2>2, <2>3, Times DEF Fresh
  <2>4. CASE kid[t] \in Serves(held[t])
    <3>1. withdrawnAt[held[t].uri][kid[t]] = Never
      BY <1>1, <2>2, <2>4 DEF Serves, Aged, Dated
    <3> QED
      BY <1>1, <3>1, Times, JwksFacts
  <2> QED
    BY <1>1, <2>3, <2>4 DEF Resolve
<1>2. JwksTypeOK /\ Aged /\ [JwksNext]_jwksVars =>
          [\A t \in Threads : Resolve(t) => jwksNow <= withdrawnAt[held[t].uri][kid[t]] + Ttl]_jwksVars
  BY <1>1
<1> QED
  BY <1>2, AgedAlways, PTL DEF JwksSpec, WithdrawnKeyDies

(* Nor with a key of a URI replaced longer than the TTL ago, even if a     *)
(* thread put a client for it back after the registration.                 *)
THEOREM OldRegistrationDiesHolds == JwksSpec => OldRegistrationDies
<1>1. ASSUME JwksTypeOK, Aged, NEW t \in Threads, Resolve(t), held[t].uri # uri
      PROVE  jwksNow <= registeredAt + Ttl
  <2>1. Fresh(held[t], jwksNow - Ttl)
    BY <1>1 DEF Resolve, Aged, Taken
  <2> QED
    BY <1>1, <2>1, Times DEF Fresh
<1>2. JwksTypeOK /\ Aged /\ [JwksNext]_jwksVars =>
          [\A t \in Threads : Resolve(t) /\ held[t].uri # uri => jwksNow <= registeredAt + Ttl]_jwksVars
  BY <1>1
<1> QED
  BY <1>2, AgedAlways, PTL DEF JwksSpec, OldRegistrationDies

-----------------------------------------------------------------------------
(* What stands between a call and its key, while nothing excuses it: the   *)
(* key is served, the URI read is the one registered, the client it has    *)
(* put is there, and in its second attempt every client is of that URI.    *)
Unhindered(t) ==
    /\ uri # NoUri /\ reachable = TRUE /\ kid[t] \in published[uri]
    /\ jwksPc[t] \in {"client", "create", "take"} => found[t] = uri
    /\ jwksPc[t] = "take" => client # NoClient
    /\ retry[t] = TRUE /\ jwksPc[t] \in {"uri", "client", "create", "take"} =>
          client = NoClient \/ client.uri = uri
    /\ retry[t] = TRUE /\ jwksPc[t] = "resolve" => held[t].uri = uri

Answered ==
    \A t \in Threads :
        IF jwksPc[t] = "idle" THEN retry[t] = FALSE ELSE excused[t] = FALSE => Unhindered(t)

(* A step of a thread: what it does to itself, and to the client of all.   *)
LEMMA ThreadAnswers ==
  ASSUME JwksTypeOK, Answered, NEW t \in Threads,
         UNCHANGED <<published, reachable, uri>>,
         \A u \in Threads \ {t} : UNCHANGED <<jwksPc[u], kid[u], found[u], retry[u]>> /\ Refreshed(held'[u], held[u]),
         \A u \in Threads \ {t} : jwksPc[u] # "idle" /\ excused'[u] = FALSE =>
             /\ excused[u] = FALSE
             /\ \/ Refreshed(client', client)
                \/ client' \in Client /\ client'.uri = uri,
         IF jwksPc'[t] = "idle" THEN retry'[t] = FALSE ELSE excused'[t] = FALSE => Unhindered(t)'
  PROVE  Answered'
<1> SUFFICES ASSUME NEW u \in Threads \ {t}, jwksPc[u] # "idle", excused'[u] = FALSE PROVE Unhindered(u)'
  BY DEF Answered
<1>1. excused[u] = FALSE /\ Unhindered(u)
  BY DEF Answered
<1>2. /\ client' = NoClient => client = NoClient
      /\ client' = NoClient \/ client'.uri = client.uri \/ client'.uri = uri
      /\ client = NoClient => client' = NoClient \/ client'.uri = uri
  BY JwksFacts DEF Refreshed
<1>3. held'[u].uri = held[u].uri
  BY DEF Refreshed
<1> QED
  BY <1>1, <1>2, <1>3 DEF Unhindered

(* Every step keeps that. *)
LEMMA AnsweredStays ==
  ASSUME JwksTypeOK, Answered, [JwksNext]_jwksVars
  PROVE  Answered'
<1> USE DEF Goto, jwksEndpoint, manager
<1>1. \A c : Refreshed(c, c)
  BY DEF Refreshed
<1>2. \A t \in Threads : excused[t] \in BOOLEAN /\ retry[t] \in BOOLEAN
  BY DEF JwksTypeOK
<1>3. ASSUME NEW S, Excuse(S), NEW t \in Threads, jwksPc[t] # "idle", excused'[t] = FALSE
      PROVE  excused[t] = FALSE /\ t \notin S
  <2>1. excused'[t] = (excused[t] \/ (t \in S /\ jwksPc[t] # "idle"))
    BY <1>3 DEF Excuse
  <2> QED
    BY <1>2, <1>3, <2>1
<1>4. ASSUME NEW t \in Threads, NEW k \in Keys, SigningKeyFor(t, k) PROVE Answered'
  <2>1. ASSUME excused'[t] = FALSE PROVE uri # NoUri /\ reachable = TRUE /\ k \in published[uri]
    <3>1. excused'[t] = (uri = NoUri \/ ~reachable \/ k \notin published[uri])
      BY <1>4 DEF SigningKeyFor, JwksTypeOK
    <3>2. reachable \in BOOLEAN
      BY DEF JwksTypeOK
    <3> QED
      BY <2>1, <3>1, <3>2
  <2>2. /\ jwksPc[t] = "idle" /\ jwksPc'[t] = "uri" /\ kid'[t] = k
        /\ UNCHANGED <<published, reachable, uri, client, found, held, retry>>
        /\ \A u \in Threads \ {t} : UNCHANGED <<jwksPc[u], kid[u], excused[u]>>
    BY <1>4 DEF SigningKeyFor, JwksTypeOK
  <2>3. excused'[t] = FALSE => Unhindered(t)'
    BY <2>1, <2>2 DEF Answered, Unhindered
  <2> QED
    BY <1>1, <2>2, <2>3, ThreadAnswers
<1>5. ASSUME NEW t \in Threads, ReadUri(t) PROVE Answered'
  <2>1. /\ jwksPc[t] = "uri" /\ jwksPc'[t] = "client" /\ found'[t] = uri
        /\ UNCHANGED <<published, reachable, uri, client, kid, retry, excused>>
    BY <1>5 DEF ReadUri, JwksTypeOK
  <2>2. excused'[t] = FALSE => Unhindered(t)'
    BY <2>1 DEF Answered, Unhindered
  <2> QED
    BY <1>1, <1>5, <2>1, <2>2, ThreadAnswers DEF ReadUri, JwksTypeOK
<1>6. ASSUME NEW t \in Threads, NotRegistered(t) PROVE Answered'
  <2>1. EndCall(t) /\ UNCHANGED <<published, reachable, uri, client, kid>>
    BY <1>6 DEF NotRegistered
  <2>2. /\ jwksPc'[t] = "idle" /\ retry'[t] = FALSE
        /\ \A u \in Threads \ {t} : UNCHANGED <<jwksPc[u], found[u], held[u], retry[u], excused[u]>>
    BY <2>1, EndTypeOK
  <2> QED
    BY <1>1, <2>1, <2>2, ThreadAnswers
<1>7. ASSUME NEW t \in Threads, UseClient(t) PROVE Answered'
  <2>1. /\ jwksPc[t] = "client" /\ jwksPc'[t] = "resolve" /\ held'[t] = client /\ client # NoClient
        /\ UNCHANGED <<published, reachable, uri, client, kid, found, retry, excused>>
    BY <1>7 DEF UseClient, JwksTypeOK
  <2>2. excused'[t] = FALSE => Unhindered(t)'
    BY <2>1 DEF Answered, Unhindered
  <2> QED
    BY <1>1, <1>7, <2>1, <2>2, ThreadAnswers DEF UseClient, JwksTypeOK
<1>8. ASSUME NEW t \in Threads, BuildClient(t) PROVE Answered'
  <2>1. /\ jwksPc[t] = "client" /\ jwksPc'[t] = "create"
        /\ UNCHANGED <<published, reachable, uri, client, kid, found, held, retry, excused>>
    BY <1>8 DEF BuildClient, JwksTypeOK
  <2>2. excused'[t] = FALSE => Unhindered(t)'
    BY <2>1 DEF Answered, Unhindered
  <2> QED
    BY <1>1, <1>8, <2>1, <2>2, ThreadAnswers DEF BuildClient, JwksTypeOK
<1>9. ASSUME NEW t \in Threads, CreateClient(t) PROVE Answered'
  <2>1. /\ jwksPc[t] = "create" /\ jwksPc'[t] = "take" /\ client' = NewClient(found[t])
        /\ UNCHANGED <<published, reachable, uri, kid, found, held, retry>>
        /\ IF found[t] # uri THEN Excuse(Threads \ {t}) ELSE UNCHANGED excused
    BY <1>9 DEF CreateClient, JwksTypeOK
  <2>2. client' \in Client /\ client'.uri = found[t] /\ client' # NoClient
    BY <2>1, JwksFacts DEF JwksTypeOK
  <2>3. \A u \in Threads : jwksPc[u] # "idle" /\ excused'[u] = FALSE =>
            excused[u] = FALSE /\ (u = t \/ found[t] = uri)
    BY <1>3, <2>1
  <2>4. excused'[t] = FALSE => Unhindered(t)'
    BY <2>1, <2>2, <2>3 DEF Answered, Unhindered
  <2>5. \A u \in Threads \ {t} : jwksPc[u] # "idle" /\ excused'[u] = FALSE => excused[u] = FALSE /\ client'.uri = uri
    BY <2>2, <2>3
  <2>6. \A u \in Threads \ {t} : jwksPc'[u] = jwksPc[u]
    BY <1>9 DEF CreateClient, JwksTypeOK
  <2> QED
    BY <1>1, <2>1, <2>2, <2>4, <2>5, <2>6, ThreadAnswers
<1>10. ASSUME NEW t \in Threads, TakeClient(t) PROVE Answered'
  <2>1. /\ jwksPc[t] = "take" /\ jwksPc'[t] = "resolve" /\ held'[t] = client /\ client # NoClient
        /\ UNCHANGED <<published, reachable, uri, client, kid, found, retry, excused>>
    BY <1>10 DEF TakeClient, JwksTypeOK
  <2>2. excused'[t] = FALSE => Unhindered(t)'
    BY <2>1 DEF Answered, Unhindered
  <2> QED
    BY <1>1, <1>10, <2>1, <2>2, ThreadAnswers DEF TakeClient, JwksTypeOK
<1>11. ASSUME NEW t \in Threads, ClientGone(t) PROVE Answered'
  <2>1. EndCall(t) /\ UNCHANGED <<published, reachable, uri, client, kid>>
    BY <1>11 DEF ClientGone
  <2>2. /\ jwksPc'[t] = "idle" /\ retry'[t] = FALSE
        /\ \A u \in Threads \ {t} : UNCHANGED <<jwksPc[u], found[u], held[u], retry[u], excused[u]>>
    BY <2>1, EndTypeOK
  <2> QED
    BY <1>1, <2>1, <2>2, ThreadAnswers
<1>12. ASSUME NEW t \in Threads, Resolve(t) PROVE Answered'
  <2>1. /\ jwksPc[t] = "resolve" /\ Update(t) /\ jwksPc'[t] = "idle"
        /\ UNCHANGED <<published, reachable, uri, kid>> /\ retry'[t] = FALSE
        /\ \A u \in Threads \ {t} : UNCHANGED <<jwksPc[u], found[u], retry[u], excused[u]>>
    BY <1>12 DEF Resolve, JwksTypeOK
  <2> QED
    BY <2>1, ThreadAnswers, UpdateRefreshes
<1>13. ASSUME NEW t \in Threads, FailOnce(t) PROVE Answered'
  <2>1. /\ jwksPc[t] = "resolve" /\ Update(t) /\ jwksPc'[t] = "pop"
        /\ UNCHANGED <<published, reachable, uri, kid, found, retry, excused>>
        /\ \A u \in Threads \ {t} : jwksPc'[u] = jwksPc[u]
    BY <1>13 DEF FailOnce, Unresolvable, JwksTypeOK
  <2>2. excused'[t] = FALSE => Unhindered(t)'
    BY <2>1 DEF Answered, Unhindered
  <2> QED
    BY <2>1, <2>2, ThreadAnswers, UpdateRefreshes
<1>14. ASSUME NEW t \in Threads, PopClient(t) PROVE Answered'
  <2>1. /\ jwksPc[t] = "pop" /\ jwksPc'[t] = "uri" /\ client' = NoClient
        /\ UNCHANGED <<published, reachable, uri, kid, found, held>>
        /\ \A u \in Threads \ {t} : UNCHANGED <<jwksPc[u], retry[u]>>
        /\ Excuse(Threads \ {t})
    BY <1>14 DEF PopClient, JwksTypeOK
  <2>2. \A u \in Threads : jwksPc[u] # "idle" /\ excused'[u] = FALSE => excused[u] = FALSE /\ u = t
    BY <1>3, <2>1
  <2>3. excused'[t] = FALSE => Unhindered(t)'
    BY <2>1, <2>2 DEF Answered, Unhindered, NoClient
  <2> QED
    BY <1>1, <2>1, <2>2, <2>3, ThreadAnswers
<1>15. ASSUME NEW t \in Threads, FailTwice(t) PROVE Answered'
  <2>1. held[t] \in Client /\ kid[t] \in Keys
    BY <1>15 DEF FailTwice, Unresolvable, JwksTypeOK
  <2>2. Refreshed(client', client)
    BY <1>1, <1>15, <2>1, FetchedRefreshes DEF FailTwice
  <2>3. EndCall(t)
    BY <1>15 DEF FailTwice
  <2>4. /\ jwksPc'[t] = "idle" /\ retry'[t] = FALSE
        /\ \A u \in Threads \ {t} : UNCHANGED <<jwksPc[u], found[u], held[u], retry[u], excused[u]>>
    BY <2>3, EndTypeOK
  <2>5. UNCHANGED <<published, reachable, uri, kid>>
    BY <1>15 DEF FailTwice
  <2> QED
    BY <1>1, <2>2, <2>4, <2>5, ThreadAnswers
<1>16. ASSUME \A t \in Threads : jwksPc[t] # "idle" /\ excused'[t] = FALSE =>
                  excused[t] = FALSE /\ (kid[t] \in published[uri] => kid[t] \in published'[uri]),
              UNCHANGED <<uri, client, jwksPc, kid, found, held, retry>>, reachable' = reachable \/ reachable' = TRUE
       PROVE  Answered'
  BY <1>16 DEF Answered, Unhindered
<1>17. ASSUME Excuse(Threads), UNCHANGED <<jwksPc, retry>> PROVE Answered'
  BY <1>3, <1>17 DEF Answered
<1>18. ASSUME NEW u \in Uris, NEW k \in Keys, Publish(u, k) PROVE Answered'
  <2>1. /\ published' = [published EXCEPT ![u] = published[u] \cup {k}]
        /\ UNCHANGED <<reachable, uri, client, jwksPc, kid, found, held, retry, excused>>
    BY <1>18 DEF Publish
  <2>2. \A v \in Uris : published[v] \subseteq published'[v]
    BY <2>1 DEF JwksTypeOK
  <2>3. uri = NoUri \/ uri \in Uris
    BY DEF JwksTypeOK
  <2>4. ASSUME NEW t \in Threads, jwksPc[t] # "idle", excused[t] = FALSE PROVE uri \in Uris
    BY <2>3, <2>4 DEF Answered, Unhindered
  <2> QED
    BY <1>16, <2>1, <2>2, <2>4
<1>19. ASSUME NEW u \in Uris, NEW k \in Keys, Withdraw(u, k) PROVE Answered'
  <2>1. /\ published' = [published EXCEPT ![u] = published[u] \ {k}]
        /\ Excuse({t \in Threads : kid[t] = k})
        /\ UNCHANGED <<reachable, uri, client, jwksPc, kid, found, held, retry>>
    BY <1>19 DEF Withdraw
  <2>2. \A v \in Uris : published[v] \subseteq published'[v] \cup {k}
    BY <2>1 DEF JwksTypeOK
  <2>3. ASSUME NEW t \in Threads, jwksPc[t] # "idle", excused'[t] = FALSE
        PROVE  excused[t] = FALSE /\ kid[t] # k
    <3>1. excused[t] = FALSE /\ t \notin {v \in Threads : kid[v] = k}
      BY <1>3, <2>1, <2>3
    <3> QED
      BY <3>1
  <2>4. uri = NoUri \/ uri \in Uris
    BY DEF JwksTypeOK
  <2>5. ASSUME NEW t \in Threads, jwksPc[t] # "idle", excused'[t] = FALSE PROVE uri \in Uris
    BY <2>3, <2>4, <2>5 DEF Answered, Unhindered
  <2> QED
    BY <1>16, <2>1, <2>2, <2>3, <2>5
<1>20. CASE ComeUp \/ JwksTick \/ UNCHANGED jwksVars
  BY <1>16, <1>20 DEF ComeUp, JwksTick, jwksVars
<1> QED
  BY <1>4, <1>5, <1>6, <1>7, <1>8, <1>9, <1>10, <1>11, <1>12, <1>13, <1>14, <1>15, <1>17, <1>18, <1>19, <1>20
  DEF JwksNext, RegisterIssuer, GoDown

(* Nothing hinders a call that is not excused, ever. *)
LEMMA AnsweredAlways == JwksSpec => [](JwksTypeOK /\ Answered)
<1>1. JwksInit => JwksTypeOK /\ Answered
  BY JwksInitTypeOK DEF JwksInit, Answered
<1>2. JwksTypeOK /\ Answered /\ [JwksNext]_jwksVars => (JwksTypeOK /\ Answered)'
  BY JwksNextTypeOK, AnsweredStays
<1> QED
  BY <1>1, <1>2, PTL DEF JwksSpec

(* A call ends with its key unless something excuses it.                   *)
LEMMA EndsWithKey ==
  ASSUME JwksTypeOK, Answered, JwksNext, NEW t \in Threads,
         jwksPc[t] # "idle", jwksPc'[t] = "idle", excused[t] = FALSE
  PROVE  Resolve(t)
<1> USE DEF Goto
<1>1. Unhindered(t)
  BY DEF Answered
<1>2. ASSUME NEW u \in Threads, NEW k \in Keys, SigningKeyFor(u, k) PROVE FALSE
  BY <1>2 DEF SigningKeyFor, JwksTypeOK
<1>3. ASSUME NEW u \in Threads,
             \/ ReadUri(u) \/ UseClient(u) \/ BuildClient(u) \/ CreateClient(u)
             \/ TakeClient(u) \/ FailOnce(u) \/ PopClient(u)
      PROVE  FALSE
  BY <1>3 DEF ReadUri, UseClient, BuildClient, CreateClient, TakeClient, FailOnce,
              PopClient, JwksTypeOK
<1>4. ASSUME NEW u \in Threads, NotRegistered(u) \/ ClientGone(u) PROVE FALSE
  <2>1. u = t
    BY <1>4, EndTypeOK DEF NotRegistered, ClientGone
  <2> QED
    BY <1>1, <1>4, <2>1 DEF NotRegistered, ClientGone, Unhindered
<1>5. ASSUME NEW u \in Threads, FailTwice(u) PROVE FALSE
  <2>1. u = t
    BY <1>5, EndTypeOK DEF FailTwice
  <2>2. jwksPc[t] = "resolve" /\ retry[t] = TRUE /\ kid[t] \notin Serves(held[t])
    BY <1>5, <2>1 DEF FailTwice, Unresolvable, JwksTypeOK
  <2> QED
    BY <1>1, <2>2 DEF Unhindered, Serves
<1>6. ASSUME NEW u \in Threads, Resolve(u) PROVE u = t
  BY <1>6 DEF Resolve, JwksTypeOK
<1>7. ASSUME jwksPc' = jwksPc PROVE FALSE
  BY <1>7
<1> QED
  BY <1>2, <1>3, <1>4, <1>5, <1>6, <1>7
  DEF JwksNext, RegisterIssuer, Publish, Withdraw, GoDown, ComeUp, JwksTick

(* A key that its transmitter serves during the whole call is resolved,    *)
(* whatever stale client there is, unless the issuer is registered anew or *)
(* another thread interferes meanwhile.                                    *)
THEOREM ServedKeyResolvesHolds == JwksSpec => ServedKeyResolves
<1>1. JwksTypeOK /\ Answered /\ [JwksNext]_jwksVars =>
          [\A t \in Threads : jwksPc[t] # "idle" /\ jwksPc'[t] = "idle" => Resolve(t) \/ excused[t]]_jwksVars
  <2> SUFFICES ASSUME JwksTypeOK, Answered, JwksNext, NEW t \in Threads, jwksPc[t] # "idle", jwksPc'[t] = "idle",
                      ~excused[t]
               PROVE  Resolve(t)
    OBVIOUS
  <2>1. excused[t] = FALSE
    BY DEF JwksTypeOK
  <2> QED
    BY <2>1, EndsWithKey
<1> QED
  BY <1>1, AnsweredAlways, PTL DEF JwksSpec, ServedKeyResolves

-----------------------------------------------------------------------------
(* The admin API: Onboarding.                                              *)

(* The placeholders are told from what they stand for. *)
LEMMA AdminFacts ==
    /\ \A c \in Config : c # NoConfig
    /\ \A s \in Stream : s # NoStream /\ s.id # NoId
    /\ NoRequest \in Request
    /\ \A pod \in Pods : [NoRequest EXCEPT !.pod = pod] \in Request
    /\ MaxStreams \in Nat /\ 0 \in 0 .. MaxStreams
<1>1. MaxStreams \in Nat
  BY OnboardingAssumption
<1>2. 0 \in 0 .. MaxStreams
  BY <1>1
<1>3. \A c \in Config : c # NoConfig
  BY OnboardingAssumption DEF Config, NoConfig
<1>4. \A s \in Stream : s # NoStream /\ s.id # NoId
  BY OnboardingAssumption DEF Stream, NoStream, NoId
<1>5. /\ NoRequest \in Request
      /\ \A pod \in Pods : [NoRequest EXCEPT !.pod = pod] \in Request
  BY DEF NoRequest, Request, Asked
<1> QED
  BY <1>1, <1>2, <1>3, <1>4, <1>5, OnboardingAssumption

(* At first the types are kept. *)
LEMMA AdminInitTypeOK == ASSUME AdminInit PROVE AdminTypeOK
<1>1. MaxStreams \in Nat /\ NoRequest \in Request
  BY AdminFacts
<1>2. stream.id <= created /\ created \in 0 .. MaxStreams
  BY <1>1 DEF AdminInit, NoStream, NoId
<1> QED
  BY <1>1, <1>2 DEF AdminInit, AdminTypeOK, AdminSteps

(* A handler that answers leaves nothing of its request. *)
LEMMA AnswerTypeOK ==
  ASSUME AdminTypeOK, NEW h \in Handlers, Answer(h)
  PROVE  /\ adminPc' \in [Handlers -> AdminSteps]
         /\ req' \in [Handlers -> Request]
         /\ config' \in [Handlers -> Config \cup {NoConfig}]
         /\ \A g \in Handlers : adminPc'[g] \in {"create", "close", "keys"} => config'[g] # NoConfig
<1>1. NoRequest \in Request
  BY AdminFacts
<1> QED
  BY <1>1 DEF AdminTypeOK, Answer, AdminGoto, AdminSteps

(* The stream created has the next id. *)
LEMMA NewStreamTypeOK ==
  ASSUME AdminTypeOK, NEW aud \in Audiences, NEW tells \in BOOLEAN,
         NewStream(aud, tells)
  PROVE  /\ stream' \in Stream
         /\ created' \in 0 .. MaxStreams /\ created' = created + 1
         /\ stream'.id = created' /\ created' # NoId
         /\ stream' = [id |-> created + 1, aud |-> aud, tells |-> tells]
<1>1. MaxStreams \in Nat
  BY AdminFacts
<1>2. created \in 0 .. MaxStreams /\ created < MaxStreams /\ created' = created + 1
  BY DEF AdminTypeOK, NewStream
<1>3. created + 1 \in 1 .. MaxStreams /\ created' \in 0 .. MaxStreams
  BY <1>1, <1>2
<1>4. stream' = [id |-> created + 1, aud |-> aud, tells |-> tells]
  BY DEF NewStream
<1> QED
  BY <1>2, <1>3, <1>4 DEF Stream, NoId

(* Every step keeps the types. *)
LEMMA AdminNextTypeOK ==
  ASSUME AdminTypeOK, [AdminNext]_adminVars
  PROVE  AdminTypeOK'
<1> USE AdminFacts DEF AdminGoto
<1>1. ASSUME NEW h \in Handlers, NEW p \in Pods, NEW tls \in BOOLEAN,
             NEW aud \in Asked, Discover(h, p, aud, tls)
      PROVE  AdminTypeOK'
  <2>1. [pod |-> p, aud |-> aud, tls |-> tls] \in Request
    BY DEF Request
  <2> QED
    BY <1>1, <2>1 DEF Discover, AdminTypeOK, AdminSteps
<1>2. ASSUME NEW h \in Handlers, NEW p \in Pods, NEW tls \in BOOLEAN, NEW aud \in Audiences,
             RegisterManually(h, p, aud, tls)
      PROVE  AdminTypeOK'
  <2>1. /\ [id |-> NoId, aud |-> aud, tls |-> tls, asked |-> aud] \in Config
        /\ [NoRequest EXCEPT !.pod = p] \in Request
    BY DEF Config, NoId, Asked
  <2>2. config'[h] \in Config
    BY <1>2, <2>1 DEF RegisterManually, AdminTypeOK
  <2> QED
    BY <1>2, <2>1, <2>2 DEF RegisterManually, AdminTypeOK, AdminSteps
<1>3. ASSUME NEW h \in Handlers, FetchFails(h) PROVE AdminTypeOK'
  BY <1>3, AnswerTypeOK DEF FetchFails, AdminTypeOK
<1>5. ASSUME NEW h \in Handlers, FetchSucceeds(h) PROVE AdminTypeOK'
  <2> DEFINE aud == Guess(req[h].aud)
             new == [id |-> NoId, tls |-> req[h].tls, asked |-> req[h].aud, aud |-> aud]
             left == [NoRequest EXCEPT !.pod = req[h].pod]
  <2>1. req[h] \in Request
    BY DEF AdminTypeOK
  <2>2. aud \in Audiences
    BY OnboardingAssumption DEF Guess
  <2>3. new \in Config
    BY <2>1, <2>2 DEF Config, Request, NoId
  <2>6. left \in Request
    BY <2>1 DEF Request, NoRequest
  <2>4. config' = [config EXCEPT ![h] = new] /\ req' = [req EXCEPT ![h] = left]
    BY <1>5 DEF FetchSucceeds
  <2> HIDE DEF new, left
  <2> QED
    BY <1>5, <2>3, <2>4, <2>6 DEF FetchSucceeds, AdminTypeOK, AdminSteps
<1>6. ASSUME NEW h \in Handlers, CreateRefused(h) PROVE AdminTypeOK'
  BY <1>6, AnswerTypeOK DEF CreateRefused, AdminTypeOK
<1>7. ASSUME NEW h \in Handlers, RegisterDiscovered(h) PROVE AdminTypeOK'
  BY <1>7 DEF RegisterDiscovered, AdminTypeOK, AdminSteps
<1>8. ASSUME NEW h \in Handlers, RegisterInJwks(h) PROVE AdminTypeOK'
  <2>1. Answer(h)
    BY <1>8 DEF RegisterInJwks
  <2>2. Policy(config[h].tls) \in {"none", "verify", "trust"}
    BY DEF Policy
  <2>3. policies' \in [Pods -> {"none", "verify", "trust"}]
    BY <1>8, <2>2 DEF RegisterInJwks, AdminTypeOK
  <2> QED
    BY <1>8, <2>1, <2>3, AnswerTypeOK DEF RegisterInJwks, AdminTypeOK
<1>9. ASSUME NEW h \in Handlers, NEW aud \in Audiences, NEW tells \in BOOLEAN, CreateStream(h, aud, tells)
      PROVE  AdminTypeOK'
  <2>1. /\ stream' \in Stream /\ created' \in 0 .. MaxStreams /\ created' = created + 1
        /\ stream'.id = created'
    BY <1>9, NewStreamTypeOK DEF CreateStream
  <2> DEFINE new == [config[h] EXCEPT !.id = created + 1, !.aud = Expected(h, aud, tells)]
  <2>2. config[h] \in Config
    BY <1>9 DEF CreateStream, AdminTypeOK
  <2>3. new \in Config
    BY <2>1, <2>2 DEF Config, Expected
  <2>4. config' = [config EXCEPT ![h] = new]
    BY <1>9, <2>2 DEF CreateStream, AdminTypeOK
  <2> HIDE DEF new
  <2>5. created' \in Int /\ stream'.id <= created'
    BY <2>1
  <2>6. adminPc' = [adminPc EXCEPT ![h] = "close"] /\ UNCHANGED <<registries, policies, req, stranded>>
    BY <1>9 DEF CreateStream
  <2> QED
    BY <2>1, <2>3, <2>4, <2>5, <2>6 DEF AdminTypeOK, AdminSteps
<1>10. ASSUME NEW h \in Handlers, NEW aud \in Audiences, NEW tells \in BOOLEAN, CreateLost(h, aud, tells)
       PROVE  AdminTypeOK'
  <2>1. /\ stream' \in Stream /\ created' \in 0 .. MaxStreams /\ created' = created + 1
        /\ stream'.id = created'
    BY <1>10, NewStreamTypeOK DEF CreateLost
  <2>2. created' \in Int
    BY <2>1
  <2> QED
    BY <1>10, <2>1, <2>2, AnswerTypeOK DEF CreateLost, AdminTypeOK
<1>11. ASSUME NEW p \in Pods, Crash(p) PROVE AdminTypeOK'
  <2>1. stranded' \in BOOLEAN
    BY <1>11 DEF Crash
  <2> QED
    BY <1>11, <2>1 DEF Crash, AdminTypeOK, AdminSteps
<1>12. CASE DeleteStream
  <2>1. NoStream.id <= created /\ created \in 0 .. MaxStreams
    BY DEF NoStream, NoId, AdminTypeOK
  <2> QED
    BY <1>12, <2>1 DEF DeleteStream, AdminTypeOK
<1>13. CASE UNCHANGED adminVars
  BY <1>13 DEF adminVars, AdminTypeOK
<1> QED
  BY <1>1, <1>2, <1>3, <1>5, <1>6, <1>7, <1>8, <1>9, <1>10, <1>11, <1>12, <1>13 DEF AdminNext

(* The variables of the admin API keep to their types. *)
THEOREM AdminTyping == AdminSpec => []AdminTypeOK
<1>1. AdminInit => AdminTypeOK
  BY AdminInitTypeOK
<1>2. AdminTypeOK /\ [AdminNext]_adminVars => AdminTypeOK'
  BY AdminNextTypeOK
<1> QED
  BY <1>1, <1>2, PTL DEF AdminSpec

-----------------------------------------------------------------------------
(* A handler at work has a pod; the one between its two calls is alone in  *)
(* its pod, whose registry has what it is about to give the JWKS manager.  *)
AtWork == \A h \in Handlers : adminPc[h] # "idle" => req[h].pod \in Pods

Between(h) == adminPc[h] = "keys"

OneBetween ==
    \A h, g \in Handlers : Between(h) /\ Between(g) /\ req[h].pod = req[g].pod => h = g

Pending == \A h \in Handlers : Between(h) => registries[req[h].pod] = config[h]

(* Every step keeps that. *)
LEMMA AtWorkStays ==
  ASSUME AdminTypeOK, AtWork, [AdminNext]_adminVars
  PROVE  AtWork'
<1> USE DEF AtWork, AdminTypeOK, AdminGoto, AdminSteps
<1>1. ASSUME NEW h \in Handlers, NEW p \in Pods, NEW tls \in BOOLEAN,
             NEW aud \in Asked, Discover(h, p, aud, tls)
      PROVE  AtWork'
  BY <1>1 DEF Discover
<1>2. ASSUME NEW h \in Handlers, NEW p \in Pods, NEW tls \in BOOLEAN, NEW aud \in Audiences,
             RegisterManually(h, p, aud, tls)
      PROVE  AtWork'
  <2>1. req'[h].pod = p /\ \A g \in Handlers \ {h} : req'[g] = req[g] /\ adminPc'[g] = adminPc[g]
    BY <1>2 DEF RegisterManually, NoRequest, Request
  <2> QED
    BY <2>1
<1>3. ASSUME NEW h \in Handlers, Answer(h) PROVE AtWork'
  BY <1>3 DEF Answer
<1>4. ASSUME NEW h \in Handlers, FetchSucceeds(h) PROVE AtWork'
  <2>1. adminPc[h] = "fetch" /\ req'[h].pod = req[h].pod
    BY <1>4 DEF FetchSucceeds, NoRequest, Request
  <2>2. \A g \in Handlers \ {h} : req'[g] = req[g] /\ adminPc'[g] = adminPc[g]
    BY <1>4 DEF FetchSucceeds
  <2> QED
    BY <2>1, <2>2
<1>5. ASSUME NEW h \in Handlers, RegisterDiscovered(h) PROVE AtWork'
  BY <1>5 DEF RegisterDiscovered
<1>6. ASSUME NEW h \in Handlers, NEW aud \in Audiences, NEW tells \in BOOLEAN, CreateStream(h, aud, tells)
      PROVE  AtWork'
  BY <1>6 DEF CreateStream
<1>7. ASSUME NEW p \in Pods, Crash(p) PROVE AtWork'
  BY <1>7 DEF Crash
<1>8. CASE DeleteStream \/ UNCHANGED adminVars
  BY <1>8 DEF DeleteStream, adminVars
<1> QED
  BY <1>1, <1>2, <1>3, <1>4, <1>5, <1>6, <1>7, <1>8
  DEF AdminNext, FetchFails, CreateRefused, CreateLost, RegisterInJwks

(* A step that neither begins nor ends the time between the two calls. *)
LEMMA BetweenStays ==
  ASSUME OneBetween, Pending, RegistryAndKeysAgree, UNCHANGED <<registries, policies>>,
         \A h \in Handlers : Between(h)' = Between(h) /\ (Between(h) => UNCHANGED <<req[h], config[h]>>)
  PROVE  OneBetween' /\ Pending' /\ RegistryAndKeysAgree'
<1>1. \A h \in Handlers : Between(h)' => Between(h) /\ req'[h] = req[h] /\ config'[h] = config[h]
  OBVIOUS
<1>2. OneBetween' /\ Pending'
  BY <1>1 DEF OneBetween, Pending
<1>3. \A p \in Pods : LoopFree(p)' => LoopFree(p)
  BY DEF LoopFree, Between
<1>4. RegistryAndKeysAgree'
  BY <1>3 DEF RegistryAndKeysAgree, Policy, NoConfig
<1> QED
  BY <1>2, <1>4

(* Every step keeps the agreement. *)
LEMMA AgreementStays ==
  ASSUME AdminTypeOK, AtWork, OneBetween, Pending, RegistryAndKeysAgree,
         [AdminNext]_adminVars
  PROVE  OneBetween' /\ Pending' /\ RegistryAndKeysAgree'
<1> DEFINE Goal == OneBetween' /\ Pending' /\ RegistryAndKeysAgree'
<1> HIDE DEF Goal
<1>1. ASSUME NEW h \in Handlers, ~Between(h), ~Between(h)', UNCHANGED <<registries, policies>>,
             \A g \in Handlers \ {h} : UNCHANGED <<adminPc[g], req[g], config[g]>>
      PROVE  Goal
  <2>1. \A g \in Handlers : Between(g)' = Between(g) /\ (Between(g) => UNCHANGED <<req[g], config[g]>>)
    BY <1>1 DEF Between
  <2> QED
    BY <1>1, <2>1, BetweenStays DEF Goal
<1>2. ASSUME NEW h \in Handlers, NEW p \in Pods, LoopFree(p), Between(h)', req'[h].pod = p,
             registries' = [registries EXCEPT ![p] = config'[h]], UNCHANGED policies,
             ~Between(h),
             \A g \in Handlers \ {h} : UNCHANGED <<adminPc[g], req[g], config[g]>>
      PROVE  Goal
  <2>1. /\ registries'[p] = config'[h]
        /\ \A q \in Pods \ {p} : registries'[q] = registries[q]
    BY <1>2 DEF AdminTypeOK
  <2>2. \A g \in Handlers \ {h} : Between(g)' => Between(g) /\ req'[g].pod = req[g].pod /\ req[g].pod \in Pods \ {p}
    BY <1>2 DEF Between, LoopFree, AtWork
  <2>3. OneBetween'
    BY <1>2, <2>2 DEF OneBetween
  <2>4. \A g \in Handlers \ {h} : Between(g)' => registries'[req'[g].pod] = config'[g]
    BY <1>2, <2>1, <2>2 DEF Pending
  <2>5. Pending'
    BY <1>2, <2>1, <2>4 DEF Pending
  <2>6. ~LoopFree(p)'
    BY <1>2 DEF LoopFree, Between
  <2>7. \A q \in Pods \ {p} : LoopFree(q)' => LoopFree(q)
    BY <1>2 DEF LoopFree, Between
  <2>8. RegistryAndKeysAgree'
    <3>1. \A q \in Pods : LoopFree(q)' => LoopFree(q) /\ registries'[q] = registries[q] /\ policies'[q] = policies[q]
      BY <1>2, <2>1, <2>6, <2>7
    <3> QED
      BY <3>1 DEF RegistryAndKeysAgree, Policy, NoConfig
  <2> QED
    BY <2>3, <2>5, <2>8 DEF Goal
<1>3. ASSUME NEW h \in Handlers, NEW p \in Pods, NEW tls \in BOOLEAN,
             NEW aud \in Asked, Discover(h, p, aud, tls)
      PROVE  Goal
  BY <1>1, <1>3 DEF Discover, AdminGoto, AdminTypeOK, Between
<1>4. ASSUME NEW h \in Handlers, NEW p \in Pods, NEW tls \in BOOLEAN, NEW aud \in Audiences,
             RegisterManually(h, p, aud, tls)
      PROVE  Goal
  <2>1. req'[h].pod = p
    BY <1>4 DEF RegisterManually, AdminTypeOK, NoRequest, Request
  <2> QED
    BY <1>2, <1>4, <2>1 DEF RegisterManually, AdminGoto, AdminTypeOK, Between
<1>5. ASSUME NEW h \in Handlers, Answer(h), ~Between(h), UNCHANGED <<registries, policies>> PROVE Goal
  BY <1>1, <1>5 DEF Answer, AdminGoto, AdminTypeOK, Between
<1>6. ASSUME NEW h \in Handlers, FetchSucceeds(h) PROVE Goal
  BY <1>1, <1>6 DEF FetchSucceeds, AdminGoto, AdminTypeOK, Between
<1>7. ASSUME NEW h \in Handlers, RegisterDiscovered(h) PROVE Goal
  <2>1. req[h].pod \in Pods /\ adminPc[h] = "close"
    BY <1>7 DEF RegisterDiscovered, AtWork
  <2> QED
    BY <1>2, <1>7, <2>1 DEF RegisterDiscovered, AdminGoto, AdminTypeOK, Between
<1>8. ASSUME NEW h \in Handlers, NEW aud \in Audiences, NEW tells \in BOOLEAN, CreateStream(h, aud, tells)
      PROVE  Goal
  BY <1>1, <1>8 DEF CreateStream, AdminGoto, AdminTypeOK, Between
<1>9. ASSUME NEW h \in Handlers, RegisterInJwks(h) PROVE Goal
  <2> DEFINE p == req[h].pod
  <2>1. Between(h) /\ p \in Pods
    BY <1>9 DEF RegisterInJwks, AtWork, Between
  <2>2. /\ policies'[p] = Policy(config[h].tls)
        /\ \A q \in Pods \ {p} : policies'[q] = policies[q]
        /\ registries' = registries
    BY <1>9, <2>1 DEF RegisterInJwks, AdminTypeOK
  <2>3. registries[p] = config[h] /\ config[h] # NoConfig
    BY <2>1 DEF Pending, Between, AdminTypeOK
  <2>4. /\ ~Between(h)'
        /\ \A g \in Handlers \ {h} : UNCHANGED <<adminPc[g], req[g], config[g]>>
    BY <1>9 DEF RegisterInJwks, Answer, AdminGoto, AdminTypeOK, Between
  <2>5. \A g \in Handlers : Between(g)' => Between(g) /\ g # h
    BY <2>4 DEF Between
  <2>6. OneBetween' /\ Pending'
    BY <2>2, <2>4, <2>5 DEF OneBetween, Pending
  <2>7. \A q \in Pods \ {p} : LoopFree(q)' => LoopFree(q)
    BY <2>4 DEF LoopFree, Between
  <2>8. RegistryAndKeysAgree'
    BY <2>2, <2>3, <2>7 DEF RegistryAndKeysAgree, Policy, NoConfig
  <2> QED
    BY <2>6, <2>8 DEF Goal
<1>10. ASSUME NEW p \in Pods, Crash(p) PROVE Goal
  <2>1. \A h \in Handlers : IF req[h].pod = p THEN ~Between(h)'
                            ELSE Between(h)' = Between(h) /\ UNCHANGED <<adminPc[h], req[h], config[h]>>
    BY <1>10 DEF Crash, Between
  <2>2. /\ registries'[p] = NoConfig /\ policies'[p] = "none"
        /\ \A q \in Pods \ {p} : registries'[q] = registries[q] /\ policies'[q] = policies[q]
    BY <1>10 DEF Crash, AdminTypeOK
  <2>3. \A h \in Handlers : Between(h)' => Between(h) /\ req'[h] = req[h] /\ config'[h] = config[h]
                                         /\ req[h].pod \in Pods \ {p}
    BY <2>1 DEF AtWork, Between
  <2>4. OneBetween' /\ Pending'
    BY <2>2, <2>3 DEF OneBetween, Pending
  <2>5. \A q \in Pods \ {p} : LoopFree(q)' => LoopFree(q)
    BY <2>1 DEF LoopFree, Between
  <2>6. RegistryAndKeysAgree'
    BY <2>2, <2>5 DEF RegistryAndKeysAgree, Policy, NoConfig
  <2> QED
    BY <2>4, <2>6 DEF Goal
<1>11. CASE DeleteStream \/ UNCHANGED adminVars
  BY <1>11, BetweenStays DEF DeleteStream, adminVars, Between, Goal
<1> QED
  <2>1. ASSUME NEW h \in Handlers, FetchFails(h) PROVE Goal
    BY <1>5, <2>1 DEF FetchFails, Between
  <2>2. ASSUME NEW h \in Handlers, FetchSucceeds(h) PROVE Goal
    BY <1>5, <1>6, <2>2 DEF FetchSucceeds, Between
  <2>3. ASSUME NEW h \in Handlers, CreateRefused(h) PROVE Goal
    BY <1>5, <2>3 DEF CreateRefused, Between
  <2>4. ASSUME NEW h \in Handlers, NEW aud \in Audiences, NEW tells \in BOOLEAN, CreateLost(h, aud, tells)
        PROVE  Goal
    BY <1>5, <2>4 DEF CreateLost, Between
  <2>5. ASSUME NEW h \in Handlers,
               \/ FetchFails(h) \/ FetchSucceeds(h)
               \/ CreateRefused(h) \/ RegisterDiscovered(h) \/ RegisterInJwks(h)
        PROVE  Goal
    BY <1>7, <1>9, <2>1, <2>2, <2>3, <2>5
  <2>6. CASE AdminNext
    BY <1>3, <1>4, <1>8, <1>10, <1>11, <2>4, <2>5, <2>6 DEF AdminNext, Goal
  <2> QED
    BY <1>11, <2>6

(* The registry and the JWKS manager of a pod differ only while a handler  *)
(* is between its two calls, for any number of pods and requests at work.  *)
THEOREM RegistryAndKeysAgreeHolds == AdminSpec => []RegistryAndKeysAgree
<1> DEFINE Inv == AdminTypeOK /\ AtWork /\ OneBetween /\ Pending /\ RegistryAndKeysAgree
<1>1. AdminInit => Inv
  <2> SUFFICES ASSUME AdminInit PROVE Inv
    OBVIOUS
  <2>1. \A h \in Handlers : adminPc[h] = "idle"
    BY DEF AdminInit
  <2>2. AtWork /\ OneBetween /\ Pending
    BY <2>1 DEF AtWork, OneBetween, Pending, Between
  <2>3. RegistryAndKeysAgree
    BY DEF AdminInit, RegistryAndKeysAgree
  <2> QED
    BY <2>2, <2>3, AdminInitTypeOK
<1>2. Inv /\ [AdminNext]_adminVars => Inv'
  BY AdminNextTypeOK, AtWorkStays, AgreementStays
<1> QED
  BY <1>1, <1>2, PTL DEF AdminSpec

-----------------------------------------------------------------------------
(* What a configuration says of the stream it has the id of. *)
Told(c) ==
    /\ c.id <= created
    /\ c.id # NoId /\ c.id = stream.id =>
          c.aud = IF stream.tells /\ c.asked = NoAudience THEN stream.aud ELSE Guess(c.asked)

AllTold ==
    /\ \A p \in Pods : Told(registries[p])
    /\ \A h \in Handlers : Told(config[h])

(* Before the stream is created, a configuration has the first guess. *)
Guessed == \A h \in Handlers : adminPc[h] = "create" => config[h].aud = Guess(config[h].asked)

LEMMA GuessedStays ==
  ASSUME AdminTypeOK, Guessed, [AdminNext]_adminVars
  PROVE  Guessed'
<1>1. ASSUME NEW h \in Handlers, \A g \in Handlers \ {h} : config'[g] = config[g] /\ adminPc'[g] = adminPc[g],
             adminPc'[h] = "create" => config'[h].aud = Guess(config'[h].asked)
      PROVE  Guessed'
  BY <1>1 DEF Guessed
<1>2. ASSUME NEW h \in Handlers, Answer(h) PROVE Guessed'
  BY <1>1, <1>2 DEF Answer, AdminGoto, AdminTypeOK
<1>3. ASSUME NEW h \in Handlers, NEW p \in Pods, NEW tls \in BOOLEAN, NEW aud \in Asked, Discover(h, p, aud, tls)
      PROVE  Guessed'
  BY <1>1, <1>3 DEF Discover, AdminGoto, AdminTypeOK
<1>4. ASSUME NEW h \in Handlers, NEW p \in Pods, NEW tls \in BOOLEAN, NEW aud \in Audiences,
             RegisterManually(h, p, aud, tls)
      PROVE  Guessed'
  BY <1>1, <1>4 DEF RegisterManually, AdminGoto, AdminTypeOK
<1>5. ASSUME NEW h \in Handlers, FetchFails(h) PROVE Guessed'
  BY <1>2, <1>5 DEF FetchFails, Guessed
<1>6. ASSUME NEW h \in Handlers, FetchSucceeds(h) PROVE Guessed'
  <2>1. /\ config'[h].aud = Guess(req[h].aud) /\ config'[h].asked = req[h].aud
        /\ \A g \in Handlers \ {h} : config'[g] = config[g] /\ adminPc'[g] = adminPc[g]
    BY <1>6 DEF FetchSucceeds, AdminGoto, AdminTypeOK
  <2> QED
    BY <1>1, <2>1
<1>7. ASSUME NEW h \in Handlers, RegisterDiscovered(h) PROVE Guessed'
  BY <1>1, <1>7 DEF RegisterDiscovered, AdminGoto, AdminTypeOK
<1>8. ASSUME NEW h \in Handlers, NEW aud \in Audiences, NEW tells \in BOOLEAN, CreateStream(h, aud, tells)
      PROVE  Guessed'
  BY <1>1, <1>8 DEF CreateStream, AdminGoto, AdminTypeOK
<1>9. ASSUME NEW p \in Pods, Crash(p) PROVE Guessed'
  BY <1>9 DEF Crash, Guessed
<1>10. CASE DeleteStream \/ UNCHANGED adminVars
  BY <1>10 DEF DeleteStream, adminVars, Guessed
<1> QED
  BY <1>2, <1>3, <1>4, <1>5, <1>6, <1>7, <1>8, <1>9, <1>10
  DEF CreateRefused, CreateLost, RegisterInJwks, AdminNext

(* A configuration without a stream. *)
LEMMA ToldWithoutStream ==
  ASSUME AdminTypeOK, NEW c, c.id = NoId PROVE Told(c)
  BY DEF Told, AdminTypeOK, NoId

(* A new stream has an id no configuration has. *)
LEMMA ToldStays ==
  ASSUME AdminTypeOK, NEW aud \in Audiences, NEW tells \in BOOLEAN,
         NewStream(aud, tells), NEW c \in Config \cup {NoConfig}, Told(c)
  PROVE  Told(c)'
<1>1. created \in Int /\ created' = created + 1 /\ stream'.id = created + 1
  BY NewStreamTypeOK DEF AdminTypeOK
<1>2. c.id \in Int
  BY DEF Config, NoConfig, NoId
<1>3. c.id <= created' /\ c.id # stream'.id
  BY <1>1, <1>2 DEF Told
<1> QED
  BY <1>3 DEF Told

(* Every step keeps what the configurations say. *)
LEMMA AllToldStays ==
  ASSUME AdminTypeOK, AllTold, Guessed, [AdminNext]_adminVars
  PROVE  AllTold'
<1>1. ASSUME UNCHANGED <<stream, created>>,
             \A p \in Pods : \/ registries'[p] = registries[p] \/ registries'[p].id = NoId
                            \/ \E h \in Handlers : registries'[p] = config[h],
             \A h \in Handlers : config'[h] = config[h] \/ config'[h].id = NoId
      PROVE  AllTold'
  <2>1. \A c : c.id = NoId => Told(c)
    BY ToldWithoutStream
  <2>2. /\ \A p \in Pods : Told(registries'[p])
        /\ \A h \in Handlers : Told(config'[h])
    BY <1>1, <2>1 DEF AllTold
  <2> QED
    BY <1>1, <2>2 DEF AllTold, Told
<1>2. ASSUME NEW h \in Handlers, Answer(h), UNCHANGED <<stream, created, registries>> PROVE AllTold'
  BY <1>1, <1>2 DEF Answer, AdminTypeOK, NoConfig
<1>3. ASSUME NEW h \in Handlers, NEW p \in Pods, NEW tls \in BOOLEAN,
             NEW aud \in Asked, Discover(h, p, aud, tls)
      PROVE  AllTold'
  BY <1>1, <1>3 DEF Discover
<1>4. ASSUME NEW h \in Handlers, NEW p \in Pods, NEW tls \in BOOLEAN, NEW aud \in Audiences,
             RegisterManually(h, p, aud, tls)
      PROVE  AllTold'
  <2>1. config'[h].id = NoId /\ registries' = [registries EXCEPT ![p] = config'[h]]
    BY <1>4 DEF RegisterManually, AdminTypeOK
  <2>2. \A g \in Handlers \ {h} : config'[g] = config[g]
    BY <1>4 DEF RegisterManually, AdminTypeOK
  <2>3. \A q \in Pods : registries'[q] = registries[q] \/ registries'[q].id = NoId
    BY <2>1 DEF AdminTypeOK
  <2> QED
    BY <1>1, <1>4, <2>1, <2>2, <2>3 DEF RegisterManually
<1>5. ASSUME NEW h \in Handlers, FetchFails(h) PROVE AllTold'
  BY <1>2, <1>5 DEF FetchFails
<1>6. ASSUME NEW h \in Handlers, FetchSucceeds(h) PROVE AllTold'
  <2>1. config'[h].id = NoId /\ \A g \in Handlers \ {h} : config'[g] = config[g]
    BY <1>6 DEF FetchSucceeds, AdminTypeOK
  <2> QED
    BY <1>1, <1>6, <2>1 DEF FetchSucceeds
<1>7. ASSUME NEW h \in Handlers, RegisterDiscovered(h) PROVE AllTold'
  BY <1>1, <1>7 DEF RegisterDiscovered, AdminTypeOK
<1>8. ASSUME NEW aud \in Audiences, NEW tells \in BOOLEAN, NewStream(aud, tells),
             registries' = registries,
             NEW h \in Handlers, NEW c, config'[h] = c, Told(c)',
             \A g \in Handlers \ {h} : config'[g] = config[g] \/ config'[g] = NoConfig
      PROVE  AllTold'
  <2>1. \A d \in Config \cup {NoConfig} : Told(d) => Told(d)'
    BY <1>8, ToldStays
  <2>2. NoConfig.id = NoId /\ Told(NoConfig)
    BY ToldWithoutStream DEF NoConfig
  <2>3. /\ \A p \in Pods : registries[p] \in Config \cup {NoConfig} /\ Told(registries[p])
        /\ \A g \in Handlers : config[g] \in Config \cup {NoConfig} /\ Told(config[g])
    BY DEF AllTold, AdminTypeOK
  <2>4. ASSUME NEW p \in Pods PROVE Told(registries[p])'
    BY <1>8, <2>1, <2>3 DEF Told
  <2>5. ASSUME NEW g \in Handlers PROVE Told(config[g])'
    <3>1. CASE g = h
      BY <1>8, <3>1 DEF Told
    <3>2. CASE g # h
      BY <1>8, <2>1, <2>2, <2>3, <3>2 DEF Told
    <3> QED
      BY <3>1, <3>2
  <2> QED
    BY <2>4, <2>5 DEF AllTold
<1>9. ASSUME NEW h \in Handlers, NEW aud \in Audiences, NEW tells \in BOOLEAN, CreateStream(h, aud, tells)
      PROVE  AllTold'
  <2> DEFINE c == [config[h] EXCEPT !.id = created + 1, !.aud = Expected(h, aud, tells)]
  <2>1. config[h] \in Config
    BY <1>9 DEF CreateStream, AdminTypeOK, AdminSteps
  <2>2. config' = [config EXCEPT ![h] = c]
    BY <1>9, <2>1 DEF CreateStream, AdminTypeOK
  <2>3. created' = created + 1 /\ created' \in Int
        /\ stream' = [id |-> created + 1, aud |-> aud, tells |-> tells]
    BY <1>9, NewStreamTypeOK DEF CreateStream, AdminTypeOK
  <2>g. config[h].aud = Guess(config[h].asked)
    BY <1>9 DEF CreateStream, Guessed
  <2>4. /\ c.id = created + 1 /\ c.asked = config[h].asked
        /\ c.aud = IF tells /\ c.asked = NoAudience THEN aud ELSE Guess(c.asked)
    BY <2>1, <2>g DEF Config, Expected
  <2> HIDE DEF c
  <2>5. PICK d : d = c
    OBVIOUS
  <2>6. Told(d)'
    BY <2>3, <2>4, <2>5 DEF Told
  <2>7. config'[h] = d /\ \A g \in Handlers \ {h} : config'[g] = config[g]
    BY <2>2, <2>5 DEF AdminTypeOK
  <2> QED
    BY <1>8, <1>9, <2>6, <2>7 DEF CreateStream
<1>10. ASSUME NEW h \in Handlers, NEW aud \in Audiences, NEW tells \in BOOLEAN, CreateLost(h, aud, tells)
       PROVE  AllTold'
  <2>1. \A d \in Config \cup {NoConfig} : Told(d) => Told(d)'
    BY <1>10, ToldStays DEF CreateLost
  <2>2. NoConfig.id = NoId /\ Told(NoConfig)
    BY ToldWithoutStream DEF NoConfig
  <2>3. config'[h] = NoConfig /\ \A g \in Handlers \ {h} : config'[g] = config[g]
    BY <1>10 DEF CreateLost, Answer, AdminTypeOK
  <2>4. Told(NoConfig)'
    BY <2>1, <2>2
  <2>5. PICK d : d = NoConfig
    OBVIOUS
  <2>6. Told(d)' /\ config'[h] = d
    BY <2>3, <2>4, <2>5 DEF Told
  <2> QED
    BY <1>8, <1>10, <2>3, <2>6 DEF CreateLost
<1>11. ASSUME NEW p \in Pods, Crash(p) PROVE AllTold'
  BY <1>1, <1>11 DEF Crash, AdminTypeOK, NoConfig
<1>12. CASE DeleteStream
  <2>1. stream'.id = NoId
    BY <1>12 DEF DeleteStream, NoStream
  <2> QED
    BY <1>12, <2>1 DEF DeleteStream, AllTold, Told
<1>13. CASE UNCHANGED adminVars
  BY <1>13 DEF adminVars, AllTold, Told
<1>14. ASSUME NEW h \in Handlers,
              \/ FetchFails(h) \/ FetchSucceeds(h)
              \/ CreateRefused(h) \/ RegisterDiscovered(h) \/ RegisterInJwks(h)
       PROVE  AllTold'
  BY <1>2, <1>5, <1>6, <1>7, <1>14 DEF CreateRefused, RegisterInJwks
<1> QED
  BY <1>3, <1>4, <1>9, <1>10, <1>11, <1>12, <1>13, <1>14 DEF AdminNext

(* A pod expects the audience that the SETs of its stream carry, where it  *)
(* was told and left open, else what was chosen or guessed, for any number *)
(* of streams created, lost and deleted meanwhile.                         *)
THEOREM AudienceOfStreamHolds == AdminSpec => []AudienceOfStream
<1>1. AdminInit => AdminTypeOK /\ AllTold /\ Guessed
  <2> SUFFICES ASSUME AdminInit PROVE AdminTypeOK /\ AllTold /\ Guessed
    OBVIOUS
  <2>1. AdminTypeOK
    BY AdminInitTypeOK
  <2>2. NoConfig.id = NoId /\ Told(NoConfig)
    BY <2>1, ToldWithoutStream DEF NoConfig
  <2> QED
    BY <2>1, <2>2 DEF AdminInit, AllTold, Guessed
<1>2. AdminTypeOK /\ AllTold /\ Guessed /\ [AdminNext]_adminVars => (AdminTypeOK /\ AllTold /\ Guessed)'
  BY AdminNextTypeOK, AllToldStays, GuessedStays
<1>3. AllTold => AudienceOfStream
  BY OnboardingAssumption DEF AllTold, Told, Guess, AudienceOfStream
<1> QED
  BY <1>1, <1>2, <1>3, PTL DEF AdminSpec

-----------------------------------------------------------------------------
(* Every step keeps a stream served that no fault has stranded.            *)
LEMMA ServedStays ==
  ASSUME AdminTypeOK, AtWork, StreamIsServed, [AdminNext]_adminVars
  PROVE  StreamIsServed'
<1> DEFINE Known == \E p \in Pods : registries[p] # NoConfig
           Coming == \E h \in Handlers : adminPc[h] = "close" /\ config[h].id = stream.id
<1> HIDE DEF Known, Coming
<1>1. StreamIsServed = (stream # NoStream /\ ~stranded => Known \/ Coming)
  BY DEF StreamIsServed, Known, Coming
<1>2. ASSUME UNCHANGED <<stream, stranded, registries>>,
             \A h \in Handlers : adminPc[h] = "close" => UNCHANGED <<adminPc[h], config[h]>>
      PROVE  StreamIsServed'
  BY <1>1, <1>2 DEF StreamIsServed, Known, Coming
<1>3. ASSUME NEW p \in Pods, registries'[p] # NoConfig PROVE StreamIsServed'
  BY <1>3 DEF StreamIsServed, NoConfig
<1>4. ASSUME NEW h \in Handlers, Answer(h), adminPc[h] # "close", UNCHANGED <<stream, stranded, registries>>
      PROVE  StreamIsServed'
  BY <1>2, <1>4 DEF Answer, AdminGoto, AdminTypeOK
<1>5. ASSUME NEW h \in Handlers, NEW p \in Pods, NEW tls \in BOOLEAN,
             NEW aud \in Asked, Discover(h, p, aud, tls)
      PROVE  StreamIsServed'
  BY <1>2, <1>5 DEF Discover, AdminGoto, AdminTypeOK
<1>6. ASSUME NEW h \in Handlers, NEW p \in Pods, NEW tls \in BOOLEAN, NEW aud \in Audiences,
             RegisterManually(h, p, aud, tls)
      PROVE  StreamIsServed'
  <2>1. registries'[p] = [id |-> NoId, aud |-> aud, tls |-> tls, asked |-> aud]
    BY <1>6 DEF RegisterManually, AdminTypeOK
  <2>2. registries'[p] # NoConfig
    BY <2>1, OnboardingAssumption DEF NoConfig
  <2> QED
    BY <1>3, <2>2
<1>7. ASSUME NEW h \in Handlers, FetchSucceeds(h)
      PROVE  StreamIsServed'
  BY <1>2, <1>7 DEF FetchSucceeds, AdminGoto, AdminTypeOK
<1>8. ASSUME NEW h \in Handlers, RegisterDiscovered(h) PROVE StreamIsServed'
  <2>1. req[h].pod \in Pods /\ config[h] # NoConfig
    BY <1>8 DEF RegisterDiscovered, AtWork, AdminTypeOK
  <2>2. registries'[req[h].pod] # NoConfig
    BY <1>8, <2>1 DEF RegisterDiscovered, AdminTypeOK
  <2> QED
    BY <1>3, <2>1, <2>2
<1>9. ASSUME NEW h \in Handlers, NEW aud \in Audiences, NEW tells \in BOOLEAN, CreateStream(h, aud, tells)
      PROVE  StreamIsServed'
  <2>1. config[h] \in Config
    BY <1>9 DEF CreateStream, AdminTypeOK, AdminSteps
  <2>2. adminPc'[h] = "close" /\ config'[h].id = created + 1
    BY <1>9, <2>1 DEF CreateStream, AdminGoto, AdminTypeOK, Config
  <2>3. stream'.id = created + 1
    BY <1>9, NewStreamTypeOK DEF CreateStream
  <2> QED
    BY <2>2, <2>3 DEF StreamIsServed
<1>10. ASSUME NEW h \in Handlers, NEW aud \in Audiences, NEW tells \in BOOLEAN, CreateLost(h, aud, tells)
       PROVE  StreamIsServed'
  BY <1>10 DEF CreateLost, StreamIsServed
<1>11. ASSUME NEW p \in Pods, Crash(p) PROVE StreamIsServed'
  <2> SUFFICES ASSUME stream # NoStream, ~stranded' PROVE StreamIsServed'
    BY <1>11 DEF Crash, StreamIsServed
  <2>1. /\ ~stranded /\ registries[p] = NoConfig
        /\ \A h \in Handlers : req[h].pod = p => adminPc[h] # "close"
    BY <1>11 DEF Crash
  <2>2. CASE Known
    <3>1. PICK q \in Pods : registries[q] # NoConfig
      BY <2>2 DEF Known
    <3>2. registries'[q] = registries[q]
      BY <1>11, <2>1, <3>1 DEF Crash, AdminTypeOK
    <3> QED
      BY <1>3, <3>1, <3>2
  <2>3. CASE Coming
    <3>1. PICK h \in Handlers : adminPc[h] = "close" /\ config[h].id = stream.id
      BY <2>3 DEF Coming
    <3>2. adminPc'[h] = "close" /\ config'[h] = config[h] /\ stream' = stream
      BY <1>11, <2>1, <3>1 DEF Crash
    <3> QED
      BY <3>1, <3>2 DEF StreamIsServed
  <2> QED
    BY <1>1, <2>1, <2>2, <2>3
<1>12. CASE DeleteStream
  BY <1>12 DEF DeleteStream, StreamIsServed, NoStream
<1>13. CASE UNCHANGED adminVars
  BY <1>2, <1>13 DEF adminVars
<1>14. ASSUME NEW h \in Handlers,
              \/ FetchFails(h) \/ FetchSucceeds(h)
              \/ CreateRefused(h) \/ RegisterDiscovered(h) \/ RegisterInJwks(h)
       PROVE  StreamIsServed'
  BY <1>4, <1>7, <1>8, <1>14
  DEF FetchFails, FetchSucceeds, CreateRefused, RegisterInJwks
<1> QED
  BY <1>5, <1>6, <1>9, <1>10, <1>11, <1>12, <1>13, <1>14 DEF AdminNext

(* While no reply was lost and no pod restarted, a stream that exists is   *)
(* known to a pod or about to be, for any number of pods and requests.     *)
THEOREM StreamIsServedHolds == AdminSpec => []StreamIsServed
<1> DEFINE Inv == AdminTypeOK /\ AtWork /\ StreamIsServed
<1>1. AdminInit => Inv
  BY AdminInitTypeOK DEF AdminInit, AtWork, StreamIsServed
<1>2. Inv /\ [AdminNext]_adminVars => Inv'
  BY AdminNextTypeOK, AtWorkStays, ServedStays
<1> QED
  BY <1>1, <1>2, PTL DEF AdminSpec
=============================================================================
