----------------------------- MODULE SetVerifier ------------------------------
(***************************************************************************)
(* verify_set: what a pool thread checks of a SET, and in which order,     *)
(* while the event loop registers the issuer, or registers it anew, and    *)
(* other threads verify SETs of the same issuer.  The transmitter's        *)
(* configuration and its keys are looked up in two places at two times,    *)
(* and an admin handler writes them one by one.                            *)
(*                                                                         *)
(* A registration fixes the audience expected, the jwks_uri and the key it *)
(* serves; JwksManager is about keys that change and what a client knows.  *)
(* Here a client is represented by the registration whose jwks_uri it has. *)
(* What the other threads do to the clients may happen at any time: each   *)
(* may have been stopped for as long as you like before its next step.     *)
(***************************************************************************)
EXTENDS Integers, SubjectKey

CONSTANTS
    Registrations, \* what the issuer may be registered with
    AudienceOf,    \* registration -> aud expected
    SignerOf,      \* registration -> the key its JWKS serves
    Forged,        \* stands for a signature no key verifies
    Issuer,        \* the issuer that may be registered
    Tokens,        \* the SETs that may be posted
    MaxAge,        \* set_max_age_seconds
    Skew,          \* set_clock_skew_seconds
    ClientTtl,     \* JWKS_TTL_SECONDS
    MaxTime        \* bound on the clock

(* form: "ok", or the first thing wrong with it; iat: its date. *)
TokenRecords ==
    [form : {"ok", "garbled", "typ", "odd typ", "no iss", "no jti", "no sub_id", "no events", "ill-typed"},
     iss : {Issuer, "other"}, signer : {SignerOf[r] : r \in Registrations} \cup {Forged},
     aud : {AudienceOf[r] : r \in Registrations}, iat : Int]

None == 0

ASSUME SetVerifierAssumption ==
    /\ Registrations \subseteq Nat \ {None}
    /\ \A r \in Registrations : SignerOf[r] # Forged
    /\ Tokens \subseteq TokenRecords /\ Tokens # {} /\ Subjects # {}
    /\ {MaxAge, Skew, ClientTtl, MaxTime} \subseteq Nat

VARIABLES
    now,           \* the clock
    registry,      \* what transmitter_registry has for the issuer
    keys,          \* _jwks_uri_by_issuer: whose jwks_uri jwks_manager has
    kept,          \* _clients: whose client it keeps for the issuer
    datedAt,       \* _client_created_at
    read,          \* whose jwks_uri the other threads have read
    pc,            \* the next step of the verifying thread
    token,         \* the SET it verifies
    transmitter,   \* the registration that registry.get returned
    signingKey,    \* whose jwks_uri, then client, then key it has
    again,         \* whether signing_key_for is in its second attempt
    verdict,       \* how the last call ended
    subject,       \* sub_id of the SET accepted
    span,          \* history: registrations in either place since the call began
    began,         \* history: when it began
    raced,         \* history: another thread took the client away since, or put
                   \* one of no current registration there
    putBack        \* history: when a client of each registration was last put
                   \* there, or dated, although it had been replaced

vars == <<now, registry, keys, kept, datedAt, read, pc, token, transmitter, signingKey, again, verdict, subject,
          span, began, raced, putBack>>

managers == <<registry, keys, kept, datedAt, read>>
thread == <<pc, token, transmitter, signingKey, again, verdict, subject>>
call == <<span, began, raced>>

-----------------------------------------------------------------------------
Steps == {"idle", "get", "key", "client", "create", "take", "resolve", "decode", "claims"}

Verdicts == {"none", "refused", "escaped", "cut off", "accepted"}

Undated == -(ClientTtl + 1)

TypeOK ==
    /\ now \in 0 .. MaxTime
    /\ {registry, keys, kept, transmitter, signingKey} \subseteq Registrations \cup {None}
    /\ registry = None => keys = None
    /\ datedAt \in {Undated} \cup 0 .. now
    /\ read \subseteq Registrations
    /\ pc \in Steps
    /\ token \in Tokens
    /\ again \in BOOLEAN
    /\ verdict \in Verdicts
    /\ subject \in Subjects
    /\ span \subseteq Registrations \cup {None}
    /\ began \in 0 .. now
    /\ raced \in BOOLEAN
    /\ putBack \in [Registrations -> {Undated} \cup 0 .. now]
    /\ pc \notin {"idle", "get"} => transmitter # None
    /\ pc \in {"client", "create", "take", "resolve", "decode", "claims"} => signingKey # None

SomeToken == CHOOSE tok \in Tokens : TRUE
SomeSubject == CHOOSE s \in Subjects : TRUE

Init ==
    /\ now = 0
    /\ registry = None
    /\ keys = None
    /\ kept = None
    /\ datedAt = Undated
    /\ read = {}
    /\ pc = "idle"
    /\ token = SomeToken
    /\ transmitter = None
    /\ signingKey = None
    /\ again = FALSE
    /\ verdict = "none"
    /\ subject = SomeSubject
    /\ span = {}
    /\ began = 0
    /\ raced = FALSE
    /\ putBack = [r \in Registrations |-> Undated]

(* The call returns or raises, SetVerificationError or something else; its *)
(* locals are gone.                                                        *)
End(how) ==
    /\ pc' = "idle"
    /\ verdict' = how
    /\ token' = SomeToken
    /\ transmitter' = None
    /\ signingKey' = None
    /\ again' = FALSE
    /\ span' = {}
    /\ began' = 0
    /\ raced' = FALSE

Fail(how) == End(how) /\ UNCHANGED subject

Proceed(step, key) ==
    /\ pc' = step
    /\ signingKey' = key
    /\ UNCHANGED <<token, transmitter, again, verdict, subject, call>>

-----------------------------------------------------------------------------
(* An admin handler registers the issuer: first the registry ... *)
Register(r) ==
    /\ registry = keys
    /\ registry' = r
    /\ span' = IF pc = "idle" THEN span ELSE span \cup {r}
    /\ UNCHANGED <<now, keys, kept, datedAt, read, thread, began, raced, putBack>>

(* ... then the JWKS manager, which drops the client.  From now on other   *)
(* threads may have read this jwks_uri and found no client.                *)
RegisterKeys ==
    /\ registry # keys
    /\ keys' = registry
    /\ read' = read \cup {registry}
    /\ kept' = None
    /\ UNCHANGED <<now, registry, datedAt, thread, call, putBack>>

-----------------------------------------------------------------------------
(* A client of registration r is put into the dictionary, or dated, at a   *)
(* time when r may have been replaced.                                     *)
PutsBack(r) == putBack' = IF r \in Registrations \ {keys} THEN [putBack EXCEPT ![r] = now] ELSE putBack

(* Another thread that read the jwks_uri of r puts its client there ...    *)
OtherCreates(r) ==
    /\ r \in read
    /\ kept' = r
    /\ raced' = (raced \/ (pc # "idle" /\ r # keys))
    /\ PutsBack(r)
    /\ UNCHANGED <<now, registry, keys, datedAt, read, thread, span, began>>

(* ... and notes the time, whatever client is there by then.               *)
OtherDates ==
    /\ read # {}
    /\ datedAt' = now
    /\ PutsBack(kept)
    /\ UNCHANGED <<now, registry, keys, kept, read, thread, call>>

(* Another thread found no key for its SET, and throws the client away.    *)
OtherPops ==
    /\ kept # None
    /\ kept' = None
    /\ raced' = (raced \/ pc # "idle")
    /\ UNCHANGED <<now, registry, keys, datedAt, read, thread, span, began, putBack>>

-----------------------------------------------------------------------------
(* The claims are looked at unverified, for typ and iss.  A typ that is no *)
(* string raises AttributeError.                                           *)
Peek(tok) ==
    /\ pc = "idle"
    /\ subject' = SomeSubject
    /\ CASE tok.form \in {"garbled", "typ", "no iss"} -> End("refused")
         [] tok.form = "odd typ" -> End("escaped")
         [] OTHER -> /\ pc' = "get"
                     /\ token' = tok
                     /\ verdict' = "none"
                     /\ span' = {registry, keys}
                     /\ began' = now
                     /\ UNCHANGED <<transmitter, signingKey, again, raced>>
    /\ UNCHANGED <<now, managers, putBack>>

GetTransmitter ==
    /\ pc = "get"
    /\ IF token.iss # Issuer \/ registry = None
       THEN Fail("refused")
       ELSE transmitter' = registry /\ pc' = "key" /\ UNCHANGED <<token, signingKey, again, verdict, subject, call>>
    /\ UNCHANGED <<now, managers, putBack>>

(* _client_for reads the jwks_uri.  IssuerNotRegistered is translated.     *)
FindUri ==
    /\ pc = "key"
    /\ IF keys = None THEN Fail("refused") ELSE Proceed("client", keys)
    /\ UNCHANGED <<now, managers, putBack>>

(* Mutant: a client is kept for good. *)
IsFresh_Forever == kept # None

IsFresh == kept # None /\ now - datedAt <= ClientTtl

(* The cached client is taken, or one has to be built.                     *)
FindClient ==
    /\ pc = "client"
    /\ IF IsFresh THEN Proceed("resolve", kept) ELSE Proceed("create", signingKey)
    /\ UNCHANGED <<now, managers, putBack>>

MakeClient ==
    /\ pc = "create"
    /\ kept' = signingKey
    /\ PutsBack(signingKey)
    /\ Proceed("take", signingKey)
    /\ UNCHANGED <<now, registry, keys, datedAt, read>>

(* It is dated and looked up again: KeyError if it has been taken away.    *)
TakeKept ==
    /\ pc = "take"
    /\ datedAt' = now
    /\ PutsBack(kept)
    /\ IF kept = None THEN Fail("escaped") ELSE Proceed("resolve", kept)
    /\ UNCHANGED <<now, registry, keys, kept, read>>

(* A key is found by the kid, which a forged SET may name rightly, or for  *)
(* the second time there is none.                                          *)
ResolveKey ==
    /\ pc = "resolve"
    /\ \/ token.signer \in {SignerOf[signingKey], Forged} /\ Proceed("decode", signingKey)
       \/ token.signer \notin {SignerOf[signingKey], Forged} /\ again /\ Fail("refused")
    /\ UNCHANGED <<now, managers, putBack>>

(* Mutant: another attempt is made with the client there is. *)
TryAgain_Keeps ==
    /\ pc = "resolve"
    /\ ~again
    /\ again' = TRUE
    /\ pc' = "key"
    /\ UNCHANGED <<now, managers, token, transmitter, signingKey, verdict, subject, call, putBack>>

(* With no such kid, or the JWKS out of reach, the client is thrown away   *)
(* and the whole tried again, once.                                        *)
TryAgain ==
    /\ pc = "resolve"
    /\ ~again
    /\ again' = TRUE
    /\ kept' = None
    /\ pc' = "key"
    /\ UNCHANGED <<now, registry, keys, datedAt, read, token, transmitter, signingKey, verdict, subject, call, putBack>>

(* The JWKS is out of reach for the second time, which is translated, or   *)
(* has no usable keys or is no JSON, which is not.                         *)
KeysUnavailable ==
    /\ pc = "resolve"
    /\ Fail("cut off")
    /\ UNCHANGED <<now, managers, putBack>>

(* jwt.decode verifies the signature, aud, that nothing required is        *)
(* missing, and that iat is not ahead.                                     *)
Decodes ==
    /\ token.form # "no jti"
    /\ token.signer = SignerOf[signingKey]
    /\ token.aud = AudienceOf[transmitter]
    /\ token.iat <= now + Skew

Decode ==
    /\ pc = "decode"
    /\ IF Decodes THEN Proceed("claims", signingKey) ELSE Fail("refused")
    /\ UNCHANGED <<now, managers, putBack>>

(* _reject_stale_iat. *)
Stale == now - token.iat > MaxAge

(* sub_id and events, the age, then the model: its ValidationError is not  *)
(* a SetVerificationError.                                                 *)
CheckClaims(s) ==
    /\ pc = "claims"
    /\ \/ (token.form \in {"no sub_id", "no events"} \/ Stale) /\ Fail("refused")
       \/ ~Stale /\ token.form = "ill-typed" /\ Fail("escaped")
       \/ ~Stale /\ token.form = "ok" /\ End("accepted") /\ subject' = s
    /\ UNCHANGED <<now, managers, putBack>>

Tick ==
    /\ now < MaxTime
    /\ now' = now + 1
    /\ UNCHANGED <<managers, thread, call, putBack>>

Next ==
    \/ \E r \in Registrations : Register(r) \/ OtherCreates(r)
    \/ RegisterKeys \/ OtherDates \/ OtherPops
    \/ \E tok \in Tokens : Peek(tok)
    \/ GetTransmitter \/ FindUri \/ FindClient \/ MakeClient \/ TakeKept \/ ResolveKey \/ TryAgain
    \/ KeysUnavailable \/ Decode
    \/ \E s \in Subjects : CheckClaims(s)
    \/ Tick

Spec == Init /\ [][Next]_vars

-----------------------------------------------------------------------------
Ends(verdicts) == pc # "idle" /\ pc' = "idle" /\ verdict' \in verdicts

(* What is accepted was addressed under a registration in force during the *)
(* call, and signed under one as well, or under one that had been replaced *)
(* and whose client some thread put back, or dated, no longer than the TTL *)
(* before the call began.  Its date fits the two limits.                   *)
AcceptedIsInForce ==
    [][Ends({"accepted"}) =>
        /\ token.form = "ok" /\ token.iss = Issuer
        /\ \E r \in span \ {None} : token.aud = AudienceOf[r]
        /\ \E r \in Registrations :
              /\ token.signer = SignerOf[r]
              /\ r \in span \/ putBack[r] >= began - ClientTtl
        /\ began - MaxAge <= token.iat /\ token.iat <= now + Skew]_vars

(* A SET that is right under the one registration in force during the      *)
(* whole call, and whose keys can be had, is neither refused nor lost to   *)
(* an exception, whatever client of a replaced registration the call finds *)
(* there: every other end has one of the reasons listed.  raced names what *)
(* other threads may do to a call that is right (jwks.py, lines 65 to 72). *)
RefusedForCause ==
    [][Ends({"refused", "escaped"}) =>
        \/ token.form # "ok" \/ token.iss # Issuer
        \/ raced
        \/ None \in span \/ \E r, s \in span : r # s
        \/ \E r \in span : token.signer # SignerOf[r] \/ token.aud # AudienceOf[r]
        \/ token.iat < now - MaxAge \/ token.iat > began + Skew]_vars

(* The members a key is made of, in the formats that have such. *)
Named(s) ==
    CASE s.format = <<"email">> -> {"email"}
      [] s.format = <<"phone_number">> -> {"phone_number"}
      [] s.format = <<"opaque">> -> {"id"}
      [] s.format = <<"iss_sub">> -> {"iss", "sub"}
      [] OTHER -> {}

(* Whom a key stands for: the user of a complex subject, an e-mail address *)
(* whatever its case.  What else a subject of these formats says does not  *)
(* make it another.                                                        *)
Self(s) ==
    IF Named(s) # {} /\ Named(s) \subseteq DOMAIN s
    THEN [name \in {"format"} \cup Named(s) |->
             CASE name = "format" -> s.format
               [] name = "email" -> [type |-> s.email.type, text |-> LowerCase(s.email.text)]
               [] OTHER -> [type |-> s[name].type, text |-> s[name].text]]
    ELSE s

Person[s \in Subjects] == IF Nests(s) THEN Person[s.user.members] ELSE Self(s)

(* A subject in which a member of its key is missing or empty, and one     *)
(* whose iss or sub contains the delimiter, are not told from every other  *)
(* of their kind.                                                          *)
Vague(p) ==
    \/ \E name \in Named(p) : Text(p, name) = <<>>
    \/ p.format = <<"iss_sub">> /\ \E name \in {"iss", "sub"} : \E i \in DOMAIN Text(p, name) : Text(p, name)[i] = "|"

(* A member printed although it is no string, or a format that no          *)
(* specification registers and that reads like the head of another's keys. *)
Odd(p) ==
    \/ \E name \in Named(p) : ~IsString(p, name)
    \/ /\ Named(p) = {} /\ p.format # <<>>
       /\ p.format[1] \in {"email", "phone", "iss_sub", "opaque"} /\ (p.format \o <<":">>)[2] = ":"

(* The sessions a SET acts on were registered for the person it is about,  *)
(* or for one as vague ("a collision between two distinct subjects is a    *)
(* security bug", tests/test_models.py), as long as neither is odd.        *)
ActsOnOwnSessions ==
    verdict = "accepted" /\ CorrelationKey[subject] # Invalid =>
        \A s \in Subjects :
            CorrelationKey[s] = CorrelationKey[subject] =>
                LET p == Person[s]
                    q == Person[subject] IN
                \/ p = q
                \/ p.format = q.format /\ Vague(p) /\ Vague(q)
                \/ Odd(p) \/ Odd(q)
=============================================================================
