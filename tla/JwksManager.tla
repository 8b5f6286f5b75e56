------------------------------ MODULE JwksManager ------------------------------
(***************************************************************************)
(* JWKSManager: the PyJWKClient it keeps for an issuer, its hourly         *)
(* replacement, the retry after an unresolvable kid, and registrations     *)
(* that replace the jwks_uri while pool threads resolve keys.  Issuers     *)
(* have nothing in common; the module follows one.                         *)
(*                                                                         *)
(* Nothing locks the dictionaries.  A step of a thread ends where CPython  *)
(* 3.12 may switch threads between two uses of them.  A PyJWKClient is     *)
(* represented by its content, and an hour is so much longer than a call   *)
(* that the clock stands still while one is at work.                       *)
(*                                                                         *)
(* A name begins with Jwks where SetVerifier, which is proved about in the *)
(* same module, has the plain one.                                         *)
(***************************************************************************)
EXTENDS Integers

CONSTANTS
    Uris,          \* the jwks_uri values the issuer is registered with
    NoUri,
    Keys,          \* kid values
    InitialKeys,   \* what each URI serves at first
    Threads,       \* threads that verify SETs
    Ttl,           \* JWKS_TTL_SECONDS
    JwksMaxTime,   \* bound on the clock
    MaxEvents      \* bound on registrations, rotations and outages

ASSUME JwksAssumption ==
    /\ NoUri \notin Uris
    /\ InitialKeys \in [Uris -> SUBSET Keys]
    /\ {Ttl, JwksMaxTime, MaxEvents} \subseteq Nat

VARIABLES
    jwksNow,       \* the clock
    published,     \* the keys each URI serves
    withdrawnAt,   \* history: when each URI stopped serving each key
    reachable,     \* whether the transmitter answers
    uri,           \* _jwks_uri_by_issuer
    registeredAt,  \* history: when uri was set
    client,        \* _clients: the issuer's client, or NoClient
    createdAt,     \* _client_created_at
    jwksPc,        \* the next step of each thread
    kid,           \* the key its SET is signed with
    found,         \* the jwks_uri it has read
    held,          \* the client it has taken
    retry,         \* whether it is in its second attempt
    excused,       \* history: something during its call may keep it from the key
    events         \* registrations, rotations and outages so far

jwksVars == <<jwksNow, published, withdrawnAt, reachable, uri, registeredAt, client, createdAt, jwksPc,
              kid, found, held, retry, excused, events>>

jwksEndpoint == <<published, withdrawnAt, reachable>>
manager == <<uri, registeredAt, client, createdAt>>

-----------------------------------------------------------------------------
(* resolved is the cache of single keys, which knows no TTL; fetched the   *)
(* cached key set, which cannot outlive the client.                        *)
Client == [uri : Uris, resolved : SUBSET Keys, fetched : SUBSET Keys]

NoClient == [uri |-> NoUri, resolved |-> {}, fetched |-> {}]

NewClient(u) == [NoClient EXCEPT !.uri = u]

Never == JwksMaxTime + 1

JwksSteps == {"idle", "uri", "client", "create", "take", "resolve", "pop"}

JwksTypeOK ==
    /\ jwksNow \in 0 .. JwksMaxTime
    /\ published \in [Uris -> SUBSET Keys]
    /\ withdrawnAt \in [Uris -> [Keys -> 0 .. Never]]
    /\ reachable \in BOOLEAN
    /\ uri \in Uris \cup {NoUri}
    /\ registeredAt \in 0 .. JwksMaxTime
    /\ client \in Client \cup {NoClient}
    /\ createdAt \in {-Never} \cup 0 .. JwksMaxTime
    /\ jwksPc \in [Threads -> JwksSteps]
    /\ kid \in [Threads -> Keys]
    /\ found \in [Threads -> Uris \cup {NoUri}]
    /\ \A t \in Threads : jwksPc[t] \in {"client", "create", "take"} => found[t] \in Uris
    /\ held \in [Threads -> Client \cup {NoClient}]
    /\ \A t \in Threads : jwksPc[t] = "resolve" => held[t] \in Client
    /\ retry \in [Threads -> BOOLEAN] /\ excused \in [Threads -> BOOLEAN]
    /\ events \in 0 .. MaxEvents

JwksInit ==
    /\ jwksNow = 0
    /\ published = InitialKeys
    /\ withdrawnAt = [u \in Uris |-> [k \in Keys |-> Never]]
    /\ reachable = TRUE
    /\ uri = NoUri
    /\ registeredAt = 0
    /\ client = NoClient
    /\ createdAt = -Never
    /\ jwksPc = [t \in Threads |-> "idle"]
    /\ kid \in {[t \in Threads |-> k] : k \in Keys}
    /\ found = [t \in Threads |-> NoUri]
    /\ held = [t \in Threads |-> NoClient]
    /\ retry = [t \in Threads |-> FALSE]
    /\ excused = [t \in Threads |-> FALSE]
    /\ events = 0

Goto(t, step) == jwksPc' = [jwksPc EXCEPT ![t] = step]

(* signing_key_for returns or raises; its locals are gone. *)
EndCall(t) ==
    /\ Goto(t, "idle")
    /\ found' = [found EXCEPT ![t] = NoUri]
    /\ held' = [held EXCEPT ![t] = NoClient]
    /\ retry' = [retry EXCEPT ![t] = FALSE]
    /\ excused' = [excused EXCEPT ![t] = FALSE]

Excuse(threads) ==
    excused' = [t \in Threads |-> excused[t] \/ (t \in threads /\ jwksPc[t] # "idle")]

-----------------------------------------------------------------------------
(* signing_key_for, for a SET of the issuer. *)
SigningKeyFor(t, k) ==
    /\ jwksPc[t] = "idle"
    /\ Goto(t, "uri")
    /\ kid' = [kid EXCEPT ![t] = k]
    /\ excused' = [excused EXCEPT ![t] = uri = NoUri \/ ~reachable \/ k \notin published[uri]]
    /\ UNCHANGED <<jwksNow, jwksEndpoint, manager, found, held, retry, events>>

(* _client_for reads the jwks_uri. *)
ReadUri(t) ==
    /\ jwksPc[t] = "uri"
    /\ uri # NoUri
    /\ found' = [found EXCEPT ![t] = uri]
    /\ Goto(t, "client")
    /\ UNCHANGED <<jwksNow, jwksEndpoint, manager, kid, held, retry, excused, events>>

(* IssuerNotRegistered. *)
NotRegistered(t) ==
    /\ jwksPc[t] = "uri"
    /\ uri = NoUri
    /\ EndCall(t)
    /\ UNCHANGED <<jwksNow, jwksEndpoint, manager, kid, events>>

(* Mutant: a client is kept for good. *)
StaleClient_Never == FALSE

StaleClient == jwksNow - createdAt > Ttl

(* The cached client is taken ... *)
UseClient(t) ==
    /\ jwksPc[t] = "client"
    /\ client # NoClient /\ ~StaleClient
    /\ held' = [held EXCEPT ![t] = client]
    /\ Goto(t, "resolve")
    /\ UNCHANGED <<jwksNow, jwksEndpoint, manager, kid, found, retry, excused, events>>

(* ... or one has to be built: for the jwks_uri read before. *)
BuildClient(t) ==
    /\ jwksPc[t] = "client"
    /\ client = NoClient \/ StaleClient
    /\ Goto(t, "create")
    /\ UNCHANGED <<jwksNow, jwksEndpoint, manager, kid, found, held, retry, excused, events>>

(* It may be an old one by now, put where a new client was. *)
CreateClient(t) ==
    /\ jwksPc[t] = "create"
    /\ client' = NewClient(found[t])
    /\ IF found[t] # uri THEN Excuse(Threads \ {t}) ELSE UNCHANGED excused
    /\ Goto(t, "take")
    /\ UNCHANGED <<jwksNow, jwksEndpoint, uri, registeredAt, createdAt, kid, found, held, retry, events>>

(* The time is noted and the issuer's client looked up again. *)
TakeClient(t) ==
    /\ jwksPc[t] = "take"
    /\ client # NoClient
    /\ createdAt' = jwksNow
    /\ held' = [held EXCEPT ![t] = client]
    /\ Goto(t, "resolve")
    /\ UNCHANGED <<jwksNow, jwksEndpoint, uri, registeredAt, client, kid, found, retry, excused, events>>

(* Another thread popped it meanwhile: KeyError. *)
ClientGone(t) ==
    /\ jwksPc[t] = "take"
    /\ client = NoClient
    /\ createdAt' = jwksNow
    /\ EndCall(t)
    /\ UNCHANGED <<jwksNow, jwksEndpoint, uri, registeredAt, client, kid, events>>

-----------------------------------------------------------------------------
(* PyJWKClient.get_signing_key_from_jwt: a key it knows, or else the key   *)
(* set fetched anew.                                                       *)
Knows(c, k) == k \in c.resolved \cup c.fetched

Serves(c) == IF reachable THEN published[c.uri] ELSE {}

Fetched(c, k) ==
    IF Knows(c, k) THEN [c EXCEPT !.resolved = @ \cup {k}]
    ELSE [c EXCEPT !.fetched = Serves(c), !.resolved = @ \cup ({k} \cap Serves(c))]

(* The content of the client changes wherever it is referred to.  Clients  *)
(* of equal content are not told apart; each would fetch what the other    *)
(* knows.                                                                  *)
Update(t) ==
    LET c == held[t]
        new == Fetched(c, kid[t]) IN
    /\ client' = IF client = c THEN new ELSE client
    /\ held' = [u \in Threads |-> IF u = t THEN NoClient ELSE IF held[u] = c THEN new ELSE held[u]]

Resolve(t) ==
    /\ jwksPc[t] = "resolve"
    /\ Knows(held[t], kid[t]) \/ kid[t] \in Serves(held[t])
    /\ Update(t)
    /\ Goto(t, "idle")
    /\ found' = [found EXCEPT ![t] = NoUri]
    /\ retry' = [retry EXCEPT ![t] = FALSE]
    /\ excused' = [excused EXCEPT ![t] = FALSE]
    /\ UNCHANGED <<jwksNow, jwksEndpoint, uri, registeredAt, createdAt, kid, events>>

Unresolvable(t) ==
    /\ jwksPc[t] = "resolve"
    /\ ~Knows(held[t], kid[t]) /\ kid[t] \notin Serves(held[t])

(* PyJWKClientError, the first time. *)
FailOnce(t) ==
    /\ Unresolvable(t)
    /\ ~retry[t]
    /\ Update(t)
    /\ Goto(t, "pop")
    /\ UNCHANGED <<jwksNow, jwksEndpoint, uri, registeredAt, createdAt, kid, found, retry, excused, events>>

(* Mutant: there is no second attempt. *)
PopClient_GivesUp(t) ==
    /\ jwksPc[t] = "pop"
    /\ client' = NoClient
    /\ EndCall(t)
    /\ UNCHANGED <<jwksNow, jwksEndpoint, uri, registeredAt, createdAt, kid, events>>

(* The client is thrown away and the whole is tried again. *)
PopClient(t) ==
    /\ jwksPc[t] = "pop"
    /\ client' = NoClient
    /\ retry' = [retry EXCEPT ![t] = TRUE]
    /\ Excuse(Threads \ {t})
    /\ Goto(t, "uri")
    /\ UNCHANGED <<jwksNow, jwksEndpoint, uri, registeredAt, createdAt, kid, found, held, events>>

(* The second time. *)
FailTwice(t) ==
    /\ Unresolvable(t)
    /\ retry[t]
    /\ client' = IF client = held[t] THEN Fetched(held[t], kid[t]) ELSE client
    /\ EndCall(t)
    /\ UNCHANGED <<jwksNow, jwksEndpoint, uri, registeredAt, createdAt, kid, events>>

-----------------------------------------------------------------------------
Event == events < MaxEvents /\ events' = events + 1

(* register_issuer. *)
RegisterIssuer(u) ==
    /\ Event
    /\ uri' = u
    /\ registeredAt' = jwksNow
    /\ client' = NoClient
    /\ Excuse(Threads)
    /\ UNCHANGED <<jwksNow, jwksEndpoint, createdAt, jwksPc, kid, found, held, retry>>

(* The transmitter rotates its keys: one comes, or one goes for good. *)
Publish(u, k) ==
    /\ Event
    /\ k \notin published[u] /\ withdrawnAt[u][k] = Never
    /\ published' = [published EXCEPT ![u] = @ \cup {k}]
    /\ UNCHANGED <<jwksNow, withdrawnAt, reachable, manager, jwksPc, kid, found, held, retry, excused>>

Withdraw(u, k) ==
    /\ Event
    /\ k \in published[u]
    /\ published' = [published EXCEPT ![u] = @ \ {k}]
    /\ withdrawnAt' = [withdrawnAt EXCEPT ![u][k] = jwksNow]
    /\ Excuse({t \in Threads : kid[t] = k})
    /\ UNCHANGED <<jwksNow, reachable, manager, jwksPc, kid, found, held, retry>>

GoDown ==
    /\ Event
    /\ reachable
    /\ reachable' = FALSE
    /\ Excuse(Threads)
    /\ UNCHANGED <<jwksNow, published, withdrawnAt, manager, jwksPc, kid, found, held, retry>>

ComeUp ==
    /\ ~reachable
    /\ reachable' = TRUE
    /\ UNCHANGED <<jwksNow, published, withdrawnAt, manager, jwksPc, kid, found, held, retry, excused, events>>

JwksTick ==
    /\ jwksNow < JwksMaxTime
    /\ \A t \in Threads : jwksPc[t] = "idle"
    /\ jwksNow' = jwksNow + 1
    /\ UNCHANGED <<jwksEndpoint, manager, jwksPc, kid, found, held, retry, excused, events>>

JwksNext ==
    \/ \E t \in Threads, k \in Keys : SigningKeyFor(t, k)
    \/ \E t \in Threads :
          \/ ReadUri(t) \/ NotRegistered(t) \/ UseClient(t) \/ BuildClient(t)
          \/ CreateClient(t) \/ TakeClient(t) \/ ClientGone(t)
          \/ Resolve(t) \/ FailOnce(t) \/ PopClient(t) \/ FailTwice(t)
    \/ \E u \in Uris : RegisterIssuer(u)
    \/ \E u \in Uris, k \in Keys : Publish(u, k) \/ Withdraw(u, k)
    \/ GoDown \/ ComeUp \/ JwksTick

JwksSpec == JwksInit /\ [][JwksNext]_jwksVars

-----------------------------------------------------------------------------
(* "keeps verification working through a rotation without an outage        *)
(* window" (jwks.py): a key that its transmitter serves during the whole   *)
(* call is resolved, whatever stale client the dictionary holds, unless    *)
(* the issuer is registered anew, or another thread pops the client or     *)
(* puts back one for the replaced URI, while the call is at work.          *)
ServedKeyResolves ==
    [][\A t \in Threads : jwksPc[t] # "idle" /\ jwksPc'[t] = "idle" => Resolve(t) \/ excused[t]]_jwksVars

(* "We cache each issuer's key set for a short TTL": no SET is verified    *)
(* with a key that was withdrawn longer than the TTL ago.                  *)
WithdrawnKeyDies ==
    [][\A t \in Threads :
          Resolve(t) => jwksNow <= withdrawnAt[held[t].uri][kid[t]] + Ttl]_jwksVars

(* Nor with a key of a jwks_uri that was replaced longer than the TTL ago, *)
(* even if a thread put a client for it back after the registration.       *)
OldRegistrationDies ==
    [][\A t \in Threads :
          Resolve(t) /\ held[t].uri # uri => jwksNow <= registeredAt + Ttl]_jwksVars
=============================================================================
