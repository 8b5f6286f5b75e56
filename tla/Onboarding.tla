------------------------------ MODULE Onboarding ------------------------------
(***************************************************************************)
(* The admin API that makes a transmitter known: by hand, or by SSF        *)
(* discovery with the creation of a push stream.  It has to keep three     *)
(* things in step: the stream at the transmitter, the registry and the     *)
(* JWKS manager of a pod.                                                  *)
(*                                                                         *)
(* The handlers are coroutines on the event loop of their pod: they        *)
(* interleave at their awaits (the metadata requests, the creation, the    *)
(* closing of the client).  Pool threads that verify SETs may look at the  *)
(* registry and the JWKS manager at any time, also between the two calls   *)
(* that register.  The module follows one issuer.                          *)
(*                                                                         *)
(* A name begins with Admin where SetVerifier or JwksManager, which are    *)
(* proved about in the same module, have the plain one.                    *)
(***************************************************************************)
EXTENDS Integers

CONSTANTS
    Handlers,      \* admin requests at work
    Pods,
    NoPod,
    Audiences,     \* aud values
    NoAudience,    \* the request's body has no expected_audience
    EmptyAudience, \* its expected_audience is the empty string
    DefaultAudience, \* receiver_base_url
    Faults,        \* "lost": a reply is lost or unreadable; "crash"
    MaxStreams     \* bound on the streams ever created

ASSUME OnboardingAssumption ==
    /\ NoPod \notin Pods
    /\ NoAudience \notin Audiences /\ EmptyAudience \notin Audiences \cup {NoAudience}
    /\ DefaultAudience \in Audiences
    /\ Faults \subseteq {"lost", "crash"}
    /\ MaxStreams \in Nat

VARIABLES
    stream,        \* the receiver's stream at the transmitter
    created,       \* streams ever created; their ids are 1 .. created
    registries,    \* transmitter_registry of each pod
    policies,      \* jwks_manager of each pod: the TLS policy registered
    adminPc,       \* the next step of each handler
    req,           \* its pod and its body
    config,        \* the TransmitterConfig it is building
    stranded       \* history: a fault took a stream's registration away

adminVars == <<stream, created, registries, policies, adminPc, req, config, stranded>>

-----------------------------------------------------------------------------
NoId == 0

Stream == [id : 1 .. MaxStreams, aud : Audiences, tells : BOOLEAN]
NoStream == [id |-> NoId, aud |-> NoAudience, tells |-> FALSE]

(* expected_audience of a request's body. *)
Asked == Audiences \cup {NoAudience, EmptyAudience}

(* asked: what the request's body said of the audience. *)
Config == [id : 0 .. MaxStreams, aud : Audiences, tls : BOOLEAN, asked : Asked]
NoConfig == [id |-> NoId, aud |-> NoAudience, tls |-> FALSE, asked |-> NoAudience]

Request == [pod : Pods \cup {NoPod}, aud : Asked, tls : BOOLEAN]

AdminSteps == {"idle", "fetch", "create", "close", "keys"}

AdminTypeOK ==
    /\ stream \in Stream \cup {NoStream}
    /\ created \in 0 .. MaxStreams
    /\ stream.id <= created
    /\ registries \in [Pods -> Config \cup {NoConfig}]
    /\ policies \in [Pods -> {"none", "verify", "trust"}]
    /\ adminPc \in [Handlers -> AdminSteps]
    /\ req \in [Handlers -> Request]
    /\ config \in [Handlers -> Config \cup {NoConfig}]
    /\ \A h \in Handlers : adminPc[h] \in {"create", "close", "keys"} => config[h] # NoConfig
    /\ stranded \in BOOLEAN

NoRequest == [pod |-> NoPod, aud |-> NoAudience, tls |-> FALSE]

AdminInit ==
    /\ stream = NoStream
    /\ created = 0
    /\ registries = [p \in Pods |-> NoConfig]
    /\ policies = [p \in Pods |-> "none"]
    /\ adminPc = [h \in Handlers |-> "idle"]
    /\ req = [h \in Handlers |-> NoRequest]
    /\ config = [h \in Handlers |-> NoConfig]
    /\ stranded = FALSE

AdminGoto(h, step) == adminPc' = [adminPc EXCEPT ![h] = step]

(* The handler answers: 201, or 500 or 502 with nothing registered. *)
Answer(h) ==
    /\ AdminGoto(h, "idle")
    /\ req' = [req EXCEPT ![h] = NoRequest]
    /\ config' = [config EXCEPT ![h] = NoConfig]

(* No handler of the pod is between two awaits. *)
LoopFree(p) == \A h \in Handlers : adminPc[h] = "keys" => req[h].pod # p

Policy(tls) == IF tls THEN "verify" ELSE "trust"

-----------------------------------------------------------------------------
(* register_transmitter_via_discovery. *)
Discover(h, p, aud, tls) ==
    /\ adminPc[h] = "idle"
    /\ LoopFree(p)
    /\ AdminGoto(h, "fetch")
    /\ req' = [req EXCEPT ![h] = [pod |-> p, aud |-> aud, tls |-> tls]]
    /\ UNCHANGED <<stream, created, registries, policies, config, stranded>>

(* The last of the URLs that ssf_configuration_urls derives does not       *)
(* answer, or not with 200 and JSON (the ones before it change nothing     *)
(* when they fail), or the document has no issuer or jwks_uri: a 502.      *)
FetchFails(h) ==
    /\ adminPc[h] = "fetch"
    /\ LoopFree(req[h].pod)
    /\ Answer(h)
    /\ UNCHANGED <<stream, created, registries, policies, stranded>>

(* expected_audience or receiver_base_url: the empty string is no choice   *)
(* here, though it will be one when the stream's answer is read.           *)
Guess(asked) == IF asked \in Audiences THEN asked ELSE DefaultAudience

FetchSucceeds(h) ==
    /\ adminPc[h] = "fetch"
    /\ LoopFree(req[h].pod)
    /\ config' = [config EXCEPT ![h] =
           [id |-> NoId, tls |-> req[h].tls, asked |-> req[h].aud, aud |-> Guess(req[h].aud)]]
    /\ req' = [req EXCEPT ![h] = [NoRequest EXCEPT !.pod = req[h].pod]]
    /\ AdminGoto(h, "create")
    /\ UNCHANGED <<stream, created, registries, policies, stranded>>

(* The transmitter creates a stream when the receiver has none.  Not every *)
(* transmitter tells the audience in its answer.                           *)
NewStream(aud, tells) ==
    /\ stream = NoStream
    /\ created < MaxStreams
    /\ created' = created + 1
    /\ stream' = [id |-> created + 1, aud |-> aud, tells |-> tells]

(* Mutant: the guess is kept. *)
Expected_Guess(h, aud, tells) == config[h].aud

(* What the bridge then expects: the audience told, if the request's       *)
(* expected_audience is None.                                              *)
Expected(h, aud, tells) ==
    IF tells /\ config[h].asked = NoAudience THEN aud ELSE config[h].aud

(* Mutant: an answer without an audience is an error. *)
CreateStream_NeedsAud(h, aud, tells) ==
    /\ adminPc[h] = "create"
    /\ NewStream(aud, tells)
    /\ IF tells
       THEN /\ config' = [config EXCEPT ![h].id = created + 1, ![h].aud = Expected(h, aud, tells)]
            /\ AdminGoto(h, "close")
            /\ UNCHANGED req
       ELSE Answer(h)
    /\ UNCHANGED <<registries, policies, stranded>>

CreateStream(h, aud, tells) ==
    /\ adminPc[h] = "create"
    /\ NewStream(aud, tells)
    /\ config' = [config EXCEPT ![h].id = created + 1, ![h].aud = Expected(h, aud, tells)]
    /\ AdminGoto(h, "close")
    /\ UNCHANGED <<registries, policies, req, stranded>>

(* StreamManagementError: the transmitter has no endpoint, or refuses; it  *)
(* does so with 409 when there is a stream.                                *)
CreateRefused(h) ==
    /\ adminPc[h] = "create"
    /\ Answer(h)
    /\ UNCHANGED <<stream, created, registries, policies, stranded>>

(* An httpx error or an answer that is not JSON, which nobody catches: the *)
(* stream exists all the same.                                             *)
CreateLost(h, aud, tells) ==
    /\ adminPc[h] = "create"
    /\ "lost" \in Faults
    /\ NewStream(aud, tells)
    /\ Answer(h)
    /\ stranded' = TRUE
    /\ UNCHANGED <<registries, policies>>

(* The client is closed; the registry takes the configuration. *)
RegisterDiscovered(h) ==
    /\ adminPc[h] = "close"
    /\ LoopFree(req[h].pod)
    /\ registries' = [registries EXCEPT ![req[h].pod] = config[h]]
    /\ AdminGoto(h, "keys")
    /\ UNCHANGED <<stream, created, policies, req, config, stranded>>

(* register_transmitter_manual. *)
RegisterManually(h, p, aud, tls) ==
    /\ adminPc[h] = "idle"
    /\ LoopFree(p)
    /\ req' = [req EXCEPT ![h] = [NoRequest EXCEPT !.pod = p]]
    /\ config' = [config EXCEPT ![h] = [id |-> NoId, aud |-> aud, tls |-> tls, asked |-> aud]]
    /\ registries' = [registries EXCEPT ![p] = config'[h]]
    /\ AdminGoto(h, "keys")
    /\ UNCHANGED <<stream, created, policies, stranded>>

(* Mutant: the policy of an earlier registration stays. *)
RegisterInJwks_Once(h) ==
    LET p == req[h].pod IN
    /\ adminPc[h] = "keys"
    /\ policies' = [policies EXCEPT ![p] = IF @ = "none" THEN Policy(config[h].tls) ELSE @]
    /\ Answer(h)
    /\ UNCHANGED <<stream, created, registries, stranded>>

(* jwks_manager.register_issuer; the handler answers 201. *)
RegisterInJwks(h) ==
    LET p == req[h].pod IN
    /\ adminPc[h] = "keys"
    /\ policies' = [policies EXCEPT ![p] = Policy(config[h].tls)]
    /\ Answer(h)
    /\ UNCHANGED <<stream, created, registries, stranded>>

-----------------------------------------------------------------------------
(* A pod restarts: the registry, the JWKS manager and its requests are     *)
(* gone.                                                                   *)
Crash(p) ==
    LET mine == {h \in Handlers : req[h].pod = p} IN
    /\ "crash" \in Faults
    /\ registries' = [registries EXCEPT ![p] = NoConfig]
    /\ policies' = [policies EXCEPT ![p] = "none"]
    /\ adminPc' = [h \in Handlers |-> IF h \in mine THEN "idle" ELSE adminPc[h]]
    /\ req' = [h \in Handlers |-> IF h \in mine THEN NoRequest ELSE req[h]]
    /\ config' = [h \in Handlers |-> IF h \in mine THEN NoConfig ELSE config[h]]
    /\ stranded' = (stranded \/ registries[p] # NoConfig \/ \E h \in mine : adminPc[h] = "close")
    /\ UNCHANGED <<stream, created>>

(* The operator deletes the stream at the transmitter. *)
DeleteStream ==
    /\ stream # NoStream
    /\ stream' = NoStream
    /\ UNCHANGED <<created, registries, policies, adminPc, req, config, stranded>>

AdminNext ==
    \/ \E h \in Handlers, p \in Pods, tls \in BOOLEAN :
          \/ \E aud \in Asked : Discover(h, p, aud, tls)
          \/ \E aud \in Audiences : RegisterManually(h, p, aud, tls)
    \/ \E h \in Handlers :
          \/ FetchFails(h) \/ FetchSucceeds(h)
          \/ CreateRefused(h) \/ RegisterDiscovered(h) \/ RegisterInJwks(h)
    \/ \E h \in Handlers, aud \in Audiences, tells \in BOOLEAN :
          CreateStream(h, aud, tells) \/ CreateLost(h, aud, tells)
    \/ \E p \in Pods : Crash(p)
    \/ DeleteStream

AdminSpec == AdminInit /\ [][AdminNext]_adminVars

-----------------------------------------------------------------------------
(* "IssuerNotRegistered if the registry and the JWKS manager have drifted  *)
(* apart" (set_verifier.py): they differ, in what is registered or in the  *)
(* TLS policy, only while a handler is between its two calls.              *)
RegistryAndKeysAgree ==
    \A p \in Pods :
        LoopFree(p) =>
            policies[p] = IF registries[p] = NoConfig THEN "none" ELSE Policy(registries[p].tls)

(* A pod that got its configuration with the stream that exists expects    *)
(* the audience this stream's SETs carry, where the transmitter told it    *)
(* and the request left it open, and otherwise the one that the operator   *)
(* chose; requests at work at the same time do not mix their streams up.   *)
(* After a request with an empty expected_audience the pod expects the     *)
(* receiver's own URL whatever the transmitter tells, which is not the     *)
(* audience of the stream and was nobody's choice.                         *)
AudienceOfStream ==
    \A p \in Pods :
        LET c == registries[p] IN
        c.id # NoId /\ c.id = stream.id =>
            /\ c.asked \in Audiences => c.aud = c.asked
            /\ c.asked = NoAudience /\ stream.tells => c.aud = stream.aud
            /\ c.asked = EmptyAudience \/ (c.asked = NoAudience /\ ~stream.tells) => c.aud = DefaultAudience

(* SETs of the stream find a pod that knows the issuer, or a handler about *)
(* to register it, unless a reply was lost or a pod restarted.             *)
StreamIsServed ==
    stream # NoStream /\ ~stranded =>
        \/ \E p \in Pods : registries[p] # NoConfig
        \/ \E h \in Handlers : adminPc[h] = "close" /\ config[h].id = stream.id
=============================================================================
