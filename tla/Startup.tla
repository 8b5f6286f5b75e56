-------------------------------- MODULE Startup --------------------------------
(***************************************************************************)
(* A pod from launch to listener, and the clients it builds: the CA bundle *)
(* is examined while app.config is imported, the settings are validated,   *)
(* __main__ looks at the key pair, uvicorn loads it and then app.main,     *)
(* whose import builds the client of BIG-IP.  The files are mounted; what  *)
(* writes them works asynchronously and may strike between any two looks.  *)
(*                                                                         *)
(* SSL_CERT_FILE and CA_BUNDLE_PATH name one file, as in                   *)
(* k8s/01-configmap.yaml; the other two variables that are sanitized are   *)
(* read by none of the libraries used.                                     *)
(***************************************************************************)
EXTENDS Naturals, Sequences

CONSTANTS
    Pairs,         \* key pairs that may be issued
    MaxChanges     \* bound on writes to files and on pods killed

NoPair == {"absent", "empty", "junk"}

ASSUME StartupAssumption == Pairs \cap NoPair = {} /\ MaxChanges \in Nat

VARIABLES
    config,        \* the environment: admin key, which TLS paths it sets, and
                   \* bigip_verify_tls
    disk,          \* what each file holds
    pc,            \* the next step of the pod
    env,           \* the CA variables still in os.environ
    todo,          \* those still to sanitize
    listener,      \* what uvicorn binds, "none" before
    policy,        \* verify_tls of the client being built
    path,          \* the bundle that valid_ca_bundle_path found, if any
    client,        \* whom the last client trusts
    seen,          \* history: what the bundle held since the pod was launched
    changes        \* writes and kills so far

vars == <<config, disk, pc, env, todo, listener, policy, path, client, seen, changes>>
building == <<policy, path, client>>

-----------------------------------------------------------------------------
CaVariables == <<"SSL_CERT_FILE", "CA_BUNDLE_PATH">>

Configs ==
    [adminKey : {"placeholder", "short", "not ascii", "good"}, certFile : BOOLEAN, keyFile : BOOLEAN,
     bigipVerify : BOOLEAN]

KeyFile == NoPair \cup Pairs

Disk == [bundle : {"absent", "empty", "junk", "pem"}, cert : KeyFile, key : KeyFile]

Trusts == {"nothing yet", "bundle", "public", "anyone", "raised"}

Starting ==
    {"sanitize", "sanitize size", "sanitize load", "settings", "tls",
     "cert size", "key", "key size", "load", "import", "import httpx"}

Up == {"serving", "construct httpx", "construct PyJWK"}

TypeOK ==
    /\ config \in Configs
    /\ disk \in Disk
    /\ pc \in {"down"} \cup Starting \cup Up
    /\ env \subseteq {"SSL_CERT_FILE", "CA_BUNDLE_PATH"}
    /\ todo \in {<<>>, <<"CA_BUNDLE_PATH">>, CaVariables}
    /\ pc \in {"sanitize", "sanitize size", "sanitize load"} <=> todo # <<>>
    /\ listener \in {"none", "http", "https"}
    /\ listener # "none" <=> pc \in Up
    /\ policy \in BOOLEAN /\ path \in BOOLEAN
    /\ client \in Trusts
    /\ seen \subseteq {"absent", "empty", "junk", "pem"}
    /\ changes \in 0 .. MaxChanges

Init ==
    /\ config \in Configs
    /\ disk \in Disk
    /\ pc = "down"
    /\ env = {}
    /\ todo = <<>>
    /\ listener = "none"
    /\ policy = TRUE
    /\ path = FALSE
    /\ client = "nothing yet"
    /\ seen = {}
    /\ changes = 0

(* The process ends. *)
Exit ==
    /\ pc' = "down"
    /\ listener' = "none"
    /\ todo' = <<>>

Goto(step) ==
    /\ pc' = step
    /\ UNCHANGED <<listener, todo>>

-----------------------------------------------------------------------------
(* The kubelet starts the container, at first or again. *)
Launch ==
    /\ pc = "down"
    /\ pc' = "sanitize"
    /\ env' = {"SSL_CERT_FILE", "CA_BUNDLE_PATH"}
    /\ todo' = CaVariables
    /\ client' = "nothing yet"
    /\ seen' = {disk.bundle}
    /\ UNCHANGED <<config, disk, listener, policy, path, changes>>

(* _sanitize_ca_env keeps the variable or pops it, and looks at the next. *)
Judge(keep) ==
    /\ env' = IF keep THEN env ELSE env \ {Head(todo)}
    /\ todo' = Tail(todo)
    /\ pc' = IF Tail(todo) = <<>> THEN "settings" ELSE "sanitize"
    /\ UNCHANGED listener

(* Mutant: the size is asked of a file that is not there. *)
Sanitize_Blind ==
    /\ pc = "sanitize"
    /\ Goto("sanitize size") /\ UNCHANGED env
    /\ UNCHANGED <<config, disk, building, seen, changes>>

Sanitize ==
    /\ pc = "sanitize"
    /\ IF disk.bundle = "absent" THEN Judge(FALSE) ELSE Goto("sanitize size") /\ UNCHANGED env
    /\ UNCHANGED <<config, disk, building, seen, changes>>

(* getsize raises when the file has just gone, and the import fails. *)
SanitizeSize ==
    /\ pc = "sanitize size"
    /\ CASE disk.bundle = "absent" -> Exit /\ UNCHANGED env
         [] disk.bundle = "empty" -> Judge(FALSE)
         [] OTHER -> Goto("sanitize load") /\ UNCHANGED env
    /\ UNCHANGED <<config, disk, building, seen, changes>>

(* Mutant: not loaded, whatever it contains is kept. *)
SanitizeLoad_Keeps ==
    /\ pc = "sanitize load"
    /\ Judge(TRUE)
    /\ UNCHANGED <<config, disk, building, seen, changes>>

SanitizeLoad ==
    /\ pc = "sanitize load"
    /\ Judge(disk.bundle = "pem")
    /\ UNCHANGED <<config, disk, building, seen, changes>>

(* Mutant: half a configuration passes. *)
SettingsAccepted_Halves == config.adminKey = "good"

(* The two validators. *)
SettingsAccepted == config.adminKey = "good" /\ config.certFile = config.keyFile

Validate ==
    /\ pc = "settings"
    /\ IF SettingsAccepted THEN Goto("tls") ELSE Exit
    /\ UNCHANGED <<config, disk, env, building, seen, changes>>

TlsEnabled == config.certFile /\ config.keyFile

(* _tls_kwargs, look by look. *)
TlsKwargs ==
    /\ \/ pc = "tls" /\ IF ~TlsEnabled THEN Goto("load") ELSE IF disk.cert = "absent" THEN Exit ELSE Goto("cert size")
       \/ pc = "cert size" /\ IF disk.cert \in {"absent", "empty"} THEN Exit ELSE Goto("key")
       \/ pc = "key" /\ IF disk.key = "absent" THEN Exit ELSE Goto("key size")
       \/ pc = "key size" /\ IF disk.key \in {"absent", "empty"} THEN Exit ELSE Goto("load")
    /\ UNCHANGED <<config, disk, env, building, seen, changes>>

(* uvicorn gets key files when TLS is enabled, and raises when it cannot   *)
(* load them or they do not belong together.                               *)
LoadKeyPair ==
    /\ pc = "load"
    /\ IF TlsEnabled /\ ~(disk.cert \in Pairs /\ disk.cert = disk.key) THEN Exit ELSE Goto("import")
    /\ UNCHANGED <<config, disk, env, building, seen, changes>>

-----------------------------------------------------------------------------
(* A client is to be built: get_httpx_verify, or get_ssl_context for       *)
(* PyJWKClient, ask valid_ca_bundle_path, which loads the bundle ...       *)
FindBundle(library, verify) ==
    /\ Goto(library)
    /\ policy' = verify
    /\ path' = (verify /\ "CA_BUNDLE_PATH" \in env /\ disk.bundle = "pem")
    /\ UNCHANGED <<config, disk, env, client, seen, changes>>

(* ... and the context loads it again: from the path found, or from        *)
(* SSL_CERT_FILE, which httpx insists on when the file is there and        *)
(* OpenSSL does not.                                                       *)
Trusted(httpx) ==
    CASE ~policy -> "anyone"
      [] policy /\ (path \/ "SSL_CERT_FILE" \in env) /\ disk.bundle = "pem" -> "bundle"
      [] policy /\ path /\ disk.bundle # "pem" -> "raised"
      [] policy /\ ~path /\ "SSL_CERT_FILE" \in env /\ disk.bundle \in {"empty", "junk"} /\ httpx -> "raised"
      [] OTHER -> "public"

(* The import of app.main builds bigip_client, before uvicorn binds.  If   *)
(* that raises, the process ends.                                          *)
ImportApp == pc = "import" /\ FindBundle("import httpx", config.bigipVerify)

Bind ==
    /\ pc = "import httpx"
    /\ client' = Trusted(TRUE)
    /\ IF client' = "raised"
       THEN Exit
       ELSE pc' = "serving" /\ listener' = (IF TlsEnabled THEN "https" ELSE "http") /\ UNCHANGED todo
    /\ UNCHANGED <<config, disk, env, policy, path, seen, changes>>

(* The admin API, the pollers and the JWKS clients build theirs later; an  *)
(* exception ends the request.                                             *)
NewClient(library, verify) == pc = "serving" /\ FindBundle(library, verify)

Construct ==
    /\ pc \in {"construct httpx", "construct PyJWK"}
    /\ Goto("serving")
    /\ client' = Trusted(pc = "construct httpx")
    /\ UNCHANGED <<config, disk, env, policy, path, seen, changes>>

-----------------------------------------------------------------------------
Change ==
    /\ changes < MaxChanges
    /\ changes' = changes + 1
    /\ UNCHANGED <<config, env, building>>

(* cert-manager, the kubelet, an administrator. *)
Write(file, content) ==
    /\ Change
    /\ disk' = [disk EXCEPT ![file] = content]
    /\ seen' = IF file = "bundle" THEN seen \cup {content} ELSE seen
    /\ UNCHANGED <<pc, todo, listener>>

(* A rollout, an eviction. *)
Kill ==
    /\ pc # "down"
    /\ Change
    /\ Exit
    /\ UNCHANGED <<disk, seen>>

StartStep ==
    \/ Launch \/ Sanitize \/ SanitizeSize \/ SanitizeLoad \/ Validate \/ TlsKwargs \/ LoadKeyPair
    \/ ImportApp \/ Bind

Next ==
    \/ StartStep
    \/ \E library \in {"construct httpx", "construct PyJWK"}, verify \in BOOLEAN : NewClient(library, verify)
    \/ Construct
    \/ \E content \in {"absent", "empty", "junk", "pem"} : Write("bundle", content)
    \/ \E file \in {"cert", "key"}, content \in KeyFile : Write(file, content)
    \/ Kill

Spec == Init /\ [][Next]_vars

(* The kubelet launches a pod that exited, and the start-up code runs on. *)
FairSpec == Spec /\ WF_vars(StartStep)

-----------------------------------------------------------------------------
(* "Failing fast matters more than availability": an operator who set      *)
(* either path never gets a plaintext listener, whatever becomes of the    *)
(* files between the looks; and none listens behind a weak admin key.      *)
NoDowngrade ==
    /\ listener = "http" => ~config.certFile /\ ~config.keyFile
    /\ listener # "none" => config.adminKey = "good"

(* The bundle is looked at in two places, at import and again for each     *)
(* client.  One that was good since the launch is trusted by every client  *)
(* that verifies; one that was bad or missing since the launch breaks none *)
(* ("so httpx/requests trust_env does not crash on empty files").          *)
ClientFitsBundle ==
    /\ client = "public" => seen # {"pem"}
    /\ client = "raised" => "pem" \in seen /\ seen # {"pem"}

(* A crash-looping pod comes up by itself once its configuration is        *)
(* accepted, its key pair is there to stay, even if it was populated file  *)
(* by file while the pod looked, and the CA bundle, good or bad, changes   *)
(* no more between the looks at it (MaxChanges).                           *)
Servable ==
    /\ config.adminKey = "good" /\ config.certFile = config.keyFile
    /\ config.certFile => disk.cert \in Pairs /\ disk.cert = disk.key

EventuallyServes == <>[]Servable => []<>(pc \in Up)
=============================================================================
