----------------------------- MODULE StartupProofs -----------------------------
(* Proofs about Startup, for any number of writes and kills at any time:   *)
(* the listener is never downgraded, and the two looks at the CA bundle    *)
(* fit together.                                                           *)
EXTENDS Startup, TLAPS

Variables == {"SSL_CERT_FILE", "CA_BUNDLE_PATH"}

(* The variable has not been judged yet. *)
Awaits(v) == todo = CaVariables \/ (v = "CA_BUNDLE_PATH" /\ todo = <<"CA_BUNDLE_PATH">>)

(* The lists of variables to sanitize, one after the other. *)
LEMMA TodoFacts ==
    /\ CaVariables # <<>> /\ <<"CA_BUNDLE_PATH">> # <<>> /\ CaVariables # <<"CA_BUNDLE_PATH">>
    /\ Head(CaVariables) = "SSL_CERT_FILE" /\ Tail(CaVariables) = <<"CA_BUNDLE_PATH">>
    /\ Head(<<"CA_BUNDLE_PATH">>) = "CA_BUNDLE_PATH" /\ Tail(<<"CA_BUNDLE_PATH">>) = <<>>
  BY DEF CaVariables

(* What a write leaves is a disk. *)
LEMMA DiskFacts ==
    /\ disk \in Disk => disk.bundle \in {"absent", "empty", "junk", "pem"}
    /\ \A content \in {"absent", "empty", "junk", "pem"} :
          disk \in Disk => [disk EXCEPT !["bundle"] = content] \in Disk
    /\ \A file \in {"cert", "key"}, content \in KeyFile :
          disk \in Disk => [disk EXCEPT ![file] = content] \in Disk
  BY DEF Disk

(* One more change is still within the bound. *)
LEMMA ChangeFacts == TypeOK /\ Change => changes' \in 0 .. MaxChanges
<1> SUFFICES ASSUME TypeOK, Change PROVE changes' \in 0 .. MaxChanges
  OBVIOUS
<1>1. changes \in 0 .. MaxChanges /\ changes < MaxChanges /\ changes' = changes + 1
  BY DEF TypeOK, Change
<1>2. MaxChanges \in Nat
  BY StartupAssumption
<1> QED
  BY <1>1, <1>2

(* Who writes a file changes nothing else but what has been seen. *)
LEMMA WriteTypeOK ==
  ASSUME TypeOK, NEW file, NEW content, Write(file, content), [disk EXCEPT ![file] = content] \in Disk,
         seen' \subseteq {"absent", "empty", "junk", "pem"}
  PROVE  TypeOK'
<1>1. changes' \in 0 .. MaxChanges /\ disk' \in Disk
  BY ChangeFacts DEF Write
<1>2. UNCHANGED <<config, env, pc, todo, listener, policy, path, client>>
  BY DEF Write, Change, building
<1> QED
  BY <1>1, <1>2 DEF TypeOK

(* Every step keeps the types. *)
LEMMA NextTypeOK == TypeOK /\ [Next]_vars => TypeOK'
<1> SUFFICES ASSUME TypeOK, [Next]_vars PROVE TypeOK'
  OBVIOUS
<1> USE TodoFacts, StartupAssumption DEF TypeOK, Starting, Up, Exit, Goto, building
<1>1. CASE Launch
  <2>1. /\ config' \in Configs /\ disk' \in Disk
        /\ todo' \in {<<>>, <<"CA_BUNDLE_PATH">>, CaVariables} /\ todo' # <<>>
        /\ env' \subseteq {"SSL_CERT_FILE", "CA_BUNDLE_PATH"}
    BY <1>1 DEF Launch
  <2>2. pc' = "sanitize" /\ listener = "none" /\ listener' = listener
    BY <1>1 DEF Launch
  <2>3. client' \in Trusts
    BY <1>1 DEF Launch, Trusts
  <2>4. seen' \subseteq {"absent", "empty", "junk", "pem"} /\ changes' \in 0 .. MaxChanges
    BY <1>1, DiskFacts DEF Launch
  <2>5. policy' \in BOOLEAN /\ path' \in BOOLEAN
    BY <1>1 DEF Launch
  <2> QED
    BY <2>1, <2>2, <2>3, <2>4, <2>5
<1>2. ASSUME NEW keep \in BOOLEAN, Judge(keep), todo # <<>>,
             UNCHANGED <<config, disk, building, seen, changes>>
      PROVE  TypeOK'
  BY <1>2 DEF Judge
<1>3. CASE Sanitize
  BY <1>2, <1>3 DEF Sanitize
<1>4. CASE SanitizeSize
  BY <1>2, <1>4 DEF SanitizeSize
<1>5. CASE SanitizeLoad
  BY <1>2, <1>5 DEF SanitizeLoad
<1>6. CASE Validate
  BY <1>6 DEF Validate
<1>7. CASE TlsKwargs
  BY <1>7 DEF TlsKwargs
<1>8. CASE LoadKeyPair
  BY <1>8 DEF LoadKeyPair
<1>9. ASSUME NEW library \in {"construct httpx", "construct PyJWK"}, NEW verify \in BOOLEAN,
             NewClient(library, verify)
      PROVE  TypeOK'
  BY <1>9 DEF NewClient, FindBundle
<1>10. CASE Construct
  BY <1>10 DEF Construct, Trusted, Trusts
<1>15. CASE ImportApp
  BY <1>15 DEF ImportApp, FindBundle, Configs
<1>16. CASE Bind
  <2>1. client' \in Trusts
    BY <1>16 DEF Bind, Trusted, Trusts
  <2> QED
    BY <1>16, <2>1 DEF Bind
<1>11. ASSUME NEW content \in {"absent", "empty", "junk", "pem"}, Write("bundle", content) PROVE TypeOK'
  <2>1. seen' \subseteq {"absent", "empty", "junk", "pem"}
    BY <1>11 DEF Write
  <2> QED
    BY <1>11, <2>1, DiskFacts, WriteTypeOK
<1>12. ASSUME NEW file \in {"cert", "key"}, NEW content \in KeyFile, Write(file, content) PROVE TypeOK'
  <2>1. seen' = seen
    BY <1>12 DEF Write
  <2> QED
    BY <1>12, <2>1, DiskFacts, WriteTypeOK
<1>13. CASE Kill
  BY <1>13, ChangeFacts DEF Kill, Change
<1>14. CASE UNCHANGED vars
  BY <1>14 DEF vars
<1> QED
  BY <1>1, <1>3, <1>4, <1>5, <1>6, <1>7, <1>8, <1>9, <1>10, <1>11, <1>12, <1>13, <1>14, <1>15, <1>16
  DEF Next, StartStep

(* The variables keep to their types. *)
THEOREM Typing == Spec => []TypeOK
<1>1. Init => TypeOK
  <2> SUFFICES ASSUME Init PROVE TypeOK
    OBVIOUS
  <2>1. changes = 0 /\ MaxChanges \in Nat
    BY StartupAssumption DEF Init
  <2>2. changes \in 0 .. MaxChanges
    BY ONLY <2>1
  <2>3. /\ config \in Configs /\ disk \in Disk /\ pc = "down" /\ env = {} /\ todo = <<>> /\ listener = "none"
        /\ policy \in BOOLEAN /\ path \in BOOLEAN /\ client \in Trusts /\ seen = {}
    BY DEF Init, Trusts
  <2> QED
    BY <2>2, <2>3 DEF TypeOK, Up
<1> QED
  BY <1>1, NextTypeOK, PTL DEF Spec

-----------------------------------------------------------------------------
(* Whoever gets past the validators has a configuration they accept. *)
Validated ==
    /\ pc \in {"tls", "cert size", "key", "key size", "load", "import", "import httpx"} \cup Up => SettingsAccepted
    /\ listener = "http" => ~TlsEnabled

(* Every step keeps it. *)
LEMMA NextValidated == TypeOK /\ Validated /\ [Next]_vars => Validated'
<1> SUFFICES ASSUME TypeOK, Validated, [Next]_vars PROVE Validated'
  OBVIOUS
<1>1. config' = config
  BY DEF Next, StartStep, vars, Launch, Sanitize, SanitizeSize, SanitizeLoad, Validate, TlsKwargs,
         LoadKeyPair, ImportApp, Bind, NewClient, FindBundle, Construct, Write, Kill, Change
<1>2. SettingsAccepted' = SettingsAccepted /\ TlsEnabled' = TlsEnabled
  BY <1>1 DEF SettingsAccepted, TlsEnabled
<1> USE <1>2 DEF Validated, Up, Exit, Goto
<1>3. CASE Launch \/ Sanitize \/ SanitizeSize \/ SanitizeLoad
  BY <1>3 DEF Launch, Sanitize, SanitizeSize, SanitizeLoad, Judge
<1>4. CASE Validate \/ TlsKwargs \/ LoadKeyPair
  BY <1>4 DEF Validate, TlsKwargs, LoadKeyPair
<1>5. CASE ImportApp \/ Bind
  BY <1>5 DEF ImportApp, Bind, FindBundle
<1>6. CASE Construct \/ \E library \in {"construct httpx", "construct PyJWK"}, verify \in BOOLEAN :
                           NewClient(library, verify)
  BY <1>6 DEF Construct, NewClient, FindBundle
<1>7. ASSUME NEW file \in {"bundle", "cert", "key"}, NEW content, Write(file, content) PROVE Validated'
  BY <1>7 DEF Write
<1>8. CASE Kill
  BY <1>8 DEF Kill
<1>9. CASE UNCHANGED vars
  BY <1>9 DEF vars
<1> QED
  BY <1>3, <1>4, <1>5, <1>6, <1>7, <1>8, <1>9 DEF Next, StartStep

(* "Refusing to start rather than downgrade to plaintext http": whatever   *)
(* the files hold whenever they are looked at, a listener speaks plain     *)
(* HTTP only if neither path is set, and none runs with a weak admin key.  *)
THEOREM NoDowngradeHolds == Spec => []NoDowngrade
<1>1. Init => Validated
  BY DEF Init, Validated, Up
<1>2. TypeOK /\ Validated => NoDowngrade
  BY DEF TypeOK, Configs, Validated, NoDowngrade, SettingsAccepted, TlsEnabled
<1> QED
  BY <1>1, <1>2, Typing, NextValidated, PTL DEF Spec

-----------------------------------------------------------------------------
(* The bundle has been unusable at some moment since the launch. *)
Spoiled == \E content \in seen : content # "pem"

(* Each variable that was judged tells of a moment since the launch, and   *)
(* so do the path found and the client built.                              *)
Told ==
    /\ pc # "down" => disk.bundle \in seen
    /\ pc # "down" => \A v \in Variables : ~Awaits(v) => IF v \in env THEN "pem" \in seen ELSE Spoiled
    /\ pc # "down" => \A v \in Variables : Awaits(v) => v \in env
    /\ pc \in {"import httpx", "construct httpx", "construct PyJWK"} /\ policy => IF path THEN "pem" \in seen ELSE Spoiled
    /\ client = "public" => Spoiled
    /\ client = "raised" => Spoiled /\ "pem" \in seen

(* Every step keeps it. *)
LEMMA NextTold == TypeOK /\ Told /\ [Next]_vars => Told'
<1> SUFFICES ASSUME TypeOK, Told, [Next]_vars PROVE Told'
  OBVIOUS
<1> USE TodoFacts DEF TypeOK, Told, Spoiled, Awaits, Variables, Starting, Up, Exit, Goto, building
<1>1. CASE Launch
  BY <1>1 DEF Launch
<1>2. ASSUME NEW keep \in BOOLEAN, Judge(keep), todo # <<>>, pc # "down",
             keep <=> disk.bundle = "pem",
             UNCHANGED <<config, disk, building, seen, changes>>
      PROVE  Told'
  BY <1>2 DEF Judge
<1>3. CASE Sanitize
  BY <1>2, <1>3 DEF Sanitize
<1>4. CASE SanitizeSize
  BY <1>2, <1>4 DEF SanitizeSize
<1>5. CASE SanitizeLoad
  BY <1>2, <1>5 DEF SanitizeLoad
<1>6. CASE Validate
  BY <1>6 DEF Validate
<1>7. CASE TlsKwargs
  BY <1>7 DEF TlsKwargs
<1>8. CASE LoadKeyPair
  BY <1>8 DEF LoadKeyPair
<1>9. ASSUME NEW library \in {"construct httpx", "construct PyJWK"}, NEW verify \in BOOLEAN,
             NewClient(library, verify)
      PROVE  Told'
  BY <1>9 DEF NewClient, FindBundle
<1>10. CASE Construct
  BY <1>10 DEF Construct, Trusted
<1>15. CASE ImportApp
  BY <1>15 DEF ImportApp, FindBundle
<1>16. CASE Bind
  BY <1>16 DEF Bind, Trusted
<1>11. ASSUME NEW content \in {"absent", "empty", "junk", "pem"}, Write("bundle", content) PROVE Told'
  BY <1>11 DEF Write, Change, Disk
<1>12. ASSUME NEW file \in {"cert", "key"}, NEW content \in KeyFile, Write(file, content) PROVE Told'
  BY <1>12 DEF Write, Change, Disk
<1>13. CASE Kill
  BY <1>13 DEF Kill, Change
<1>14. CASE UNCHANGED vars
  BY <1>14 DEF vars
<1> QED
  BY <1>1, <1>3, <1>4, <1>5, <1>6, <1>7, <1>8, <1>9, <1>10, <1>11, <1>12, <1>13, <1>14, <1>15, <1>16
  DEF Next, StartStep

(* A bundle that stays good from the launch on is trusted by every client  *)
(* that verifies, and one that stays bad or away breaks none.              *)
THEOREM ClientFitsBundleHolds == Spec => []ClientFitsBundle
<1>1. Init => Told
  BY DEF Init, Told, Spoiled
<1>2. Told => ClientFitsBundle
  BY DEF Told, Spoiled, ClientFitsBundle
<1> QED
  BY <1>1, <1>2, Typing, NextTold, PTL DEF Spec
=============================================================================
