# A verification of ssf-apm-bridge

TLA+ modules for the SSF-to-APM bridge, TLC configurations that check them on
small instances, and TLAPS proofs of what matters most for instances of every
size. Paths are relative to the repository (`app/...`), line numbers refer to
the commit this development was written against.

To repeat everything: `tlc -config X.cfg M` for each run listed in
`PROJECT.json`, and `tlapm M.tla` for each of `SetIntakeProofs`,
`EnforcementProofs`, `BigIpAuthProofs`, `DecisionCacheProofs`, `PollerProofs`,
`CorrelationStoreProofs`, `VerificationProofs` and `StartupProofs`.

## 1. The system

The bridge receives Security Event Tokens (SETs) from identity providers
("transmitters") and acts on the sessions of F5 BIG-IP APM. There are two ways
to act. The *fast path* kills the APM sessions of a subject over iControl REST.
The *continuous path* stores a decision record that BIG-IP's per-request policy
looks up. A deployment runs one or more pods (`k8s/04-deployment.yaml` sets two
replicas), each one Python process: an event loop that serves the API, and a
pool of threads in which Starlette runs the background tasks that enforce SETs.
Neither the dictionaries the threads share nor the sequences of Redis commands
are locked.

    transmitter --POST /events--> push receiver --task--> SET verifier --> replay guard
                                                               |               |
                                                         JWKS manager    dict or Redis
                                                               |
    admin API --registers--> transmitter registry, JWKS manager
    poller --polls, acknowledges--> transmitter                v
                             enforcement router --+--> correlation store <-- iRule (API)
                                                  +--> BIG-IP client --> iControl REST
                                                  +--> decision cache <-- policy (API)

### Inventory

| component | state | operations | what is hard |
|---|---|---|---|
| push receiver (`ssf/push_receiver.py`) | queued and running tasks | `receive_set` answers 202 and queues; `_process` verifies, asks the guard, dispatches | tasks of several POSTs interleave; 202 is given before the work is done; a crash loses it |
| SET verifier (`security/set_verifier.py`) | none | signature, `typ`, `iss`, `aud`, freshness | time passes after the check; exceptions other than its own |
| replay guard (`replay_guard.py`) | jti to expiry, dict or Redis | `seen`, `mark`, `_sweep` | check-then-mark; marks expire; marked before the work is done; each pod its own dict |
| JWKS manager (`security/jwks.py`) | URI, client, creation time, TLS policy per issuer | `register_issuer`, `signing_key_for` | rotation, outage, registration and other threads between any two steps |
| transmitter registry, admin API (`ssf/registry.py`, `admin.py`) | configuration per issuer | manual registration, discovery with stream creation | three parties to keep in step; lost replies; restarts; replicas |
| stream client (`ssf/stream_client.py`) | an HTTP client | create a stream; status, subjects, verification | one stream per receiver (409) |
| enforcement router (`enforcement/router.py`) | none of its own | dispatch by event, fast path, continuous path, purge, summary | several events per SET, several sessions per event, any call may fail |
| correlation store (`correlation/store.py`) | subject to sessions and back, dict or Redis | `register`, `deregister`, `sessions_for` with TTL | unlocked dictionaries; several commands per call; two TTLs |
| correlation API (`correlation/router_api.py`) | none | register, deregister, lookup | the iRule's calls may be lost or overtake one another |
| decision cache (`decision/cache.py`) | record per subject, dict or Redis | `upsert` (merge), `get` (TTL) | read-merge-write; deletion after a look; unvalidated first record |
| BIG-IP client (`bigip/client.py`) | token and renewal time | login, retry after 401, `terminate_session` | threads share the token unlocked; a 200 may hide a failure |
| poller (`ssf/poller.py`) | none between two cycles | fetch a batch, hand each SET to a handler, acknowledge | redelivery when the acknowledgement is lost or a handler raises; SETs that stay |
| models (`models.py`) | none | parse SETs, `correlation_key` | different subjects must not share a key |
| configuration (`config.py`) | settings, CA variables of the environment | validate, sanitize, find the CA bundle for a client | files change between two looks |
| entry point (`__main__.py`) | the listener | `_tls_kwargs`, `main` | never plain text by accident, yet up in the end |
| API key check, audit log, tools, deployment | none | checks, logging, scripts | nothing with state |

What makes each correct, in a sentence: a SET is enforced once and not dropped
unenforced; a served key verifies and a withdrawn one soon does not; registry,
keys and stream agree; no event on the fast path costs another of its SET, a
session found is killed, a live one is not forgotten before its record is due, a
mapping does not outlive its session; the stores behave like the atomic maps
their callers take them for; signals are merged, not lost, and a 404 is final; no
request carries a token that is known to be bad; a polled SET leaves the
transmitter when it was enforced, and only then; a SET acts on the sessions of
its own subject; a pod serves, and serves what its operator configured.

`PROJECT.json` lists the hazards at their lines.

## 2. The modules

| module | models | state and actions in terms of the code |
|---|---|---|
| `SetIntake` | push receiver, freshness rule, replay guard; several pods | `pending` and `pc` are the tasks; `VerifySet`, `Admit` (`seen`), `Mark`, `Dispatch` are the steps of `_process` between which another thread can run; `marks` is the store, shared or per pod; `StoreFails` breaks any store call off, before or after its effect; `Hang` leaves it unanswered, since the Redis clients have no socket timeout |
| `Enforcement` | enforcement router, correlation API, iRule, outcome of `terminate_session` | one step per call that leaves the thread: `Lookup`, `Kill`/`NotKilled`/`CallBreaks`, `Drop`, `Purge`; `EndEvent` and `Summarize` are the loop and the result; `calls` are the iRule's requests under way; `Expire` is the end of a record's TTL in either store, `Abort` every exception the loop does not catch, those of a continuous event (validation, a localized reason that is no dict) included |
| `SessionDirectory` | what the correlation store promises | one map, changed and read atomically |
| `SessionIndex` | `InMemoryCorrelationStore` | `bySubject`, `buckets`, `sessionTo` are the two dictionaries, the buckets being objects that a thread may hold after they were deleted; a step ends where CPython may switch threads |
| `RedisIndex` | `RedisCorrelationStore` | one step per Redis command; `Break` ends a call after any of them |
| `DecisionCache` | both decision caches, `_merge`, the lookup | `ReadExisting`, `WriteMerged`, `RefuseMerged` (validation), `LookupRedis`, `LookupMemory`, `CheckAge`; a value carries the number of the signal that set it, so that histories can say which signals a 404 disowned (`forgotten`) and which went in unchecked (`poison`) |
| `BigIpAuth` | `_login`, `_auth_headers`, `_request` | the two attributes `token` and `renewAt`, read and written in separate steps; BIG-IP's side (`grants`, `revoked`) is external |
| `JwksManager` | `JWKSManager` and the `PyJWKClient` it uses | `ReadUri`, `UseClient`/`BuildClient`, `CreateClient`, `TakeClient`, `PopClient` are the lines of `_client_for` and `signing_key_for`; PyJWKClient and the transmitter's rotation and outages are external |
| `Onboarding` | both registering admin handlers, on several pods | one action per stretch between two awaits; `stream` is the transmitter's side; `Guess` and `Expected` are the two tests of `expected_audience`, which the empty string passes differently; `RegisterDiscovered` (or `RegisterManually`) and `RegisterInJwks` are apart because verifying threads may look in between |
| `CorrelationStore` | `build_default_correlation_store` | either `SessionIndex` or `RedisIndex`, each with its own variables; the one that is not built stays as it is |
| `MemoryReplay` | `InMemoryReplayStore` under `check_and_mark` | `marks` is the dict; `Iterate`, `Scan`, `Delete` are the loop of `_sweep`, which other threads can disturb; a call ends in `replay`, `raised` or `marked` |
| `Poller` | `poll_once`, over `MemoryReplay`, next to push tasks | `pending` is what the transmitter holds, `batch` and `acked` the locals; one action per await and per outcome of the handler; verification refuses what has become `Stale`; `Crash` restarts the process |
| `SubjectKey` | `correlation_key`, `_stable_member_encoding` | `CorrelationKey` descends into nested users, a recursive function; `OwnKey` is the key of a subject without one: one string, whatever members it was put together from |
| `SetVerifier` | `verify_set`, over `SubjectKey` | `Peek`, `GetTransmitter`, `Decode`, `CheckClaims` are its stages, with `FindUri`, `FindClient`, `MakeClient`, `TakeKept`, `ResolveKey`, `TryAgain` line by line within `signing_key_for`; `Register` and `RegisterKeys` are the two writes of an admin handler; `OtherCreates`, `OtherDates`, `OtherPops` are what other threads in `signing_key_for` do to the client meanwhile |
| `Startup` | `config.py` at import and per client, `_tls_kwargs`, `main` | `pc` goes from look to look; `disk` is what the mounted files hold and changes at any time; `ImportApp` and `Bind` build the BIG-IP client before there is a listener; `client` is whom the last client built trusts |
| `*Proofs` | | theorems, see section 5 |
| `MC_*` | | instances |

How they fit together: `SetIntake` ends where `handle_verified_set` is called,
and `Enforcement` begins there. `Enforcement` uses one atomic map for the
correlation store; `CorrelationStore` shows by refinement that either backend is
that map, `SessionDirectory`: Redis always, the dictionaries as long as calls do
not overlap. `DecisionCache`, `BigIpAuth`, `JwksManager`, `MemoryReplay` and
`SetVerifier` look inside single steps of the first two: the continuous path, a
REST call, a signature check, a look at the replay guard, `VerifySet`.
`Onboarding` fills the state `JwksManager` and `SetVerifier` start from. `Poller`
is the other way into the bridge, and `Startup` what comes before all.

Every operator named `Something_Variant` is a mutant: it changes the operator
`Something` the way a bug would, and the run named in `PROJECT.json` then
refutes the property named there. They show that the properties have teeth.

Conventions: variables marked "history" record what happened and influence no
guard. Counters such as `MaxPosts` are bounds for TLC, not rules of the code.

## 3. The runs

| run | instance | properties |
|---|---|---|
| `intake_redis` | 1 SET, 2 pods, 3 threads, shared Redis, 3 POSTs, 1 crash, failing and hanging calls, clock 0..5 | `OnceUnlessOverlap` `ProcessedStaysMarked` `ReplayDropIsHonest` `EveryTaskEnds` |
| `intake_window` | 1 thread, mark TTL above the maximum age | `AtMostOnce`, violated |
| `enforce_concurrent` | 2 threads, 3 sessions (one id that is not hexadecimal), 2 subjects, 2 SETs out of 4 kinds, hanging store calls, fast path on or off | `NoStaleMapping` `PurgeDropsEveryTarget` `FastEventsCostNoOther` `TargetsEnd` |
| `enforce_faults` | 2 threads, 2 sessions, 2 SETs with several fast events; every fault but the unheeded answer, one record that expires | `LiveStaysMapped` `ReportAddsUp` |
| `correlation` | event loop and pool thread, 2 sessions of a subject. Redis: TTL 2, clock 0..4, calls may break off. Dictionaries: TTL 1, clock 0..2, 3 registrations | `RegisteredIsFound` `OverlooksOnlyUnindexed` `ExpiresUnlessRenewed` `RecordsRemovable` `RegisteredUnlessRaced` `NoErrorUnlessOverlapped` `NoExpiredAnswer` `EitherImplementsDirectory` |
| `decision` | either backend, 2 writers, 1 lookup, 2 fields, 2 values (one refused), 3 signals, TTL 2, clock 0..4 | `KeepsUnlessRaced` `ForgottenStaysForgotten` `RefusedOnlyForPoison` |
| `bigip_auth` | 2 threads, 2 calls, token or Basic, refused and tokenless logins, refused requests, revocations, clock 0..4 | `RetryIsFresh` `NoExpiredToken` `NullHeaderOnlyIfCleared` `EveryCallEnds` |
| `jwks` | 2 threads, 2 URIs, 2 keys, 3 events (registrations, rotations, outages), TTL 1, clock 0..2 | `ServedKeyResolves` `WithdrawnKeyDies` `OldRegistrationDies` |
| `onboarding` | 2 requests, 2 pods, 2 audiences (one asked for, none, or empty), 2 streams, lost replies, restarts | `RegistryAndKeysAgree` `AudienceOfStream` `StreamIsServed` |
| `poll_memory` | poller and 2 pool threads, 2 polled SETs (one refused) and a pushed one, batches of 2, 2 pushes, 2 faults, maximum age and TTL 1, clock 0..2 | `DroppedWasDispatched` `MarkedAgainOnlyIfLapsed` `CycleLeavesOnlyRefused` |
| `verifier` | 2 registrations, SETs with every defect and date, 32 subjects, maximum age, skew and client TTL 1, clock 0..2; any number of other threads | `AcceptedIsInForce` `RefusedForCause` `ActsOnOwnSessions` |
| `startup` | 2 key pairs, every configuration, any files at first, 3 writes or kills | `NoDowngrade` `ClientFitsBundle` `EventuallyServes` |

Type invariants: every state machine has its own proved (`Typing`, `JwksTyping`,
`AdminTyping`, and `StoreTyping` for both backends of the store; section 5), and
no run repeats it.

**Why the bounds are enough.** Two threads (or handlers) suffice for every race
listed: each is between two actors and one record. `intake_redis` has three so
that a race within a pod and one across pods happen in one behaviour. Two
sessions of a subject are needed for "one of several", a third with an unusable
id for the `BigIpError` path, and another subject to see that it is left alone.
Clocks reach past every expiry that the constants imply, including the corner
where iat lies ahead by the skew. In `correlation` the dictionaries need three
registrations: one to fill a bucket, one to expire, one to race with the removal
of both. In `poll_memory` a refused SET sits in every batch next to one that has
to get through, a second pool thread can disturb a sweep of the first, two faults
allow a loss on top of a loss, and the clock lets a mark lapse, and a SET grow too
old, between two deliveries. In `verifier` the clock passes the age limit, the skew
and the TTL of a client, and two registrations are one to be replaced and one to
replace it. In `startup` three changes suffice for a file
that comes, goes and comes again around any look; cert, key and bundle are
looked at by different steps. The subjects of `verifier` are one of every format,
with a member missing, empty, to spare or no string, the delimiter inside, nested
once and twice, formats nobody registered, and pairs that differ in one place. `onboarding`,
`decision` and `poll_memory` use symmetry (in handlers and pods, writers, fields
and pool threads), which is sound because they check safety only.

**What they show, run by run.**

* `intake_redis`: with one store for all pods and marks that last longer than
  maximum age, skew and stall together, a SET gets through twice only when two
  threads look its jti up before either marks it. A replay is never declared of
  a SET that nobody enforced, unless a fault struck between mark and dispatch
  (`_process` marks first). A pod works off every accepted POST, unless all its
  threads hang in Redis calls (`redis.from_url` is given no socket timeout).
* `intake_window`: the advice next to `set_max_age_seconds` in `app/config.py`
  is not enough. A SET dated ahead by the tolerated skew is fresh for longer
  than its mark lasts and is processed again. (The shipped defaults,
  900 s for both and a skew of 120 s, leave that gap.)
* `enforce_concurrent`: while sessions log in, log out, are revoked and purged
  at once, no mapping to a dead session is left when things are quiet, a purge
  is complete, every session found goes unless its thread hangs, and what becomes
  of the sessions of one fast event costs no later event of the SET. A continuous
  event may cost them (section 6).
* `enforce_faults`: whatever call breaks and whatever the iRule's requests do, a
  registered live session stays mapped unless it was purged or its record came to
  the end of its TTL, and the summary counts no session twice.
* `correlation`, on the dictionaries: as long as calls do not overlap, they are
  the promised map, never raise and never answer with what has expired. When
  calls do overlap they lose a registration in three orders of steps, all
  named by `raced` (a sweep that deregisters by id what was registered again since
  its look is one), and may raise `RuntimeError` or `KeyError` (`Scan`, `Clean`);
  records stay removable throughout.
* `correlation`, on Redis: command by command, callers see atomic changes of one
  map whatever breaks off. The weak spots are bounded: a record that a
  deregistration overlooks is one whose session key was not written or has
  expired, and one that outlives its TTL belongs to a subject that logged in
  elsewhere (`EXPIRE` renews the whole hash) or to a registration that stopped
  between HSET and EXPIRE, which leaves a hash without a TTL.
* `decision`: signals get lost only when a thread overwrites or deletes a record
  it has not read (the flag `raced`, which two ordinary upserts can set, on
  Redis as well as in memory), or to validation: then an unacceptable value is in
  the store, where it got unchecked because it came first. Once a lookup has
  answered 404, no older signal comes back; before that, an upsert into the dict
  makes what had expired count again.
* `bigip_auth`: although a 401 seen by one thread drops the token another has
  just fetched, no retry carries the refused token and no request one that
  had expired when its thread looked at the clock. The price is that a thread may find `None` between its two looks.
* `jwks`: a key that is served during the whole call is found, unless the issuer
  is registered anew, or another thread pops the client or puts one for the
  replaced URI back, meanwhile (`excused`). Withdrawn keys and replaced URIs are
  dead after the TTL.
* `onboarding`: registry and JWKS manager of a pod differ only while a handler is
  between its two calls, the audience expected is the one of the stream created
  or the one chosen, and a stream nobody serves needs a lost reply or a restart. An empty
  `expected_audience` is neither: the guess is made (`app/admin.py:135`, `or`) and
  not corrected (`app/admin.py:168`, `is None`), so that the pod expects an audience
  nobody chose.
* `poll_memory`: whatever the unlocked dict of marks does under its sweep,
  whatever is lost and whenever the process restarts, a SET leaves the
  transmitter only when it was dispatched (or its dispatch raised after the
  mark, the hazard `ReplayDropIsHonest` names for push). Redelivery alone never
  enforces twice, because a replay counts as processed and is acknowledged. A
  cycle whose acknowledgement arrives leaves nothing with the transmitter but
  what verification refuses, or failed on. What it refuses stays for good,
  including a SET that was enforced, whose acknowledgement was lost and which has
  grown too old by the next delivery; with `max_events` such SETs the queue stands
  still.
* `verifier`: audience and key come from two places at two times. A registration
  in between can pair the audience of one with the key of the other, and a thread
  in `_client_for` can put a client of the replaced registration back. What is
  accepted was addressed under a registration in force during the call, and signed
  under one, or under one whose client was put back or dated within the TTL before
  the call. A SET that fits the only registration is not refused, unless another
  thread takes the client away or puts an old one there at that moment (`raced`;
  the first is a `KeyError` at `app/security/jwks.py:72`). A SET acts on the
  sessions of the person it is about (`Person`: the nested user, an address in
  lower case; members that are not in the key do not make it another), unless both
  subjects are `Vague`, that is, a member of their key is missing or empty, or
  `iss` or `sub` has the delimiter in it, or one is `Odd`: a member is printed
  although it is no string, or the format is one nobody registered that reads like
  the head of another's keys. `{"format": "email"}` of anybody is `email:`,
  `iss_sub` with `|` in a member is ambiguous, and `{"format": "phone"}` and
  `{"format": "phone_number", "phone_number": "empty"}` are both `phone:empty`,
  against `app/models.py:131-132`, "two different subjects never share a key".
* `startup`: no order of writes to the key files leads to plain HTTP once a path
  is set. A pod that exits between two looks (also with a traceback, as when
  `getsize` finds the bundle gone) is launched again, and serves when its files
  stay; a bundle that turns bad before the BIG-IP client is built at import costs
  one launch. Clients follow the bundle that stayed; one removed by
  `_sanitize_ca_env` because it came late is not trusted until the next launch,
  as the repository's `README.md:286` has it.

One disagreement is documented here and not kept as a run: the docstring of
`handle_verified_set` (`app/enforcement/router.py:121-124`) has it that each event
is dispatched independently. With "transport" in `Faults`, TLC finds
`FastEventsCostNoOther` violated in a few steps, because `_enforce_fast` catches
`FastPathDisabled` and `BigIpError` only (`app/enforcement/router.py:240`): an
httpx error ends the whole SET, and the purge "regardless" is skipped too. And
without any fault a continuous event may raise: `ValidationError` when the record
stored or merged does not validate (`app/decision/cache.py:62,74`),
`AttributeError` when a localized reason is no dict
(`app/enforcement/router.py:107-110`).

**Fairness.** `intake_redis` and `enforce_concurrent` assume weak fairness of each
thread's own steps: the pool runs the tasks it was given and a task is a sequence
of calls that return or raise (REST calls have a timeout of 15 s). A call to Redis
need not: the clients are built without a socket timeout
(`app/replay_guard.py:67`), so either run may leave a thread hanging for ever, and
the properties say what it costs. `bigip_auth` assumes the same of a thread within
`_request`, whose calls all have the timeout. `startup` assumes
that the kubelet launches a container that exited and that the start-up code,
which waits for nothing, runs on. Nothing is assumed of the poller, which nothing
in the repository calls, of the iRule, of transmitters, of writers of files or of
the clock.

**Deadlock.** It is checked where the model can always move (`decision`,
`verifier`, `startup`). Elsewhere the bounds or the end of all work
stop the model rightly.

## 4. Abstractions

* Time is discrete. Two steps of one thread may be any time apart, with two named
  exceptions: `MaxStall` bounds the time between the freshness check and the
  lookup in `SetIntake`, and between a login's answer and the assignment of
  `_token_expires_at` in `BigIpAuth` (the code has a margin there, but no rule);
  in `JwksManager` a call takes no time compared with the TTL of the key set.
* A SET is its jti, its subject and its events; a subject is its correlation key.
  Signature, `typ`, `iss` and `aud` checks are one nondeterministic refusal in
  `SetIntake`; in `SetVerifier` a SET is its first defect, issuer, signer,
  audience and date.
* Python threads may switch after a call and at the back edge of a loop, as
  CPython 3.12 does; dictionary operations themselves are atomic.
* Redis commands are atomic, and may be carried out although the caller sees an
  error.
* The correlation API registers each session once in `Enforcement` and
  `RedisIndex`, as the iRule in `docs/apm-integration.md` does;
  `SessionIndex` also registers again, under the same subject.
* In `SubjectKey` a string is the sequence of its words and of the delimiters `:`
  and `|`, and keys are compared as such strings; words are the ones the instance
  needs, and a digest is injective. A member may be a string, another JSON value
  (it has the text an f-string gives it; under `email` it raises) or an object.
  `SubjectAssumption` says the rest: a JSON value is finite, so nesting ends.
* `SetVerifier` represents a client by the registration whose `jwks_uri` it has,
  each of which serves one key; `JwksManager` is about keys that change and what
  a client knows. What the other threads do to the clients there may happen at any
  time, as if each had stopped for as long as you like before its next step.
* `Poller` takes the handler from the module docstring, since the repository has
  none yet, and models the transmitter as RFC 8936 has it: it answers with the
  oldest SETs not acknowledged.
* In `Startup` a file is read whole in one step; `SSL_CERT_FILE` and
  `CA_BUNDLE_PATH` name one file (`k8s/01-configmap.yaml`), and what httpx,
  OpenSSL and uvicorn do with a bad one is external.
* `JwksManager` does not tell two PyJWKClients of equal content apart, and leaves
  the TLS policy out.

## 5. The proofs

Checked by tlapm with Z3, Zenon and LS4, for any finite or infinite choice of the
constants that their assumptions allow.

`SetIntakeProofs`
* `Typing`: `TypeOK` is invariant.
* `OnceUnlessOverlapHolds`, `ProcessedStaysMarkedHolds`, under three hypotheses
  that are the deployment's business: `OneStore` (all pods share a store),
  `Durable` (it survives the crashes there are), `WindowCovered`
  (`ReplayTtl > MaxAge + Skew + MaxStall`). The invariant `OnceUnlessOverlap`
  is not inductive: nothing in it says that a SET let through now was not
  enforced an hour ago. `IInv` adds what links the thread, the mark and the
  clock: a thread about to look up (`Waiting`) has a SET that was fresh not long
  ago; every SET dispatched, or about to be, is marked past its `Deadline`, the
  last moment any thread can look it up (`Known`); hence a thread let through
  has a SET not dispatched before (`FirstTime`), and two let through with one
  SET overlap (`Alone`). Without the skew and the stall in `WindowCovered`,
  `Known` fails, and `intake_window` shows how.
* `ReplayDropIsHonestHolds`: without any hypothesis, from the invariant that every
  mark is explained by a dispatch, a thread about to dispatch, or a fault.

`EnforcementProofs`
* `Typing`.
* `LiveStaysMappedHolds`, for every fault but the unheeded answer ("silent"), of
  sessions whose record is not due to expire.
  It needs `KillsLand` (a thread about to deregister holds a session that is
  dead) and `Tracked` (the iRule's calls follow the life of the session).
* `NoStaleMappingHolds`, when the iRule's calls are neither lost nor reordered.
  Inductive is `Announced`: a dead session that is mapped, or will be, has a
  deregistration coming behind its registration.
* `FastEventsCostNoOtherHolds`, when no transport or store call breaks: each way out
  of a SET is by its last event, or by a continuous event that raises.
* `ReportAddsUpHolds`, whatever breaks. The sum alone is not inductive: a session
  killed twice would be counted twice. `Counted`: what was counted is gone from
  the store (`Gone`), and was before the thread looked the targets of this event
  up, so it is not among them; `Tracked` says that it does not come back.
* `PurgeDropsEveryTargetHolds`, when no store or REST call breaks. `Accounted`
  says, step by step, which of the sessions looked up are unmapped already;
  that they stay so needs `Tracked` again.

`BigIpAuthProofs`
* `Typing`.
* `RetryIsFreshHolds`, without hypothesis. The retry's token is fresh only if a
  refused token never comes back, and that is not in the property: `Unshared`
  says that a token about to be stored is in nobody else's hands, `Dropped` that
  the thread which was refused has seen to it that the token is another now.
* `NoExpiredTokenHolds` under `StallCovered`: the margin of the early renewal
  covers two stalls, because a thread held up before it writes the renewal time
  may find the token of another held up likewise. `RenewedInTime` is the
  invariant, `Punctual` what each thread contributes to it.
* `NullHeaderOnlyIfClearedHolds`. The header is built from a second look, so the
  invariant is about the time between: a thread that saw a token, and whose
  second look would find none, has been told (`ClearedUnderway`).

`DecisionCacheProofs`, without hypothesis
* `Typing`; `KeepsUnlessRacedHolds` (`Stamped`: the record in the store is the one
  the history knows).
* `ForgottenStaysForgottenHolds`. The answer is not enough to go on: a signal may
  hide in a record that some thread has read and will write back. `FreshInv` says
  that nothing in the store or in anybody's hands is disowned, which holds because
  only one lookup at a time is between its two steps (`Alone`) and a 404 does not
  disown what an upsert has in its hands.
* `RefusedOnlyForPoisonHolds`. `PoisonInv`: every unacceptable value in the store, or
  read by a writer, is one that went in unchecked (`Sourced`), on Redis no longer
  ago than the record was written.

`PollerProofs`
* `Typing`, with `Engaged`: what the guard works on for the poller is the SET in
  hand.
* `DroppedWasDispatchedHolds`, for any number of threads and any faults.
  `MarksTell` is the link that makes it inductive: a mark of a polled SET is
  that of a dispatch, of one that raised, or of one that follows at once, so a
  replay may be acknowledged.
* `MarkedAgainOnlyIfLapsedHolds`, for any number of pool threads; polled and pushed
  SETs being different, no polled jti is in two hands, which
  `intake_redis` looks at. `Remembered`: the last mark is there unless
  it lapsed, a restart took it, or a sweep under way holds its jti. `Alone`: what
  the poller has looked up in vain nobody marks meanwhile.
* `CycleLeavesOnlyRefusedHolds`. `Settled`: of the batch as it was fetched, each SET
  is still to be handled, on the list to acknowledge, refused, stale or failed on;
  staleness does not pass.

`CorrelationStoreProofs`, on Redis
* `Typing`; `RegisteredIsFoundHolds`, `OverlooksOnlyUnindexedHolds`,
  `ExpiresUnlessRenewedHolds`. They share `RecordInv`: from its EXPIRE on, the
  record of a session is in a hash that lasts (`Found`), its key goes only after
  it (`Indexed`), and a subject's only session has the hash for itself
  (`Prolonged`).
* `RedisImplementsDirectory`: every command maps to a step of `SessionDirectory`
  or to none. HSET is the step of register, HDEL that of deregister, the clock
  that of all records whose hash expires at once.

`CorrelationStoreProofs`, on the dictionaries (`SessionIndex` as the instance
`Memory`; a run of the pod's store is a run of each backend, `RunsBoth`, because
the one that is not built stays as it is). `MemoryTyped` says, besides the types,
that a thread past the first line of its call holds a bucket that exists.
* `RecordsRemovableHolds`. `Removable`: the reverse index leads to every record
  that a lookup finds, or the thread that took its entry is about to remove it.
* `RegisteredUnlessRacedHolds`. `Unraced` is the converse, until one of the three
  orders of steps that `raced` records: what the reverse index names is there,
  the entry of a thread that removes stays away, and a thread that registers
  holds the bucket which lookups read. `Kept` adds that what was promised and is
  not due is named there: a sweep has only what is due on its list.
* `NoErrorUnlessOverlappedHolds`. `Alone`: one call at a time, and what it read
  before is what the dictionaries hold now; the size taken by an iterator
  included.
* `NoExpiredAnswerHolds`. `Swept`: every expired record of the bucket swept is
  on the list, or being removed.
* `EitherImplementsDirectoryHolds`: on either backend the store is
  `SessionDirectory`, on the dictionaries until calls overlap. `MapsRecords` says
  where its map is to be found in the buckets.
* `RecordsRemovableHolds`, `RegisteredUnlessRacedHolds`, `NoExpiredAnswerHolds` and
  `EitherImplementsDirectoryHolds` need `OneSubject`: a session is registered
  under one subject, as the iRule does, which takes it from the session's own
  variables. Without it a record stays behind under the former subject
  (section 6), and the reverse index knows nothing of it.
* `StoreTyping`, for both backends, if there is a session id at all. `Dated`: no
  record is from the future, nor in a bucket that was deleted while a thread
  held it.

`VerificationProofs`, the verifier
* `Typing`; `AcceptedIsInForceHolds`, `RefusedForCauseHolds`, from one invariant,
  `VerdictInv`. `LookedUp`: the registration looked up was in force during the call.
  `KeyTrusted`: a client that is not the current one's is dated no later than it was
  put back or dated at the latest, so one that is still fresh, and the key a call has
  from it, were put back within the TTL before the call. `Undisturbed`: in its second
  attempt a call finds no such client, and the one it built is still there, unless
  others interfered. `Checked`: what was found in order remains so as time passes.

`VerificationProofs`, whom a key stands for (`SubjectKey`)
* `KeysTellPersonsApart`, and from it `ActsOnOwnSessionsHolds`, under
  `SubjectAssumption`. `CorrelationKey` and `Person` are recursive, and the library's
  induction theorems are out of reach, so the descent is stated without them. `Bases(s)`
  are the subjects without a nested user that lie in every set that holds `s` and,
  with a member, the user nested in it; nesting does not change them, so the function that gives
  each subject what belongs to its base satisfies the recursive equation and both
  definitions mean what they say (`Descent`, `KeyEquation`, `PersonEquation`). A subject
  that ends in none would be one of a set in which every member's user is again in the
  set, which the assumption excludes (`EveryoneHasBase`). That leaves two subjects without nested ones (`BasesTold`). If neither is
  odd, the word before the first colon tells the format; within a format, what follows it
  is the member itself, and for `iss_sub` the one delimiter says where `iss` ends.
  Digests differ from `empty` and from one another.

`VerificationProofs`, the JWKS manager (`JwksManager`)
* `JwksTyping`; `WithdrawnKeyDiesHolds`, `OldRegistrationDiesHolds`, from one
  invariant, `Aged`. `Fresh(c, time)` says of a client that it knows no key
  withdrawn before that time and is of no URI replaced before. The client kept
  is fresh as of the date noted for it (`Kept`), the one a thread resolves with
  as of a TTL ago (`Taken`). Neither is inductive alone: the date is set a step
  after the client and may then be younger than the client another thread has
  put there meanwhile. So while a thread is about to set it, the client must be
  fresh as of now; this holds because a URI that a call has read and that is no
  longer the one registered was replaced during that call (`Looked`).
* `ServedKeyResolvesHolds`. `Unhindered` lists what stands between a call and its
  key: the URI it read is the registered one, the client it put is still there,
  and in the second attempt any client is of that URI. Whatever breaks one of
  them is an event that `excused` records.

`VerificationProofs`, the admin API (`Onboarding`)
* `AdminTyping`; `RegistryAndKeysAgreeHolds`. A handler between its two calls is
  the only one of its pod (`OneBetween`), and the registry has what it is about
  to give the JWKS manager (`Pending`).
* `AudienceOfStreamHolds`, from the same claim of the configurations that
  handlers still carry (the guess before, `Guessed`, and the answer's audience after), and of no configuration having an id yet to be given
  (`Told`).
* `StreamIsServedHolds` is inductive as it stands, once a handler at work is known
  to have a pod (`AtWork`).

The module extends all three, so their names are distinct: what each of them has
(`Init`, `TypeOK`, the clock, the program counter) has its plain name in
`SetVerifier` and begins with `Jwks` or `Admin` in the others.

`StartupProofs`
* `Typing`; `NoDowngradeHolds` (`Validated`: who gets past the validators has a
  configuration they accept, and it does not change); `ClientFitsBundleHolds`
  (`Told`: each variable kept or popped, each path found, tells of a moment since
  the launch at which the bundle was good or bad).

Model-checked only: liveness (`EveryTaskEnds`, `TargetsEnd`, `EveryCallEnds`,
`EventuallyServes`), which TLAPS does not reach under fairness.

Every other property that a passing run checks is a theorem.

## 6. Not modelled

* `app/security/auth.py`: a constant-time comparison; `app/audit.py`: logging;
  `app/main.py`: assembles the routers. No state.
* `tools/`, `deploy.sh`, manifests: outside the service. The replicas, the
  store backend and the file paths they set are CONSTANTS and variables of the
  modules.
* `list_sessions_raw`, and the stream management calls nothing but tests uses
  (status, subjects, verification): each is one request whose answer is returned.
* The remaining settings of `config.py`: declarations, taken as CONSTANTS.
* Hazards that no property covers. A login whose registration is on its way when
  its subject is revoked survives (`router.py:221`). A session registered again
  under another subject leaves a record behind until the TTL (`store.py:37`). An
  unknown kid throws the client away even during an outage (`jwks.py:82`). The
  TLS policy is read apart from the `jwks_uri` (`jwks.py:64`). Registry and JWKS
  manager die with their process (`registry.py:36`). A live session whose record
  has come to the end of its TTL is not found (`store.py:50-55`, `76-77`). A
  continuous event that raises costs the later events of its SET. What
  verification refuses is never acknowledged and fills the batches of a poll
  (`poller.py:55`). Of these the code and its
  documents promise nothing, or document them; the two that `PROJECT.json` lists
  without a property (`client.py:113`, `router.py:93`) say so there.
* Orders of steps in which the code does go wrong. Several properties name one and
  let it through: the overlap of two lookups of a jti (`overlap`), of two calls of
  the dictionaries (`raced`, `overlapped`), of an upsert with another (`raced`), a
  hash that expires between two commands (`late`), a sweep that deletes a fresh
  mark (`exposed`), a client taken away (`excused`, `raced`), a token dropped
  (`cleared`), a lost reply or a restart (`stranded`). Such a property says that
  nothing else does it; the notes to the hazards in `PROJECT.json` say which is
  which.

## 7. The order followed, and what is left

The order followed the weight of the parts: intake and enforcement first, with
their proofs; then the stores they trust, with `SessionDirectory` as the abstract
specification in between; then the shared objects inside a single step
(`DecisionCache`, `BigIpAuth`, `JwksManager`, `MemoryReplay`, `SetVerifier`); then
what surrounds them (`Onboarding`, `Poller`, `Startup`). Proofs followed the runs.

What would come next:

1. `SetIntake` and `Enforcement` composed, to state end to end that a revocation
   accepted with 202 ends the sessions known at that time, or which fault
   explains why not. The two meet in one step (`Dispatch`, `HandleVerifiedSet`),
   so that the parts say most of it.
2. `JwksManager` with the TLS policy, and a property on outages, once the code
   promises one.
3. Theorems on how the modules fit together: that the marks of `MemoryReplay`
   are those of `SetIntake` with a sweep inside, and that the admin steps of
   `SetVerifier` are those of a pod of `Onboarding`.
