# TLA+ verification of ppq-tee-provider

`ppq-tee-provider` talks to large language models that run in a confidential
enclave. The library (`crates/ppq-tee`) verifies the enclave's attestation,
takes from it the HPKE key the enclave holds, and sends chat requests sealed to
that key; the responses come back as a stream of sealed frames. The proxy
(`crates/ppq-tee-proxy`) is a daemon that speaks the OpenAI API on one side and
the library on the other, and keeps one verified client for weeks across
redeployments of the enclave.

This directory holds the models of that code, the TLC configurations that check
them on small instances, and the TLAPS proofs of their safety. Paths below are
relative to the repository root.

## 1. Inventory

| Component | State it keeps | Operations | Correct when |
|---|---|---|---|
| **Re-attestation cache** `ppq-tee-proxy/src/attested.rs` | `RwLock<Option<Cached>>` (client, time of attestation) | `new`, `current`, `replace`, `with_reattest` | one attestation at a time; a burst of failures shares it; no request is sent more than twice, nor retried after an authenticated answer or on the client that failed; a failed or abandoned attestation never leaves a dropped client in use; every request is answered |
| **Response frames** `ppq-tee/src/ehbp/{open,stream}.rs` | `FrameSealer::seq`, `FrameOpener::seq`, `FrameDecoder::{buf, failed}` | `seal_frame`, `open_frame`, `push`, `finish` | no nonce twice; what is decrypted is a prefix of what was sealed; honest streams are not refused; bounded buffering; failure is final; `push` returns |
| **Sealed call** `ppq-tee/src/client.rs`, `ehbp/seal.rs`, `backend.rs` | one call: request session, decoder, where it is | `chat_completion`, `chat_completion_stream`, `seal_and_send`, `open_body`, `open_stream` | only enclave output is believed; a non-2xx is never a completion; a stream's error is its last item; a partial frame is an error; every call ends |
| **Client construction** `client.rs` (`build`), `ehbp/keyconfig.rs` | none | fetch + verify bundle, fetch key configuration, take it apart, compare keys | a client is bound to the key the hardware report proves and the endpoint published; nothing is read beyond the configuration's end; a configuration that publishes the proved key is accepted |
| **Attestation pipeline** `ppq-tee/src/attest/*` | none | `verify_bundle`: build attestation, hardware report, chain, policy, certificate | every check runs, in an order in which nothing unverified is believed |
| **HTTP layer** `ppq-tee-proxy/src/server.rs` | none | `chat_completions`, `list_models`, `get_model`, error mapping | only the enclave's words are relayed as its own; an aborted stream does not look complete; the proxy blames a peer only for its own request; every request ends |
| **Startup, shutdown** `ppq-tee-proxy/src/main.rs`, the unit in `flake.nix` | the process, its signal handlers, its connections | load key, attest, bind, serve, drain | nothing served before the first attestation; a failed start is retried; a stop lets requests finish, and succeeds |
| **rig transport** `ppq-tee/src/rig.rs` | per-model transport | `send`, `send_streaming`, `send_multipart`, `prepare_request` | fails closed on anything it cannot seal; rig believes only the enclave; it hears of the end of every call and stream |
| **Model catalogue** `ppq-tee/src/models.rs` | none | parse, `private/` rule | a bad entry hides no other; `get_model` agrees with `list_models` |
| **Fixture capture, test helpers** `xtask`, `testutil.rs` | — | — | outside the running system |

How they interact: the HTTP layer calls the cache (`SealedClient` is implemented
by `Attested`), the cache runs an operation on a client and, to replace one, the
attester closure of `main.rs`, which is client construction, which is the
attestation pipeline plus a second fetch. A client's operation is a sealed call,
whose body is read through the frame decoder. The rig transport is a second caller
of the same sealed calls, from inside another program. `main.rs` builds the first
client before it binds, and drains the server's connections when a signal arrives.
The cache is the only state shared by tasks; everything else belongs to one call.

What is hard here: tasks that fail together and race for the write lock; a
decision taken under the read lock and carried out under the write lock; tasks
dropped at any await because a peer hung up; a key that changes between any two
steps, including the two fetches of one attestation; retries of requests that may
have been answered; frames lost, repeated, reordered, corrupted or cut; an error
in the middle of a stream that was already handed out, to a peer who may be gone;
responses exchanged between calls; a signal at any moment of start-up or drain; the
edges of the sequence number space, of the frame cap and of the key configuration. `PROJECT.json` lists each one at its line
under `hazards`, with the properties aimed at it.

## 2. Modules

| Module | Models | Notes |
|---|---|---|
| `Attested` | the cache, the lock, the attester, time, redeployment | the core; extended by the four below |
| `SealedAttempts` | abstract: what a request may count on | no lock, clock or attestation |
| `AttestedRefinement` | `Attested` implements `SealedAttempts` | refinement mapping |
| `MCAttested`, `MCAttestedOutage` | symmetry; a history variable | for TLC only |
| `Server` | what a task's result becomes as an HTTP status | extends `Attested` |
| `AttestedProofs` | TLAPS proofs about `Attested` | |
| `AttestedRefinementProofs` | TLAPS proof of the refinement | extends `AttestedProofs`, `AttestedRefinement` |
| `FrameSealer` | the enclave's sealer | |
| `FrameChannel` | sealer + transport + decoder of one body | extends `FrameSealer` |
| `FrameChannelProofs` | TLAPS proofs about `FrameChannel` | |
| `SealedCall` | one call, over `FrameChannel` | |
| `ChatCall` | abstract: what a sealed call promises its caller | no frames or bytes |
| `SealedCallRefinement` | `SealedCall` implements `ChatCall` | refinement mapping |
| `SealedCallProofs` | TLAPS proofs about `SealedCall` and its refinement | extends `FrameChannelProofs`, `SealedCallRefinement` |
| `SealedSessions` | several calls and responses at once: keys and nonces | |
| `Completion` | `POST /v1/chat/completions` end to end | extends `ChatCall` |
| `RigTransport` | the rig backend | extends `ChatCall` |
| `FrontEnds` | the two callers of the library | composes the two above |
| `FrontEndsProofs` | TLAPS proofs about `FrontEnds` | |
| `ClientBuild` | `PpqClientBuilder::build`, the key configuration byte by byte | |
| `OutgoingRequest` | URL, headers and model ids of what is sent | |
| `Catalogue` | the model list and its two routes | |
| `PpqClient` | a client from its construction to its uses | composes `ClientBuild`, `OutgoingRequest`, `Catalogue`, `SealedSessions` |
| `PpqClientProofs` | TLAPS proofs about `PpqClient` and what it composes | |
| `Proxy` | the process under systemd: start, serve, drain, restart | |
| `ProxyProofs` | TLAPS proofs about `Proxy` | |
| `AttestationRules` | host name matching, TCB rollback, age of the build attestation | operators |
| `Attestation` | the capped fetch and every check of `verify_bundle`, in order | extends `AttestationRules` |
| `MCAttestation` | the bundles and policies to check; inputs and reference definitions of the rules | |
| `AttestationProofs` | TLAPS proofs about `Attestation` and the rules | extends `MCAttestation`, for its reference definitions |
| `MCPpqClient` | the key configurations to check | for TLC only |

Operators whose comment begins with "Bug:" are not part of any specification.
Each is a plausible wrong version of the definition that follows it;
`PROJECT.json` pairs each with the property that notices the difference.

### Attested

A step is what one task does between two awaits. `pc[r]` is the await a task is
suspended at: `read` and `write` (asking for the lock), `attest` and `check`
(the two fetches of `PpqClientBuilder::build`, under the write guard) and `send`
(the upstream call, under no lock).

| Code | Model |
|---|---|
| `cached: RwLock<Option<Cached>>` | `slot`, an index into `clients`; an `Arc`'s identity is its index, so `Arc::ptr_eq` is equality |
| tokio's fair `RwLock` | `ahead[r]`: the waiting tasks that asked before `r`; `CanRead`, `CanWrite`, `Enqueue`, `Leave` |
| `current` | `Arrive`, `CurrentHit`, `CurrentMiss` |
| `replace` | `ReplaceShared` (somebody already did), `ReplaceAttest`, `AttestOk`, `AttestFail` |
| `with_reattest` | `Answer`, `Reattest`, guards `Retries`, `WarrantsReattest`, `TooYoung` |
| a future dropped at an await | `Cancel` |
| `PpqClientBuilder::build` | `Attest` (bundle: which key is proved), then `AttestOk` if the key is still the enclave's, else `AttestFail` |

`Outcomes` says what an upstream call may return. A sealed request may end in any
way, whether or not the enclave still has the key it was sealed to: the head of a
response is not sealed, and a head alone opens a stream or makes an error without a
body. (That frames open only if that enclave sealed them is `FrameChannel`'s
subject.) A `list_models` request can only fail as plain HTTP does. The read guard is never held across an await in the
code, so the lock needs no reader count: a task under the read guard finishes
within its step.

### FrameSealer, FrameChannel

Cryptography is abstracted to its contract: a frame opens under exactly the
sequence number it was sealed under, and nobody but the enclave can make such a
frame. A frame is its ciphertext length, that number (`Poisoned` for a frame
nobody sealed) and the application write it carries. Key derivation, AES-GCM and
the contents of writes are left out.

The transport (`Carry`) appends any sealed frame, in any order and any number of
times, or a foreign one (empty, corrupt, or declaring a length above the cap).
Every byte string decomposes into length-prefixed frames and a part of one, so
this together with reading byte by byte (`unread`) gives every chunking and every
truncation. `push` is modelled turn by turn: `PushBegin` appends to the buffer,
each of `LoopTooLong`, `LoopEmpty`, `LoopOpen`, `LoopReject` is one turn of the
loop, `LoopBreak` drains and returns, and `Return` hands the plaintext to the
caller (or drops it after an error, and the caller may go on). `cur` and
`drained` count frames where the code counts bytes; `pos`, `bufLen` count bytes as
the code does, and the proofs show that the two stay together.

### SealedCall

`stage` is where the call stands: `prepare` (everything that can refuse before
sending), `sent` (waiting for the response head), `body`, `done`. `streaming` is
which of the two methods was called, `success` whether the status is 2xx. For a
2xx to a streaming call the caller has its answer at `HeadSealed` already, and the
rest of the body can only add `items` and an `ending`; otherwise the body is
accumulated and the call's answer decided at its end. The request side is one
step, because a request is a single frame, whose failure is one of `Refuse`'s
errors.

`ChatCall` is what remains for a caller: the call fails without repeating anything
(`Fail`), returns the enclave's words (`Reply`), or returns a stream (`Open`) that
yields them (`Yield`) and ends once (`End`). `SealedCallRefinement` maps `SealedCall`
onto it: the words the enclave said are the payloads it sealed, and a call is
streaming while its body is read and a stream has been handed out.

### Completion, RigTransport, FrontEnds

Both callers are built on `ChatCall`, the contract, and not on the frames.

| `server.rs`, `attested.rs` | `Completion` |
|---|---|
| `DefaultBodyLimit` and the `Bytes` extractor | `RefuseTooLarge` |
| validation of body, `model`, `stream` | `Malformed`, `RefuseMalformed`, `Accept` |
| `with_reattest` | `Attempt`, `AttestFails`, `CallReturns`, `Retry`, `Finish` |
| `From<ppq_tee::Error> for ApiError`, `into_response`, `cap_body` | `Answer`, `Relay`, `CapBody` |
| the SSE body handed to hyper | `StartStream`, `StreamStep`, `Forward`, `CloseStream`, `AbortStream` |
| a peer who disconnects | `HangUp`, `Dropped` |

A request is what its validation can tell apart. Whether a retry is due depends on
the age of a client, which `Attested` has; here `Retry` and `Finish` are both enabled
when it could be. An enclave's error has any status of `EnclaveStatuses`, which may
include the proxy's own; one that `StatusCode` does not take (`Usable`) becomes a 502
with the words in its message. `RigTransport` is `EhbpHttp`: what it refuses (`Refuses`), what rig
is told (`told`), and the stream it polls (`events`, `closing`). In `FrontEnds` either
the proxy or rig makes the call, and the other stays idle.

### ClientBuild, OutgoingRequest, Catalogue, SealedSessions, PpqClient

`ClientBuild` has one action per check of `build` and of `keyconfig::parse`. A key
configuration is a string of digits in base `Radix`, and `reach` is a history of the
furthest digit that was read. `Fetch` may return any string of `Raws`: the endpoint may
have been redeployed since the attestation, or not be PPQ's.

`OutgoingRequest` writes a URL and a model id as sequences of the pieces that the code
tells apart, and has three ways to send: the JSON API, rig's own request, and any
request somebody gives to the rig backend. `Catalogue` has `list_models` and
`get_model` over entries whose fields may be absent or of the wrong type.

`SealedSessions` has what one call cannot show: an intermediary that repeats requests,
gives a call the head of another response and mixes their frames. Each attempt is a
call of its own with a fresh encapsulated key (`seal` sets up a new sender context each
time); HKDF is modelled as injective in key and salt, and the nonce base as the same
for every key, the worst it could be. `frame_nonce` is computed byte by byte, a byte
being one bit; `LastSeq` stands for `u64::MAX` and `BeBytes` for `u64::to_be_bytes`, of
which only is assumed that no two numbers have the same bytes.

`PpqClient` runs them in their order: a client is built, and then used for one of the
three. Its methods change none of its fields, so one kind of use at a time is enough.

### Proxy

`life` is where `run` stands, `unit` is what systemd is doing with the unit, and `conn`
is the state of each connection. `handled` are the signals for which `shutdown_signal`
has installed a handler: before, the default disposition kills. A termination signal
handled once stays handled, so a second one changes nothing. `cut` is a history of what
has cut a request short. axum's accept loop and drain, and systemd, are external, and
modelled as `main.rs` and the unit file rely on them.

### AttestationRules, Attestation

A DNS name is the sequence of labels between its dots, so the empty string is one
empty label, and a label is known by what the code can tell apart: its letters, its
case, whether it is a wildcard or contains one, is empty, or is not ASCII. A
`TCB_VERSION` is a number in base `Base`, whose digits are its bytes; a shift by a number
of bytes divides by what the byte there is worth (`Byte6`, `Byte7`).

`Attestation` follows `attest`: `FetchHead`, `FetchChunk` and `FetchEnd` are
`bundle::fetch` under the byte cap, and `Order` lists the checks of `verify_bundle`
(with `sigstore::verify` unfolded in front) in the order of the code; the first
that does not hold ends the attestation. A bundle is a record of what the checks
can tell apart. That a signature verifies under the right key is a fact about the
bundle (`certified`, `signatures`, `reportSigned`, `vcek`), and what
`sigstore-verify` accepts is modelled as the code's comments rely on it: any valid
signature of the envelope, any matching subject of the statement. `verified` and
`relied` are histories: whose signatures have held, and on whose claims a decision
rests, a refusal included. Two parts are read before anything vouches for them: the time
of the log entry (`CheckAge`), and the report, whose signature is the last check of
`verify_report`: its version, measurement, policy, VMPL and TCB may refuse it unsigned.
The enclave's certificate and the domain are under no signature at all. So
`ReliesOnVerified` says that nothing else decides before it is verified, and that log and
report are verified too when the report's key is compared and when a bundle is accepted.

## 3. Runs

| Run | Question | Result |
|---|---|---|
| `attested_safety` | three requests race through failures, refreshes by age, failed and cancelled attestations and a redeployment; deadlock is checked | holds |
| `attested_live` | two requests, one of them `list_models`, every kind of error: is the abstract specification implemented, is every request answered? | holds |
| `frame_channel` | sealer failures, any transport, a caller that goes on after errors | holds |
| `sealed_call` | one call of either kind, from its refusals to the end of its body: is `ChatCall` implemented, does every call end? | holds |
| `attestation` | every bundle with up to two defects, under every policy: what is accepted, on what grounds, and how much is buffered? Do the three rules compute what their comments promise? | holds |
| `front_ends` | one completion from either caller, through a retry, a failing stream and a peer who hangs up: what is received, what is told, does it end? | holds |
| `ppq_client` | what is a client bound to, what does it send and where, what does it list, and whose response does a call read? | holds |
| `proxy` | start-up, restarts, connections, signals at any moment and the drain: what may cut a request short, do starting and stopping succeed? | holds |
| `attested_herd` | do concurrent refreshes share one attestation? | violated |
| `attested_outage` | does an outage keep attestations at `min_reattest_interval`? | violated |
| `server_503` | is a failed re-attestation a 503? | violated |
| `sealed_call_truncated` | is a truncated stream always noticed? | violated |

The four violated ones each check a single sentence of the repository's
documentation or comments that the code does not keep:

1. **`NoThunderingHerd`** (the design document, line 87). `current` calls
   `replace(None)`, and with no stale client to compare `replace` always
   attests. Requests that found the client too old together attest once each,
   one after the other, and each drops the client its predecessor has just
   attested. They never attest at the same time (`OneAttestation`), but they do
   not share either.
2. **`OutageRateLimited`** (`attested.rs:24`). A failed attestation leaves the
   slot empty, and nothing remembers when it was tried: for as long as the outage
   lasts every request, sealed or not, runs an attestation of its own.
3. **`FailedReattestationIs503`** (`README.md:203`). Only `Error::Attestation`
   becomes 503; a bundle that cannot be fetched is `Error::Http`, and 502.
4. **`TruncationIsSeen`** (`client.rs:337`). The frame format has no final frame:
   a body that ends on a frame boundary ends well, however much is missing. The
   partial frame the comment speaks of is noticed (`NoPartialFrame`).

Smaller disagreements met while modelling, which no run is spent on; the models
have the behaviour, and the properties say how far it goes:

- `attested.rs:21` says a client past `reattest_after` is replaced before its next
  use. A request that fails on a client replaced meanwhile retries on whatever is
  cached, without a look at its age. `OldOnlyForRetry` says that this is the only use
  of an old client.
- The design document, line 79, says a stale key costs one failed round trip.
  `replace` compares clients and not keys, so a client refreshed by age just before a
  redeployment has the same dead key as the one before it, and a retry on it fails
  again.
- `README.md:200` says errors keep OpenAI's shape. A body over the limit is answered by
  axum's extractor in plain text (`RefuseTooLarge`).
- `server.rs:175` says an enclave error passes through intact. `cap_body` cuts one of
  more than 4096 bytes, and what is left is no JSON and is wrapped.
  `StatusIsHonest` says that it is marked as cut and not taken for the whole.
- `README.md:202-204` reads as if 502 and 503 were the proxy's. An enclave's error is
  relayed with its status, and a sealed 400, 413, 502 or 503 cannot be told from the
  proxy's own by its status; besides, the status line of a response is not sealed, so
  anybody on the way may choose it. `StatusIsHonest` therefore claims nothing for the
  status of an `Error::Enclave`: it says that completions and words are the enclave's
  whatever the status, and that the proxy itself blames the peer only for what it posted.
- The design document, line 112, says systemd stops are clean. The drain has no
  deadline, so a request that outlasts the stop timeout is killed; and a signal that
  arrives before `shutdown_signal` was polled kills at once.
  `RequestsSurviveShutdown` says that nothing else cuts a request short.

### Bounds, and why they are enough

- `attested_safety`: three requests are what a stale decision needs: one that
  refreshes, one that is overtaken by it, and one that comes in between; with two,
  the queue never orders a reader between two writers. `ReattestAfter = 2`,
  `MinReattestInterval = 1`, `MaxTime = 3` make a client young, old enough to be
  blamed, and aged out, and leave a tick for its replacement to become old enough
  in turn (and, shared as a replacement, too old: `OldOnlyForRetry` has states to
  speak of). `MaxKey = 2` is one redeployment. `Errors` is one unauthenticated and
  one authenticated kind: the others differ in nothing the run's properties see
  and appear in `attested_live`. Requests are symmetric.
- `attested_live`: liveness is checked without symmetry, hence two requests; all
  kinds of error occur.
- The violated runs have the smallest constants at which the case exists.
- `frame_channel`: `SeqMax = 2` puts the last sequence number within reach of the
  three writes, so exhaustion of both the sealer's and the opener's counter
  happens; three frames on the wire are enough to lose, repeat and swap them.
  `HeaderLen = 2` lets the stream be cut inside a header; `MaxFrameLen = 1` makes
  lengths 0, at the cap and above it different.
- `sealed_call`: `SeqMax = 3` is above the two writes, so that errors come from
  the transport and not from the counter, which `frame_channel` covers.

- `attestation`: every bundle that differs from a good one in at most two fields,
  each over the values the checks can tell apart. Two at once, because a check that
  compares two parts can be satisfied by altering both. Two seconds of clock around
  `Now`, `FutureTolerance = 1` and `maxAge = 1` put a timestamp on either side of
  both limits. `MaxBundle = 3` with chunks of one or two bytes reaches the cap
  exactly and steps over it.
  For the rules: patterns of up to three labels and hosts of up to four, over seven
  kinds of label, so a wildcard may cover none, one or two labels of a host, and its
  suffix may have one label or two. `Base = 2` makes every byte of a TCB a bit, and all
  values of all its bytes are tried, the reserved ones among them; `MaxTime = 5` leaves room for a clock that moves past
  maximum age and tolerance, or is set back.
- `front_ends`: the enclave says up to three writes, and `MaxErrorBody = 2` lets an
  error be at the cap and above it. All kinds of body, two attempts. `EnclaveStatuses`
  has the proxy's own four, one that it has not (429), and one that is no HTTP status
  (1000): the library never returns that, but `SealedClient`'s error carries any `u16`.
- `ppq_client`: `Radix = 3` and keys of two bytes; every configuration that is a prefix
  of a published one (one suite or two, something behind them or not) or differs from it
  in up to two bytes, so that every length field and identifier can be wrong together
  with another. Model ids of up to three pieces carry the prefix none, one or several
  times; URLs of up to three pieces behind the origin reach a host that continues the
  configured one, a user name, and a path beside the base path. Two catalogue entries
  are enough for one to be bad and for two to share an id. Two calls and two responses
  give a call the head of its own, of another, or of nobody's response; `SeqLen = 2` and
  four frames use every bit of a sequence number. `CHECK_DEADLOCK FALSE`, because a set
  of sessions stops when everything has been sealed and read.
- `proxy`: two connections, so that one can be busy while another is idle, in the
  backlog, or closed; all sources of the key.

### Fairness

- `Attested`: weak fairness of each task's own steps. The runtime polls every
  task that is ready; tokio's `RwLock` serves its queue in order, which is why
  weak fairness suffices; and an upstream call ends, by reqwest's connect timeout
  and per-read timeout (`client.rs:13-20`). Nothing is assumed of arrivals,
  cancellations, redeployments or the clock.
- `SealedCall`: weak fairness of the call: its waits all end by a timeout, and the
  decoder's `push` is a synchronous function. A
  peer that delivers one byte within every read timeout for ever is excluded by
  the finite wire: the code does not bound such a response either (`client.rs`
  says so), so what `ChatCallSpec` says of ends is a statement about responses of finite length.
- `Completion`: weak fairness of the handler, because each thing it awaits ends
  (`Served`, `ChatCallSpec`); of the end of a call that streams; and of hyper noticing that
  a peer is gone. A peer who stays connected reads: one that does not blocks its own
  response for ever, since the server sets no write timeout.
- `RigTransport`: weak fairness of the backend, and of rig polling the stream it holds.
- `Proxy`: weak fairness of what the process and systemd do by themselves. `AttestOk`
  and `BindOk` have strong fairness: PPQ and the port are not out of reach for ever,
  an assumption about the surroundings without which no start need succeed.
  (`RestartSec` keeps restarts below systemd's default start limit, so it does not give
  up.) `Respond` is fair because requests end, which `front_ends` shows.

## 4. Proofs

TLC checks the instances above; the theorems hold for every value of the constants:
any number of requests, policies, redeployments, frames, calls, connections and bytes,
any caps, clock and sequence space. They assume only the `ASSUME`s of the modules:

| Assumption | Says |
|---|---|
| `ConstantsAssumption`, `SealerAssumption`, `ChannelAssumption` | the constants are numbers: a cap, a header and a first deployment exist; `Catalogue` and `Errors` are sets of requests and of error kinds |
| `PpqClientAssumption`, `BoundsAssumption` | bounds are numbers |
| `CompletionAssumption` | bounds are numbers; the status of an enclave's error is any `u16` but a success, which is no error (`client.rs:318, 347`) |
| `BuildAssumption` | keys have `KeyLen` bytes, and what is fetched is a string of bytes |
| `SessionsAssumption` | a sequence number fits into a nonce, `to_be_bytes` is injective, and a response has no more frames than there are sequence numbers, because the sealer stops there (`NoncesUnique`) |
| `RulesAssumption`, `AttestationAssumption` | a byte has at least two values; "no limit" and "absent" are no values of the fields they replace; fields have the types of the code's structures |

`OldClientsOnlyRetry` assumes besides that `ReattestAfter` is not 0, when every client
is old at once. Each module proves one inductive invariant by a lemma per action, of the
form `IInv /\ action => IInv'`, and reads the properties off it.

**`AttestedProofs`**

| Theorem | States |
|---|---|
| `TypeCorrect` | `Spec => []TypeOK` (with it: no request is sent a third time) |
| `AttestationExclusive` | `Spec => []OneAttestation` |
| `RetiredStaysOut` | `Spec => []RetiredNeverCached` |
| `RetryIsDisciplined` | `Spec => []RetryDiscipline` |
| `FailuresAreRateLimited` | `Spec => FailureAttestationsSpaced` |
| `LockIsNeverStuck` | `Spec => []QueueMoves`: unless somebody attests, a task that waits for the lock, or one before it, can take it |
| `NobodyOvertakes` | `Spec => [][KeepsItsPlace]_vars`: nobody comes in before a task that goes on waiting |

The inductive invariant is `IInv = TypeOK /\ CacheInv /\ OneAttestation /\ \A r :
TaskInv(r)`. None of the properties is inductive by itself. That the retry runs on
a newer client needs that the slot holds the newest one (`CacheInv`) and that a
task asking for the write lock with a stale client has reported it (`Reported`, in
`TaskInv`): the one it reported exists, so what is attested afterwards is newer.
`RetiredNeverCached` needs that the slot is empty while somebody attests, and that
nobody else does (`OneAttestation`). `FailureAttestationsSpaced` needs that clients
are built in the order of time: a task that reports the cached client, which is
the newest and was old enough, has reported the youngest there is. It holds of failures
that come together as well: those that get the lock later find the client they reported
replaced, and share the replacement, because another attestation would begin too soon
after the one before. The proof has a
lemma per action (`ArriveInv` ... `StutterInv`), and `NextCases` puts them together.

The last two are what `Served` rests on besides fairness, for any number of tasks.
`QueueInv` says that those that wait are finitely many and in one line: of any two, one
is before the other, and who is before a task is before those behind it. A finite line
has a first (`QueueHasFirst`, by well-foundedness), who can take the lock as soon as
nobody holds it; a departure or a cancellation closes the gap, and who joins is last.

**`AttestedRefinementProofs`**

| Theorem | States |
|---|---|
| `AttemptsRefined` | `Spec => AttemptsSpec` |
| `OldClientsOnlyRetry` | `ReattestAfter # 0` gives `Spec => OldOnlyForRetry` |

The refinement is a step simulation: every action of `Attested` is an `Attempt`,
`Refuse` or `Answer` of `SealedAttempts` or leaves its state alone (`StepRefines`).
`IInv` has to be strengthened by `HeldInv`: a task that has reported a client still
holds it. The abstract list of attempts is read off `held` and `stale`, and when the
retry begins, the client in `held` must be the one that moves to the front of it.
`OldClientsOnlyRetry` splits on the three places where an operation begins: `current`
looks at the age, a fresh client has age 0, and what `replace` shares is newer than
the reported client because the slot holds the newest (`CacheInv`).

**`FrameChannelProofs`**

| Theorem | States |
|---|---|
| `ChannelTypeCorrect` | `ChannelSpec => []ChannelTypeOK` |
| `NoncesUnique` | `ChannelSpec => []NonceNeverReused` |
| `EnclaveOutputOnly` | `ChannelSpec => []OnlyEnclaveOutput` |
| `BufferIsBounded` | `ChannelSpec => []BufferBounded` |
| `FailureIsFinal` | `ChannelSpec => PoisonedForever` |
| `HonestIsNotRefused` | `ChannelSpec => []NoFalseAlarm` |
| `PushComesToAnEnd` | `ChannelSpec => [][ParsesOn]_decoderVars`: a turn of `push` parses a header's bytes at least, or is the last |

The invariant is `ChannelInv`. `SealerInv`: what was encrypted, and what was
returned, is numbered from 0, so a number is burnt once. `OutputInv`: on a healthy
decoder the opener's number is the count of what was returned plus what the
running push holds, and both are the sealed frames in order; a frame that opens
was sealed under that very number, so it is the next one (`OpensNext`). `WireInv`
ties bytes to frames: some table `off` gives the byte at which each frame of the
wire starts, and buffer and cursor stand where it says; hence a complete header
under the cursor belongs to a frame the transport carried (`FrameThere`), and
after draining less than one frame is left. It holds of healthy decoders only: a
push on a failed one discards its bytes, which is why `failed` must be final.

`HonestIsNotRefused` adds `AlarmInv`: the opener has opened as many frames as it passed
that are not empty (`DataFrames`), and where it failed, it failed for a frame above the
cap, the last sequence number, or a number that is not the count of the frames before it.
What arrives later changes none of the three, so the alarm stays a true one.
`PushComesToAnEnd` reads the loop's variant off `ChannelInv`: the buffer keeps its length,
and the cursor moves by a header at least and never past its end, for every length a
frame may declare, zero included.

**`SealedCallProofs`**

| Theorem | States |
|---|---|
| `CallTypeCorrect` | `Spec => []TypeOK` |
| `ErrorsComplete` | `Spec => []ErrorIsNoCompletion` |
| `NothingPartial` | `Spec => []NoPartialFrame` |
| `CallRefined` | `Spec => ChatCallSafety`, which is `ChatCall` without its fairness |

Every step of a call is a step of its channel or leaves it alone (`ChannelStep`), so
`ChannelInv` holds of calls too. `CallInv` adds that nothing has come of a call before its
response head (`QuietInv`), that one that reads its body has returned if and only if it
hands out a stream (`BodyInv`), and that the decoder's words are in one place, `items` or
`body` (`PlaceInv`). For the refinement, `EnclaveOutputOnly` is what makes a `Yield` of the
code one of the contract: what the decoder emits begins the words of the enclave.

**`FrontEndsProofs`**

| Theorem | States |
|---|---|
| `FrontTypeCorrect` | `FrontSpec => []TypeOK` |
| `StreamsAreHonest` | `FrontSpec => []StreamIsHonest` |
| `StatusesAreHonest` | `FrontSpec => []StatusIsHonest` |
| `RigIsNotFooled` | `FrontSpec => []RigBelievesEnclave` |
| `NoSilentTruncation` | `FrontSpec => []EndsAreAccounted`: a response that breaks off has lost its peer or its stream has failed, and one that is complete was given |

`FrontInv` is `CallInv`, what `ChatCall` guarantees of any call, with either the handler's
invariant and an idle rig or rig's and an idle handler: the same lemmas about the call
(`SpeakKeeps`, `ReturnsKeep`, `YieldKeeps`, `EndsKeep`) serve both. The invariant speaks
of beginnings (`Begins`), which stay beginnings while the enclave says more. That a stream
which is `complete` was forwarded whole needs that it was closed at its last item
(`Closed`); that a status is honest after a retry needs that nothing was delivered or
answered while one could still follow (`Unanswered`). `NoSilentTruncation` is
`EveryRequestEnds` without the claim that an end comes: it adds `EndingInv`, that a stream
under way is the call's own or has ended for a reason that is known, so the handler that
aborts one has an error to abort it for.

**`AttestationProofs`**

| Theorem | States |
|---|---|
| `TypeCorrect` | `Spec => []TypeOK` |
| `BodyIsCapped` | `Spec => []BundleBounded` |
| `ClaimsAreVerified` | `Spec => []ReliesOnVerified` |
| `AcceptedIsVouched` | `Spec => []OnlyVouchedAccepted` |
| `RulesAreKept` | `Spec => []RulesKeepTheirWord` |
| `NamesMatchByLabel` | `DnsNameMatches(pattern, host) <=> Covers(pattern, host)`, for names of any length |
| `RollbackIsSeen` | `NoHiddenRollback`, for any values of any bytes |
| `NothingStaysFresh` | the age rule, for any times |

The invariant says stage by stage what the checks passed so far have shown of the bundle
(`ChecksInv`) and which of its parts they have verified (`TrustInv`), so it depends on the
order of the checks: the signer's, moved in front of the envelope's, would rely on what
`verified` does not hold yet. `CertUnread` says that the enclave's certificate has decided
nothing before its own check, which is why all that is relied on is verified when that
check begins. The last three are about operators, and `RulesAreKept` follows from
them. A name is compared letter by letter in either case (`IgnoringCase`); a packed TCB is
taken apart by division with remainder at each of its four components (`Unpacks`).

**`PpqClientProofs`**

| Theorem | States |
|---|---|
| `ClientTypeCorrect` | `ClientSpec => []TypeOK` |
| `BuildsOnWhatIsPublished` | `ClientSpec => BuiltIffPublished` |
| `RequestsStayHome` | `ClientSpec => []StaysHome` |
| `RequestsAreTheSame` | `ClientSpec => []SameRequest` |
| `CallsOpenTheirOwn` | `ClientSpec => []OneOwnResponse` |
| `NoncesAreFresh` | `ClientSpec => []KeyNonceUnique` |
| `ListsWhatParses` | `ClientSpec => []OneBadEntryHidesNoOther` |

`BuildInv`: each stage of the parse has the length fields it has looked at inside the
bytes it has, so `reach` is too; the step that decides agrees with the layout
(`PublishesIffAccepted`): a string that passed all checks and has the proved key in its
place publishes that key, and one that publishes it passes them all. `OutgoingInv`: a URL
that begins with the base and a separator has the base's authority, whatever follows
(`InsideStaysHome`). `SessionsInv`: an opener's key names one response, and the words
decrypted under it are that response's first ones, so that the frame it opens next is the
next one (`OpensNext`). This and `NoncesAreFresh` rest on `frame_nonce` being injective in
the sequence number (`NonceInjective`).

`ListsWhatParses` is about catalogues of any length, and `Kept` is a recursive function
over their entries. The induction it needs is an argument about a least counterexample
instead of one of the library's induction theorems, which no installed prover can
instantiate: a set of numbers with an element has a least (`LeastExists`, from the
well-foundedness of strict inclusion on finite sets). The least length at which the
recursion had no solution would follow one at which it has (`KeptReaches`), so `Kept` is
that solution (`KeptUnfolds`); the least length at which what is kept were not the list
of what parses, in the catalogue's order, would follow one at which it is (`ListGrows`,
`KeptIsList`). `get_model` takes the first with its id from that list (`FindIsFirst`).

**`ProxyProofs`**

| Theorem | States |
|---|---|
| `TypeCorrect` | `Spec => []TypeOK` |
| `RequestsSurvive` | `Spec => []RequestsSurviveShutdown` |
| `NoFailureIsFinal` | `Spec => []FailureIsRetried`: after a process that failed, systemd is about to start another |

What the property says of the way a process ended holds because nothing has been cut short
while it still ran (`RunningInv`), and because only a process that serves has a
connection (`NotServing`). `NoFailureIsFinal` is the part of `StartIsRetried` that needs
no fairness. After a failure systemd gives up only a unit it is stopping, and a process
fails only while it starts: `ServiceInv` says that a unit is being stopped only while its process serves or
drains, because a process that does neither has no handler yet and the stop ends it.

**Model-checked only.** Liveness (`Served`, `CallersHear`, `StartIsRetried`,
`StopEnds`, and the part of `ChatCallSpec` that says that calls end): the prover does
not reason about fairness. Where liveness rests on a safety argument, that one is proved:
`LockIsNeverStuck` and `NobodyOvertakes` for `Served`, `PushComesToAnEnd` for the ends of
calls, `NoSilentTruncation` for `CallersHear`, `NoFailureIsFinal` for `StartIsRetried`.

## 5. Not modelled, and why

- **sigstore-verify, rig-core, axum and hyper, tokio, systemd.** Libraries and
  services outside the repository, modelled by what the code relies on. `Attested`
  takes the whole attestation pipeline as one step that proves the running key or
  fails; `Attestation` has the pipeline itself.
- **Formatting.** JSON documents, SSE lines and error texts appear only as what they
  are taken for (`shape`, `words`); how they are written is left to unit tests.
- **DER, X.509 and report layouts** are facts about a bundle in `Attestation` (which
  part is signed by whom, which field says what). Only the key configuration is taken
  apart byte by byte, because it is the one binary format parsed by hand from an
  unauthenticated source.
- **Command line, tracing, the Nix package.** Nothing in them changes state the
  properties are about; the systemd unit of `flake.nix` is in `Proxy`.
- **Fixture capture and test helpers.** Not part of the running system.
- **Cryptography** throughout: HPKE, HKDF, AES-GCM, ECDSA and certificate chains
  are assumed to do what they promise.

## 6. Plan

Done, in this order, the most important behaviour first: `Attested` and its
abstract specification, the frame channel, the sealed call, the status mapping, the
attestation pipeline; then the contract of a call and its refinement, the proxy's handler
and the rig backend on top of it, the client from construction to use, concurrent
sessions, and the life of the process. The proofs followed: the cache and its refinement,
the frame channel, and then, on the channel, the call and its refinement; the two front
ends, the acceptance rule of the attestation, the client and its sessions, and the process.

Every safety property that a passing run checks has a theorem; liveness stays with TLC.
What could be added is an account of `FrontEnds` over `SealedCall` instead of over its
contract, which `CallRefined` makes unnecessary for safety; and the capture tool, if it
should ever run unattended.
