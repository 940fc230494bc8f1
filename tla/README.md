# Verification of sctg-claw

sctg-claw deploys an OpenClaw Gateway on Kubernetes. Its own program logic is
`mobile-auth-broker`, a Go server that pairs phones through the GitHub Device
Flow, hands out access and refresh tokens, and proxies authenticated WebSocket
and HTTP traffic to the Gateway. Around it are deployment scripts and a Helm
chart. This directory models the broker in TLA+, checks the models with TLC and
proves theorems about them with TLAPS. `PROJECT.json` lists components, runs,
mutants, the source lines of every definition, findings, hazards and theorems.

Paths below are relative to `src/mobile-auth-broker/` unless they say otherwise.

## Inventory

| Component | State | Operations | Interacts with |
|---|---|---|---|
| device flow endpoints (`internal/handler/handler.go`) | rows of `device_authorizations` | `POST /v1/device-authorizations`, `GET /v1/device-authorizations/{id}` | GitHub client, storage, session tables |
| session endpoints (`handler.go`) | rows of `access_sessions`, `refresh_sessions`, `audit_events` | `POST /v1/sessions/refresh`, `DELETE /v1/sessions/current`, `/readyz` | storage |
| access gate (`internal/proxy/proxy.go`, `authenticateDevice`) | the same tables, the allow list | check of every proxied request, revoke on deny | storage, configuration |
| WebSocket and HTTP proxy (`proxy.go`) | two sockets and two copy goroutines per connection | copy, forward close codes, inject proxy headers | Gateway, tailnet check, access gate |
| tailnet peer check (`internal/tailnet`) | none | `whois` of the peer | proxy |
| storage (`internal/db`) | one SQLite file, a pool of one connection and who waits for it | the statements and three transactions, `CleanupExpired` | everything |
| GitHub client (`internal/github`) | none; GitHub keeps the code and the token | request code, poll, emails, revoke | device flow |
| certificate manager (`internal/tlscert`) | certificate, key and account files; `m.cert` | `Start`, `renewLoop`, `obtain` | `main`, ACME, Cloudflare |
| entry point (`cmd/main.go`) | listeners, ticker goroutine | startup in its order, router, 5-minute cleanup, shutdown | all |
| configuration, crypto helpers | environment | parse, `HashSecret`, `IsEmailAllowed`, token generation, encryption | all |
| `tools/device-flow-validate` (Rust) | one pairing | poll loop until a terminal status | device flow endpoints |
| `src/scripts/*` | manifests, backups, model list | populate free models, restore a backup, build and deploy, resolve secrets | cluster, files |
| Helm chart, images | declarative | `strategy: Recreate`, probes | broker process |

What is hard here:

- every handler is a goroutine that makes between two and seven separate
  database calls; only three of them are transactions. What a handler read in
  one call is stale in the next;
- refresh, logout, denial, operator revocation and cleanup work on the same
  rows at the same time;
- a pairing mixes database writes with GitHub calls whose answer is given once
  and can be lost; every error path has its own clean-up calls;
- crashes between any two calls, and a restart with another allow list or
  another `SERVER_SECRET`;
- expiry columns are whole seconds, the checks compare instants;
- certificate and key are two files, written one after the other;
- all handlers share one database connection, without a timeout;
- the two goroutines of a proxied connection read, answer and forward close
  frames at the same time, and the first one to return makes the handler close
  both legs under the other.

What makes each part correct: sessions of one pair and one rotation chain
belong to one device; revocation and rotation are never undone; a token keeps
its promised lifetime and goes away afterwards; nobody whose email is not
allowed, whose device is revoked or whose token is from an old secret gets
through; a transaction is approved only with all its rows, its GitHub token is
always revoked, and its client hears the outcome; the listeners always have a
matching, unexpired certificate; a method of `internal/db` is all or nothing and
gives the connection back; a proxied connection carries every message once and
in order, passes on how it ended, and leaves nothing behind.

## Modules

| Module | Models | Rests on |
|---|---|---|
| `Rows` | tables as functions from keys to records, `Insert`, `Delete` | |
| `DeviceAccess` | what the session endpoints and the gate promise about a device | |
| `Sessions` | session endpoints, access gate, cleanup, restart; implements `DeviceAccess` | `Rows`; calls are atomic as in `AtomicStore` |
| `DeviceFlow` | device flow endpoints, GitHub client | `Rows`; calls are atomic as in `AtomicStore` |
| `AtomicStore` | what `internal/db` promises its callers | |
| `ConnPool` | the pool of one connection, transactions, crashes; implements `AtomicStore` | |
| `Relay` | what a proxied connection promises its peers | |
| `WsProxy` | router, `HandleHTTP`, `HandleWebSocket`, tailnet check; implements `Relay` | |
| `TlsCert` | certificate manager, startup and listeners of `main` | |
| `RowTheorems`, `*Proofs` | lemmas and theorems | the modules they extend |

In `Sessions` and `DeviceFlow` a statement or a whole transaction is one step.
That this is right with one shared connection, failing statements and crashes
is what the refinement of `AtomicStore` by `ConnPool` shows. SQLite itself is
external.

### Sessions

The tables `mobile_devices`, `access_sessions`, `refresh_sessions` and
`audit_events`, and everything that touches them: pairing,
`handleRefreshSession`, `handleRevokeCurrentSession`, `authenticateDevice`,
`CleanupExpired`, `RevokeMobileDevice`, restart.

- `req[r]` is a handler: `pc` names the database call it is about to make, the
  other fields are the Go variables that survive from one call to the next.
  Each action is one call with the checks up to the next one.
- A *pair* number stands for what `GenerateTokenPair` returns and the ids drawn
  with it. `HashSecret(k)` is `<<serverSecret, k>>`: SHA-256 over secret and
  token, taken to be injective.
- The clock ticks `TicksPerSecond` times a second; `Unix` truncates as
  `Time.Unix` does and `After` compares the instant with the stored second.
- `DBError` and `CleanupError` let any call fail (`Faults`), with the handler's
  own reaction: most return 500, audit errors and the revocation on denial are
  ignored.
- `Restart` kills all handlers and starts the process under any configuration,
  after the cleanup that `main` runs; `strategy: Recreate` rules out two at once.
- `delivered` (what the client was told) and `barred` (the device was already
  revoked when the handler read the session) are history, used by properties;
  `delivered` also says which tokens a client can present.
- Columns no handler reads are left out, and requests that are rejected without
  a write take no step.
- In `DeviceAccess` there are no sessions and no calls: a device is paired,
  admitted, connected to the Gateway, or out. The mapping takes as admitted the
  devices that have a usable session (neither revoked nor expired) or a request
  under way that may still store one or let the device through, as connected
  those of the requests that are being proxied.

### DeviceFlow

`device_authorizations`, the two handlers of the flow, the GitHub client and
the part of `CleanupExpired` that deletes transactions. A handler keeps the
sequence `todo` of calls ahead of it; each branch of
`handleGetDeviceAuthorization` is such a sequence (`Expire`, `SlowDown`,
`EmailsFailed`, `NoPrimary`, `NotAllowed`, `StoreFailed`, `Approve`), so the
order of the calls is read off one line. GitHub is external: the user decides,
a device code turns into one token, once; any answer may be lost. The rows the
pairing inserts are only counted here (`stored`); what happens to them is
`Sessions`' subject, whose `PairDevice` ... `Respond` are the same calls seen
from the other side.

### ConnPool and AtomicStore

A handler is the sequence of `internal/db` methods it calls (`Refresh`,
`Pairing`, `Denied`, ...), a method its name, the number of its writing
statements, and whether its caller gives up on an error. `CheckOut` takes the
only connection or a place among the waiting (`database/sql` hands it to one of
them at random), `Exec` runs a statement in the open transaction, `Commit` and
`Rollback` end it and hand the connection over, `Crash` drops what was open.
`BeginTx` is there although no handler calls it: the mutant `Refresh_OuterTx` is
the handler as it was before `tests/refresh_deadlock_test.go`. In `AtomicStore` a
method has all its writes in one step or none; the mapping keeps `calls` and
`disk` and hides the connection.

### WsProxy and Relay

One request at a time from the router to the return of the handler. `phase` is
where `HandleWebSocket` is, `pump[p]` where the goroutine is that reads from peer
`p`. `inbox[p]` and `wire[p]` are the frames on the two directions of a leg; a leg
holds `Capacity` frames, then `WriteMessage` blocks and a control frame times out
after its second. The peers send, close with or without a code, drop, reset,
send an oversize message, or stop reading; `Stop` ends the process under them.
gorilla/websocket is external: it answers a close frame inside `ReadMessage`,
writes nothing after its first close frame, and reports the end of a stream as a
`*CloseError` with 1006. Message contents, headers and URLs are left out;
messages are numbered. In `Relay` there are no goroutines and no frames on the
way: a message passes, a peer ends, a peer is told, the connection is shut. The
mapping takes `sent`, `ended`, `passed` and `told` as they are; the connection is
open while the client's leg is.

### TlsCert

`Start`, `renewLoop`, `obtain`, the three files, and `main` around them: plain ports
are bound and served, `Start` has to succeed, TLS ports are bound; each failure is
`log.Fatalf`. Files hold the serial they were written for, 0 when missing or
torn. Which ports are configured is reduced to two kinds, `http` and `https`.

### MC modules

`SessionsMC` and `DeviceFlowMC` add a symmetry set: requests, cleanup callers,
emails, secrets and transactions are model values that no formula tells apart.
Runs with a liveness property do not use it. The other modules are checked as
they are: their constants are numbers and sets of model values.

## Runs

| Run | Shows |
|---|---|
| `sessions_races` | Two requests pair, refresh, log out and authenticate at once: `SameDevice` and `ForkBound` (one refresh token is exchanged at most once per concurrent request), `ImplementsDeviceAccess` (refinement: a device that is out stays out, although a refresh in flight can overtake a logout). |
| `sessions_expiry` | Half-second ticks, two overlapping cleanups and failing calls: `TypeOK`, `DeliveredHonoured`, `AuditTruthful` (the trail names no revocation and no refresh that a failed call has not made), `SessionsOnlyAge`, `RotationAnswered` (a refresh token that was spent is answered with its successor). |
| `sessions_serial` | Requests one at a time, with cleanup between any two calls and a restart under another allow list or secret: `RotationSingleUse` and `RevocationIsFinal` (what the README promises holds without concurrency), `ForwardsAllowed`, `SecretRotationLocksOut`. |
| `sessions_purge` | `RevokeMobileDevice`, faults, a crash and cleanups between any two calls of a request: `ExpiredPurged` (liveness), `BarredStayOut`. |
| `sessions_rotation_race` | violation of `RotationSingleUse`: finding 1. |
| `sessions_logout_race` | violation of `LogoutIsFinal`: finding 2. |
| `flow_pairing` | Two polls, faults, lost answers, cleanup, one restart: `TypeOK`, `ApprovedIsComplete`, `TokenNotForgotten`, `ConsumedIsFinal`, and `Settled` (liveness): a client that keeps polling hears a final answer. |
| `flow_terminal_race` | violation of `TerminalStatusStays`: finding 3. |
| `tls_renewal` | `TypeOK`, `ServedIsPaired`, `ServedIsValid`, `OutageOnlyInWindow` (a start fails for want of an order only without a usable cache or inside the renewal window), `ComesUp` and `NoSubset` (liveness) with torn files, crashes, ports that cannot be bound and a failure before every good order. |
| `pool` | Three goroutines that refresh, are denied or clean up, with failing statements and a crash anywhere: `HolderWorks` (whoever waits for the connection waits for a goroutine that is at work in a method and waits for nothing), `ImplementsAtomicStore` (refinement), `Answered` (liveness: everybody gets the connection and gives it back). |
| `ws_relay` | Peers that send, ping, close, drop or reset at any time, a leg that fills up, a shutdown anywhere: `WsInv`, `CloseRelayed` (a close code that was read reaches the other peer, but for the three cases it names), `ImplementsRelay` (refinement), `TornDown` (liveness: nothing is left of a connection a peer has ended). |
| `ws_abnormal_drop` | violation of `OnlyGenuineCloses`: finding 4. |

Every property of a passing run has a mutant in `PROJECT.json`: a plausible
mistake in the code (a dropped check, `<=` for `<`, a lost mark, a swapped
order) with which TLC finds the property violated.

### Bounds

- Two requests are enough for every race here: each handler interferes with
  another through at most one row set, and all findings need two. `ForkBound`
  is stated in terms of `Cardinality(Reqs)`; four pairs allow one more fork
  than two requests can make.
- `MaxPairs` 2 to 4: pair a device and refresh it once, twice, or in two branches.
- `MaxNow` and the lifetimes let every session expire before, while and after a
  handler uses it. In `sessions_races` everything stored expires at
  the one tick of the clock, which comes between any two calls. `sessions_expiry` uses two ticks a
  second, the smallest resolution at which truncation differs from equality.
- `MaxRestarts` 1: tokens of one configuration presented under another.
- `MaxInterval` 2 steps: initial and one `slow_down`.
- In `TlsCert` a lifetime of 7, a renewal window of 4, a check every 2 ticks and
  one failure in a row keep the ratio the code relies on (90 days, 30 days,
  12 hours) as tight as it can be: `ServedIsValid` holds because
  `(MaxFailures + 1) * CheckInterval <= RenewBefore`. Serials are reused once no
  file and no listener refers to them.
- `pool`: with three goroutines one has the connection and two wait, so that the
  random hand-over can pass one by. The three handlers served have a
  transaction of two writes, errors that end the request and errors that are
  dropped, and methods outside a transaction; the theorems are about all of
  them.
- `ws_relay`: a capacity of one frame lets a leg be full after one message or
  pong; two messages from the Gateway are needed for one to wait in the hand of
  a goroutine behind a full leg, and for order to mean something. The
  theorems are about any number of messages and any capacity.

Deadlock is checked in `sessions_expiry`, `sessions_serial`, `sessions_purge`,
`flow_pairing`, `pool` and `ws_relay`. In the other runs the bounds on the clock,
on pairs and on restarts bring the model to a stop, so it is not.

### Fairness

- `Sessions`: weak fairness of starting `CleanupExpired` (the ticker in `main`
  and the kubelet's readiness probe never stop) and strong fairness of its two
  statements (a statement that is tried again and again does not fail every
  time). Nothing is assumed of handlers or clients.
- `DeviceFlow`: weak fairness of the clock and of each started handler (Go
  schedules it, and GitHub calls have a timeout), strong fairness of the
  client's polling. Nothing is assumed of the user or of GitHub.
- `TlsCert`: weak fairness of `main`'s startup, of the manager's goroutine and of
  the kubelet's restart. Orders and startups fail at most `MaxFailures` times in
  a row.
- `ConnPool`: weak fairness of every goroutine in a method (Go schedules it,
  SQLite answers), and strong fairness of the hand-over to each goroutine:
  `database/sql` picks a waiting one at random, so none is passed by for ever.
- `WsProxy`: weak fairness of the handler and of the two goroutines; strong
  fairness of `WriteMessage`, because the write lock of a `Conn` serves pongs and
  messages in turn; weak fairness of a connected peer's reading. The last is an
  assumption about the peers that the code does not enforce: `WriteMessage` has
  no deadline. Nothing is assumed of what the peers send or when they end.

## Theorems

| Theorem | Module | Statement |
|---|---|---|
| `TypeCorrect` | `SessionsProofs` | `Spec => []TypeOK` |
| `GateForwardsAllowed` | `SessionsProofs` | `Spec => []ForwardsAllowed` |
| `GateBarredStayOut` | `SessionsProofs` | `Spec => []BarredStayOut` |
| `TokensOfRunningSecret` | `SessionsTokenProofs` | `Spec => []SecretRotationLocksOut` |
| `DevicesAgree` | `SessionsRowProofs` | `Spec => []SameDevice` |
| `TrailTruthful` | `SessionsRowProofs` | `Spec => []AuditTruthful` |
| `PromisesKept` | `SessionsRowProofs` | `Spec => []DeliveredHonoured` |
| `RowsOnlyAge` | `SessionsRowProofs` | `Spec => SessionsOnlyAge` |
| `SpentIsAnswered` | `SessionsRowProofs` | `Spec => RotationAnswered` |
| `ForksBounded` | `SessionsRowProofs` | `Spec => []ForkBound` |
| `SerialSingleUse` | `SessionsRowProofs` | one request at a time: `Spec => []RotationSingleUse` |
| `SerialLogoutFinal` | `SessionsRowProofs` | one request at a time: `Spec => []LogoutIsFinal` |
| `SerialRevocationFinal` | `SessionsRowProofs` | one request at a time, `~Faults`: `Spec => []RevocationIsFinal` |
| `SessionsImplementDeviceAccess` | `SessionsRowProofs` | `Spec => ImplementsDeviceAccess` |
| `FlowTypeCorrect` | `DeviceFlowProofs` | `Spec => []TypeOK` |
| `PairedWhenApproved` | `DeviceFlowProofs` | `Spec => []ApprovedIsComplete` |
| `TokensAccountedFor` | `DeviceFlowProofs` | `Spec => []TokenNotForgotten` |
| `ConsumedStays` | `DeviceFlowProofs` | `Spec => ConsumedIsFinal` |
| `OneRequestPairs` | `DeviceFlowProofs` | `Spec => []OnePairs` |
| `SerialDecisionsStay` | `DeviceFlowProofs` | one request at a time: `Spec => TerminalStatusStays` |
| `WaitersHaveAWorker` | `ConnPoolProofs` | `Spec => []HolderWorks` |
| `PoolImplementsAtomicStore` | `ConnPoolProofs` | `Spec => ImplementsAtomicStore` |
| `RelayCorrect` | `WsProxyProofs` | `Spec => []WsInv` |
| `CloseCodesRelayed` | `WsProxyProofs` | `Spec => CloseRelayed` |
| `ProxyImplementsRelay` | `WsProxyProofs` | `Spec => ImplementsRelay` |
| `TlsTypeCorrect` | `TlsCertProofs` | `Spec => []TypeOK` |
| `PairServed` | `TlsCertProofs` | `Spec => []ServedIsPaired` |
| `ValidServed` | `TlsCertProofs` | `Spec => []ServedIsValid` |
| `CacheSparesTheOrder` | `TlsCertProofs` | `Spec => OutageOnlyInWindow` |

They hold for all values of the constants that satisfy the assumption of the
module (`SessionsAssumption`, `ConnPoolAssumption`, ...): any number of requests,
goroutines, messages, restarts and failures, any lifetimes, clock resolution and
capacity, with or without faults. `RowTheorems` has the lemmas about `Insert` and
`Delete` and about division that the theorems about `Sessions` and `DeviceFlow`
rest on. Four theorems have a hypothesis of their own, and it is the point of
them: "one request at a time" is `Cardinality(Reqs) = 1` in `Sessions` and
`\A q, r \in Reqs : q = r` in `DeviceFlow`. `RotationSingleUse`, `LogoutIsFinal` and
`TerminalStatusStays` are what the repository's documents promise and the
violation runs refute with two requests; the theorems show that nothing but the
concurrency of two requests breaks them, cleanups, restarts and operator calls
between any two calls included. `~Faults` in `SerialRevocationFinal` is needed
because the gate ignores an error of the revocation and records the denial all
the same.

*Type correctness.* `TypeOK` alone is not inductive: a handler at "rotate" with
`new = 0` would insert a row with key 0. `TypeInv` adds `LocalOK`, which ties a
handler's position to the local variables it has set (`HasSession`, `HasNew`).
Each action has one step; `LocalStep`, `GotoStep`, `MoveOn`, `FinishStep` and
`FoundIsLocal` are the few ways in which a handler moves.

*The gate.* `ForwardsAllowed` says nothing of whether the device row still
exists, and a restart changes the allow list. `GateInv` adds to `TypeInv`:

- `Minted`: device ids in the table are below `nextPair`, so pairing never
  overwrites a device (its email, or its revocation);
- `ProxyLocal`: a proxying handler's device is in the table with an allowed
  email (a restart ends all handlers, so the allow list cannot change under one);
- `BarredLocal`: a handler that started on a revoked device's session still
  finds the device revoked, and is at one of the calls that can only reject it
  or log it out.

`DevicesNext` shows that no action takes a device or its revocation away;
`GateStep` treats the handler that moves, `GateNext` the others.

*Tokens.* `SecretRotationLocksOut` speaks of a handler and the history; what makes
it true is what the tables hold. `TokenInv` adds to `TypeInv`:

- `Generated`: every pair in a table, in a handler or with a client is below
  `nextPair`;
- `Owned`: the pair a handler has generated is no other handler's and is not
  with a client before the response;
- `Keyed`: a row holds the hash of its own token, under the secret in force when
  the token was delivered, or under the running one while a handler still has to
  deliver it;
- `Presented`: what a handler found was delivered under the running secret.

`QuietStep` covers all actions that generate, deliver and look up nothing (a
restart among them: it may change the secret because it ends all handlers);
`GenerateStep`, `FoundStep` and `RespondStep` cover the others.

*The session rows.* `RowInv` adds to `TokenInv` what the rows owe to handlers that
are between two calls:

- `Cutoffs`: no cleanup works with a time that is still to come. Together with
  `DivBounds` it makes every row a cleanup deletes an expired one, at any clock
  resolution;
- `Handlers`: a handler that has not inserted a row of its pair finds the key
  free, one that has finds the row there until its expiry and of its device;
  the session it holds is its device's; one about to record a revocation or a
  refresh has done it;
- `Promises`: the same for every pair a client was told of;
- `Lineage`: `SameDevice` row by row, and that a parent's token had been handed
  out, so that no later pair can take the place of a parent;
- `Trail`: `AuditTruthful` event by event, and that no handler is still going to
  insert the session an event names.

Most steps only age the tables (`TablesAge`: rows stay, get revoked, or go after
their expiry) and move one handler: `AgeStep`, `FrameStep` and `OneHandlerStep`
treat them together, and `RevokedAge`, `DeletedAge` and `CleanupAge` show that
revocation and cleanup age. The inserting calls and the rotation have lemmas of
their own (`AccessInserted`, `RefreshInserted`, `Rotated`).

*Forks.* `ForkBound` counts children only and is not inductive: refreshes that
read the session before it was rotated will add more. `ForkInv` counts them
too: children of a session and the handlers that may still rotate it are
together no more than `Cardinality(Reqs)`. A rotation turns one of the
handlers into a child, and once a session has a child (which marks it) no
handler joins (`PendingJoins`).

*One request at a time.* `SerialInv` says of a device with a final event that its
sessions are all revoked, that it was made before, so that pairing makes
another one, and that no handler is about to store a session for it. With
two requests the last part is what a refresh in flight breaks: finding 2.

*Device access.* What holds of logout and expiry with any number of requests is the
refinement of `DeviceAccess`; it needs no invariant beyond `RowInv` and `Minted`.
`StoredFrom` and `UsableFrom` trace a usable session back to one that was usable
before or to the handler that has just stored it, `HandlersFrom` a handler that
holds a device back to a usable session or to a pairing, and `Minted` makes every
pairing another device. So no step gives a device its access back (`StaysOut`);
`PairIsPair` and `ConnectedFrom` single out the two steps that are not a `Leave`.
What has expired stays expired because the clock only grows (`NowGrows`).

*The device flow.* A handler's `todo` is always one of the branches or what is left
of one; `FlowInv` is stated over this finite set of `Paths`:

- `Handlers`: a handler past `Store(k)` finds the row `k` stored (`Progress`); one
  that holds the token (`Holding`, the branches with `UserEmails` or
  `RevokeToken` ahead) finds it `"held"` and the device code used up; one about
  to poll has read `pending` or `slow_down`; one about to insert finds no row;
- `OneEach`: at most one handler inserts a transaction, and at most one holds
  its token;
- `Held`: a held token has a handler that holds it;
- `RowsKnown`: a row is one of a code that was requested, so no request inserts
  over it;
- `Complete`: `ApprovedIsComplete`, transaction by transaction.

`Tails`, `Heads` and `AtCall` compute what is left of each branch and which calls
it is at. `MovesTo`, `TokenMovesTo` and `ArrivesAs` collect what a step of a handler may
do to its transaction; `Moves`, `TokenMoves` and `Arrives` show the first four parts for
any such step, so that each action has to show only that it is one.
`TokenNotForgotten` is `Held` and `HoldingAhead`. `ConsumedIsFinal` needs `Complete`: a
consumed transaction has all its rows, so the `StoreRow` of another handler
would add nothing. For `SerialDecisionsStay`, `AskedRows` says that the row of a
handler that is polling is still open.

*The pool.* `HolderWorks` rests on what the handlers call: none of them calls
`BeginTx` (`HandlerTypes`), so the connection always goes back to the pool or to
a waiting goroutine. The inductive `PoolInv` says so (`conn # OuterTx`) and that a
connection is never left in the pool while someone waits, that who has it or
waits for it is inside a method, and that what is open on it is an initial part
of the statements of its owner's method (`dirty = Prefix(...)`). So a commit writes exactly `Statements(Method(g))`, which is the
`Apply` step of `AtomicStore`; `Rollback`, `Answer` and `Crash` are its steps
without a write, everything else is a stutter. `ProgramTypes` and `HandlerTypes`
type the handlers' sequences of methods.

*The relay.* `WsInv` and the refinement say nothing of frames on the way, which
is where the next message and the next close code come from. `IInv` adds

- `Stage`, `Dialling`: which legs are open at each `phase`, and that nothing has
  happened on the Gateway's leg before `Dial`;
- `DoneIsReturn`: a goroutine that still runs after a leg was closed finds `done`
  closed, so the other one has returned;
- `ToldLate`: while a goroutine runs, the peer it writes to has been sent a close
  code only if that peer had ended;
- `Consecutive`: the messages passed, the one in hand and those in the inbox are
  numbered without a gap. It makes `WriteMessage` a `Pass` of `Relay`;
- `EndingsAreReal`: a close frame in an inbox, on the wire or in hand carries
  what its peer did, or 1006 for the end of a stream. It makes every close frame
  written a `Tell`.

Each part has a lemma with one step per action (`TypeStep`, `StageStep`,
`ConsecutiveStep`, `WireStep`, `EndingsStep`, `ToldLateStep`); `PumpStep`,
`PeerStep` and `HandlerStep` map the steps to `Relay`. `CloseRelayed` is a property of
the step in which `forwardCloseCode` returns (`ForwardStep`): by `ToldLate` no other
code was sent before, unless the peer had ended; by `DoneIsReturn` a closed leg
means that the other goroutine has returned for a reason of its own; what is
left is a full leg. With TLC, each of the exceptions is needed.

*The certificate.* A certificate that passes a check has `RenewBefore` left; every
failed order since then costs one `CheckInterval`, and so does the time to the
next check. `TimeLeft` says this with the ticker and the count of failures, and
`NewIsLong` that what `obtain` was given still has its whole lifetime. Their
conjunction with `ServedIsPaired` and the types is inductive, and with
`(MaxFailures + 1) * CheckInterval <= RenewBefore` gives `ServedIsValid`.
`OutageOnlyInWindow` speaks of the step in which `Start` gives up; `CacheInv` says what
was in the cache when it began to order, and that between its two writes the
files do not fit, so that `loadCached` would not have taken them either.

Only model-checked: liveness (`ExpiredPurged`, `Settled`, `ComesUp`, `NoSubset`,
`Answered`, `TornDown`), because fairness is defined with `ENABLED`, which the
prover does not treat. Every invariant and every action property of a passing
run is also a theorem; for `RotationSingleUse` and `RevocationIsFinal`, under the
hypotheses that `sessions_serial` realises. The inductive invariants were tried with
TLC on small instances before they were proved.

## Findings

1. `handleRefreshSession` checks `RotatedAt` two calls before the unconditional
   `UPDATE` of `RotateRefreshSession`: two concurrent refreshes with one token
   both succeed. `ForkBound` is the bound that does hold.
2. A refresh that read its session before a logout inserts unrevoked sessions
   after it. `ImplementsDeviceAccess` says that nothing else brings a device back.
3. `UpdateDeviceAuthorizationPollInterval` overwrites a terminal status with
   `slow_down`.
4. `forwardCloseCode` takes the end of a stream for a close frame, because
   gorilla/websocket reports it as a `*CloseError` with 1006, and writes a close
   frame with that code to the other peer. `ImplementsRelay` allows this one code
   beside the genuine ones (`MayTell`, `Genuine`) and shows that there is no other;
   with `ReadEOF` returning like `ReadError`, `OnlyGenuineCloses` holds.

`PROJECT.json` quotes the documents and comments they disagree with.

What else came up while modelling, without a run of its own:

- `handleRefreshSession` (`handler.go:475`) does not consult the allow list: after a
  restart without its email, a device keeps receiving new token pairs.
  `README.md:49` says "Only emails in this list can complete Device Flow and
  receive tokens", which is so for the Device Flow only. `ForwardsAllowed`, checked
  with changing lists and proved, says that such tokens buy nothing at the gate.
- `forwardCloseCode` can fail, and its result is not used. When the other
  direction has failed first, the handler closes both legs and the code is lost;
  when the other leg is full of what its peer has not read, `WriteControl` gives
  up after a second and the code is lost although that peer is still there.
  `CloseRelayed` names these cases; the comment at `proxy.go:353` does not.
- `clientIP` (`proxy.go:376`) prefers the first address of `X-Forwarded-For`, which
  is what `tailnet.IsPeer` is then asked about; `README.md:103-105` says that the
  request's real `RemoteAddr` is used. `WsProxy` leaves the address out and lets
  `IsPeer` answer either way, so nothing checked here depends on it.
- The ping handlers return the error of `WriteControl`: a pong that times out on a
  full leg ends the connection (`ReadPing`).
- A connection whose upgrade or dial fails, or that a shutdown ends, has a
  started event in the audit trail and no completed one; the completed event is
  written before the legs are closed, so their teardown waits for the database.
- A relayed connection is authenticated once. It outlives the revocation or the
  expiry of its session.
- An expired transaction may be deleted by the cleanup before its client polls
  again; the client then hears 404 and not `expired`. `Settled` counts both as final.
- An invalid `REFRESH_TOKEN_TTL` silently becomes the fallback of `parseDuration`.
- The TLS ports are bound after the plain ones are served, so a bad TLS port is
  found late; `NoSubset` shows that the process then ends.

## Not modelled

- How environment variables are parsed (`internal/config` but for `HashSecret`,
  `IsEmailAllowed` and the rejection of a bad environment), the algorithms in
  `internal/utils`, header rewriting, URLs, response bodies and logging: pure and
  stateless, abstracted to what the handlers tell apart.
- `internal/handler/middleware.go` and `health.go`: not registered by `main`.
- `RevokeAccessSession`, `RevokeRefreshSession` and the list queries on the tables:
  no caller. As users of the connection, the list queries are in `ConnPool`.
- Several proxied connections at a time: they share nothing but the database,
  whose part is `ConnPool`'s.
- Graceful shutdown of plain requests: the effect on the tables is that of a
  crash at a moment when fewer handlers run, which `Restart` includes. What it
  does to proxied connections is `Stop` in `WsProxy`.
- `tools/device-flow-validate`: a test client that polls until a final status;
  the client of `DeviceFlow`'s `FairSpec` does that, the rest is printing.
- The scripts (`src/scripts`): one-shot programs of one process that call
  `kubectl`, `helm`, `docker` or an HTTP API. Their state is that of the cluster,
  of which the repository only has the declarations.
- Helm templates and images: declarative. `strategy: Recreate` and the readiness
  probe are used as assumptions of `Sessions`.

## Plan

1. (done) `Sessions`, `DeviceFlow`, `TlsCert`; type correctness, the gate's two
   invariants and `SecretRotationLocksOut` proved.
2. (done) `ConnPool` and `AtomicStore`, `WsProxy` and `Relay`, the startup of
   `main` in `TlsCert`; the refinements, `HolderWorks`, `WsInv`, `CloseRelayed`,
   `ServedIsPaired` and `ServedIsValid` proved.
3. (done) Proofs: the properties of the session rows, the bound on forks and
   the three serial theorems of `Sessions`; type correctness, the pairing, token
   and consumption properties and the serial theorem of `DeviceFlow`;
   `TypeOK` of `TlsCert`.
4. (done) Proofs: `DeviceAccess` and its refinement by `Sessions`, for concurrent
   requests as well; `OutageOnlyInWindow` and the invariant of the cache.

Left to a later change of the code rather than to more proofs: a second check when
a proxied connection has outlived its session, and conditional `UPDATE`s for the
rotation and for `slow_down`, with which the two race runs should pass.
