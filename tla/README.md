# A TLA+ model of the write command process

Paths below are relative to the repository root (`src/` here). The system is
the write side of a store: gateways send signed commands, one process
(`ao/write/process.lua`) checks, runs and answers them, and every change it
makes leaves as an event. A checkout gateway and a few command line tools, in
JavaScript, are clients of that process.

## 1. The system

### Components

| Component | State it keeps | Operations | What makes it correct |
|---|---|---|---|
| Command pipeline, `M.route` (`ao/write/process.lua`) | the state table, the WAL file | one command from checks to answer | a command runs once; every answer is the command's own and the same; what is answered is logged |
| Idempotency registry (`ao/shared/idempotency.lua`) | key to response, in memory, in `WRITE_IDEM_PATH` and in `WRITE_STATE_DIR` | `lookup`, `record`, `load` | an outcome that was recorded is the one served, also after a restart |
| Persistence (`ao/shared/persist.lua`, `storage.lua`) | snapshots, the key-value file | `load`, `save`, `persist` | what is on disk can be explained by commands that ran |
| Nonce guard (`ao/shared/auth.lua`) | nonce to time of use | `require_nonce`, `trim_nonce` | a message passes no more often than TTL and skew allow; the cache is bounded |
| Rate limits (`auth.lua`) | buckets, subjects, their file | `check_rate_limit`, `bump_unique_subject` | no more than the limit in a window, also across restarts |
| Signatures, JWT, roles (`auth.lua`, `jwt.lua`, `crypto.lua`) | none | checks of one message | decisions per message only |
| Validation (`validation.lua`, `schema.lua`) | none | checks of one payload | decisions per payload only |
| Webhook intake (`process.lua`, `psp_webhooks.lua`) | replay cache, breaker, retry queue, dead-letter queue | `ProviderWebhook`, `RunWebhookRetries` | no event is lost, none is applied twice, the queue is bounded and empties |
| Payments and orders (`process.lua`, `stripe.lua`, `paypal.lua`, `gopay.lua`) | orders, payments, disputes | nine commands and the webhooks | money and record agree; version and events identify the order's status |
| Outbox (`process.lua`, `storage.lua`, `scripts/worker`, `scripts/bridge`) | the queue and the dead-letter queue, in memory of several processes and one file | `enqueue_event`, `flush_queue`, the retry tools | every event reaches the other side |
| Content workflow | drafts, versions, locks, workflows, schedule | save, lock, review, publish | a published page is the one that was approved; locks exclude |
| Carts, coupons, checkout | carts, coupons, redemptions | cart commands, `ApplyCoupon`, `CreateOrder` | totals follow items and coupons; limits hold |
| Inventory, shipments, returns | stock, shipments, returns | status updates, shipping webhooks | every item leaves and comes back once |
| One-time passwords, sessions | codes, sessions | `IssueOtp`, `ExchangeOtp`, sessions | a code opens one session |
| Forms, catalogue, profiles, roles, subscriptions, translations | tables | store what the command says | |
| Audit, export, metrics | append-only files | write | |
| Checkout API server (`scripts/http/checkout_api_server.mjs`) | its configuration; per request, where it is in sending | HTTP to command, choice of the process, signing, sending with retries, HTTP answer | a command reaches only a process its client may name; what a client signed stays; a retry is the same command; an answer says what happened |
| Command line sender (`scripts/cli/send_write_command.js`, `retry_helpers.js`) | one run | sign, send through scheduler or push, read the result | it prints the command's outcome, and ends |
| Execution probes (`deep_test_scheduler_direct.js`, `business_matrix_scheduler_direct.js`, `execution_assertions.js`) | one run, a report | send, probe, judge | a strict run that passes has shown execution |
| Diagnosis, builds, deployment and verification (`scripts/cli`, `verify`, `ops`) | | | |

### How they interact

`handle_write_message` calls `M.route` under `pcall`. `M.route` checks the
message, asks the registry, enters the nonce, asks the rate limits, and runs
the handler. The handler changes the state table and puts events in the outbox,
whose file is rewritten at once; then `M.route` appends to the WAL, records the
response twice (under the scoped key and under the request id), saves the state
and answers. PSPs deliver webhooks as commands, in any order and more than once;
hooks that cannot be handled yet go to a retry queue that a timer or operator
runs. Outbox workers are processes of their own that read and rewrite the
outbox file.

The clients do not call the process: they put a message before a scheduler
(`ao.message`, or a POST to `~scheduler@1.0`), which gives it a slot, and ask
for the result at that slot (`ao.result`, then `compute=slot` over HTTP). Every
wait may end with a timeout that cancels nothing, and then the command is sent
again as a message of its own, with the same request id and nonce. The gateway
first builds the command from an HTTP request, chooses the process it is for and
has it signed unless its client has.

### What is hard

The process is single threaded, so nothing interleaves within a command. What
can go wrong comes from outside: messages resent, duplicated, late and out of
order; a death or a failed write between two of the writes of one command; a PSP
that acted and whose reply was lost, and that reports what it did a second time;
caches that forget after a time, at a size or at a restart; a retry run that has
the queue in its hands; for the outbox, several processes over one file; and, for the clients, copies of
one command that are computed in any order, or long after the client has given
its answer.
`PROJECT.json` lists each of these hazards at its line.

## 2. The modules

### `CommandLedger` and `WriteCommand`

`CommandLedger` is what the process promises its gateways: a command runs, its
outcome enters a ledger, every answer reports the ledger's outcome, and a command
in the ledger does not run; a fault may make the ledger forget, or leave a run
behind that reached no ledger.

`WriteCommand` is `M.route` in detail. A *command* is a scoped idempotency key
(request id, tenant, action), a *message* is a submission of it under a nonce of
its own. The process's position in `M.route` is `pc`; each file it writes is a
variable. The actions follow the code:

| Action | Code |
|---|---|
| `Replay` | the registry holds an outcome (scoped key, then alias with its scope check) |
| `RejectByRate`, `Accept`, `HandlerThrows` | nonce, rate limit, handler, which may save the state snapshot itself (`persist.save` at lines 1198 and 3807); `pcall` catches what is thrown |
| `AppendWal`, `WalFails` | the WAL line, written or lost without notice (only the buffered `f:write` is looked at, not `f:flush` and `f:close`), or `SERVER_ERROR` |
| `RecordScoped`, `RecordAlias` and `...Fails` | `idem.record`: memory, then file by rename, then snapshot |
| `SaveState` | the state snapshot, which fails silently, and the answer |
| `Restart` | death between any two writes, then what `Idem.load` and `persist.load` read |
| `NonceLapses` | the nonce cache forgets (`NonceGuard` says when) |

Checks that precede the registry and refuse a message change nothing and are not
in the model.

### `NonceGuard`

`require_nonce_and_timestamp`, `require_nonce` and `trim_nonce` over a clock:
the skew check, the check of the cache, the purge of entries past their TTL (with
the code's two different comparisons), the trim that drops the older half, the
store file that may fail to be written, and a restart. `times` counts how often a
message got through while its nonce was not forgotten early.

### `WebhookRetry`

`ProviderWebhook` with the replay cache, the breaker and the retry and
dead-letter queues, and `RunWebhookRetries` job by job, so that a crash may come
between two jobs. Timestamps are ages and waits count down. A hook may be
delivered several times, before its payment is known, and its verification may
succeed, fail or be unavailable. `Deliver` dates the entry of the replay cache as
`mark_webhook_seen` does: by the command's timestamp, up to `Drift` off either way, if it is epoch
seconds, and by the clock otherwise. The cache holds `SeenMax` entries and drops the oldest
dates first; entries of other events (`OtherHook`) take room in it.

A crash finds the snapshot as it was last saved (`CrashSaved`) or, if it comes inside
`persist.save`, which truncates before it writes, none (`CrashTorn`). `exposed` holds the hooks whose jobs
the snapshot may lack: inside a retry run a failed job saves the table while the other jobs
are in the run's hands only. `lost` holds those a crash has really lost.

### `Payments`

An order, its payment, and Stripe as an actor: calls may be done or refused and
their replies lost; everything the PSP does becomes a webhook that arrives in any
order, or never. The handlers are `CreateOrder`, `UpsertOrderStatus`,
`CreatePaymentIntent`, `CapturePayment`, `VoidPayment`, `RefundPayment`,
`IssueRefund`, `ConfirmPayment`, `PaymentReturn`, `RefreshPaymentStatus` and
`handle_psp_webhook` with `set_payment_status` and `apply_refund`. Amounts are
whole units. A refund's webhook may name no amount (`unnamed`): it sets the payment's status and
counts nothing. `ProviderShippingWebhook` is here for the `OrderStatusUpdated` event it
emits, with a shipment's status, without a version and without a change of the order; so an
order has a last event (`event`) and a last event with a version (`latest`). Shipments
themselves, hooks on intents in progress, disputes' records, PayPal and GoPay are left out.

### `Outbox`

The file `WRITE_OUTBOX_PATH` and everyone who rewrites it: `enqueue_event` in the write
process, `outbox_daemon.lua` as a service (with `luv`) or run once, and
`outbox_retry.lua`. Each `Storage.persist` is two actions, because it truncates the
file before it writes it: in between somebody may read the file (and die, since it
cannot be decoded), write it too (and mix the contents), or die. A worker handles one
entry per action (`Flush`, `Retry`), so anything may come between two. An entry is
an event and the count of its attempts (queue) or retries (dead-letter queue);
backoff is the choice of an entry that was tried to be due or not. Each worker has a `Limit` of
its own: the daemon reads `OUTBOX_RETRY_LIMIT`, `outbox_retry.lua` only `RETRY_LIMIT` (5 by
default), so that raising the first, as `docs/runbooks/retry.md:20` advises, does not keep the
second from giving an event up after 5 retries.

A *fault* is a death, a restart, a file that does not open, a write that fails (nobody looks at
what `Storage.persist` returns), or a connection that fails: curl then reports 000, which
`bridge.lua:82` takes for a success, and no reply, whose hash is not looked at. The bridge
has an endpoint and is not switched off; otherwise it delivers nothing and reports success.

| Action | Code |
|---|---|
| `Enqueue`, `WriterPersists` | `enqueue_event`, up to the truncation and from there |
| `Start` | `storage.load`, once per worker |
| `Flush`, `Failed` | the loop over `outbox_queue` |
| `Delivers`, `Fails` | `bridge.forward_event`, its two answers, and whether the event was received |
| `Retry` | the loop over `outbox_dlq` (daemon and retry tool) |
| `Save`, `WorkerPersists` | `storage.put`, `storage.persist` and what follows |
| `WriterRestarts`, `WorkerDies` | the memory is lost; the write process does not load the file again |

`exposed` collects the events the design does not protect: those emitted while a
worker runs or the file does not open, those in a file that was mixed or torn, those a restarted
write process will overwrite, and those forwarded without a connection. `KeptUnlessExposed` says these are *all* the ways an event
is lost.

### `GatewayRouting`

The gateway up to the point where a command leaves it. `Start` is `buildEnv`: it
accepts an environment or there is no server. `Serve` is the whole handler of a request,
in the order of the code's checks: `createServer` (`Dispatch`), `handleCheckout`,
`buildCommand`, `resolveTargetWritePid`. These are pure functions, and the last three stand as
operators of the same names. A request and an environment are records of the fields that decide
something; all spellings of a field are one, except where the code knows only some
(`payload.siteId` and `payload.SiteId`). `Absent` is what `firstString` skips; only `payload.siteId`
is also tested as it is (line 454), where `' '`, `'null'` and `'undefined'` count as a site: `Placeholder`.

### `CommandIngress`

What lies between a client and the write process, for `CheckoutGateway` and
`SendWriteCommand`: a request is a command as a client holds it; each sending of it is a
*copy*, which is in flight, has a slot (`scheduled`) or has been computed (`landed`). A lost copy
is one that stays in flight for ever, so losing needs no action. The slots are computed in any order.
What the process does with a copy is `WriteCommand` without its faults, one action per way
through `M.route`: `Replay`, `RefuseStale`, `LimitSender`, `RefuseNonce`, `LimitScope`, `Run`. Scheduler
and nodes are external: they are assumed to show at a slot what was computed there, an
error, or nothing.

### `CheckoutGateway`

From the signing to the HTTP answer: `pc` says what the handler of a request waits for.

| Action | Code |
|---|---|
| `Open`, `SignerAnswers` | `maybeSignCommand` |
| `MessageAccepted`, `MessageFails` | `ao.message` under `withTimeout` and `withRetry` |
| `ResultRead`, `ResultFails` | `ao.result`, and whether it is believed (`hasWriteEnvelopeCandidate`) |
| `ComputeHeaders`, `ComputeBody`, `ComputeFails` | the fallback, `compute=slot` |
| `Normalize`, `HttpStatus` | `normalizeWriteResult` over the shapes a result can have |

### `SendWriteCommand`

One run of the sender in one of its modes: `scheduler`, `push`, or `auto`, where a failed
scheduler is followed by push and a push whose result cannot be read by the scheduler, so that
up to three copies of one command are about. A scheduler's answer without a slot is read as slot 0
(`Number('')`), where the run finds the result of another message (`Foreign`) and prints it. The conditions for trying again are those of
`classifyRetryError` over the kinds of errors each helper throws.

### `ExecutionProbe`

The two tools that send a list of commands through a list of URLs and judge each *trial*, a command at
a URL, by what a node computed. The deep test works URL by URL in phases, the matrix trial by trial. The transport is the
same as in `CommandIngress` without the process, of which the tools ask only that it computed
something. A scheduler's answer without a slot is read as slot 0 here too, and a list of
URLs that is empty passes. The node is trusted in one thing: it shows results, or a number in `at-slot`,
which are all that `assessRuntimeEffect` asks for, only of a slot that was computed.

## 3. The runs

| Run | Question | Bounds and why they are enough |
|---|---|---|
| `command` | what survives resending, duplication, lapsed nonces and faults; refinement of `CommandLedger` | two commands under *one* request id (so that the alias is contended), a message each that can be delivered again and again, two faults: one to get into each bad state and one on top of it; a lost WAL line is a fault like the others; four runs of handlers in all, one per command and one per fault: 2.3 million states |
| `command_restart` | **violated**: `WRITE_IDEM_PATH` "persist[s] idempotent responses across restarts" | same, one fault suffices |
| `nonce` | how often a message passes, by TTL and skew; what the trim keeps | three messages over a cache of two (so that the trim runs), TTL = skew = 2, in the proportion of the defaults (300 and 300), clock to 4, the whole window of a message, one restart. The bound `1 + 2 * skew / TTL` is reached |
| `webhook` | nothing is lost, prompt hooks are not applied again early, cost is bounded, the queue empties | two hooks and an event of another provider, two deliveries, two retries, a queue of two that the jobs of two deliveries fill, a replay cache of one entry, so that a second hook evicts the first, skew 1 and a window of 2, in the proportion of `ops/env.prod.example` (300 and 600), where the window less twice the skew is nothing: at once is too early, one step later is not, one crash: 1.0 million states |
| `payments` | version and event identify the status; no refund is forgotten | one order (orders do not interact), total 2 so that a refund may be partial, two intents so that one replaces another, three commands with any number of PSP actions and webhooks, the carrier's included, in between: 513,417 states |
| `payments_refund` | **violated**: `refundedAmount` tracks the refunds | one intent |
| `outbox` | which events the file is sure to keep; none is given up early | two events, the service with a limit of two and the retry tool with a limit of one, so that the limits differ and an entry goes through each list more than once, two faults of any kinds, so that one may follow from another: 4.2 million states, the two events being interchangeable |
| `outbox_once` | **violated**: the worker is "safe to repeat" beside the write process | one worker run once, no fault |
| `routing` | does a command reach only a process its client may name, for the site the map gives to that process, and as it was signed | every environment over two process ids and two sites, six maps (none, malformed, one site, two, an empty and an invalid entry), and three families of requests: what the front door looks at, what decides the process, what decides the command's identity. Requests do not interact, and each check looks at the fields of one family: 725,004 states |
| `gateway` | what answers say about what the process did; refinement of `CommandLedger`; every request that was sent is answered | two requests with one key and a nonce each, two attempts at each step, three configurations: copies of one request, of two requests, and answers to both can interleave: 603,798 states |
| `send` | what one run of the sender prints, and that it ends | three copies (the most the code can send), four attempts as in the code, all modes: 19,633 states |
| `probe` | what a strict run that passes has shown | two commands, two URLs, both tools, both modes; commands meet only in the order of the loops: 4.9 million states |

Bounds that are not of the code are constants named `Max...`; they stand in
guards. `CHECK_DEADLOCK FALSE` is set where bounded faults, clocks or commands let
a behaviour end.

Every property of a passing run has a *mutant* in `PROJECT.json`: an operator next
to the one it replaces, with the mistake it stands for in its comment.

Fairness is assumed in three modules. In `WebhookRetry` the clock runs
(strong fairness, because retry runs may follow each other so closely that `Tick`
is disabled again and again) and `RunWebhookRetries` is called again and again and
runs to its end (weak fairness), as `docs/runbooks/retry.md` asks of the operator.
Deliveries, payments becoming known and crashes have no fairness. In `CheckoutGateway` and
`SendWriteCommand` only timers are fair (`Timers`: `setTimeout` fires). Nothing is assumed of
the network, the scheduler, the process, the signer and the bodies of responses, so `Settles`
and `Ends` hold whatever is lost, and leave out the waits that have no timer: a body that does
not end, the signer, and the sender's scheduler request.

## 4. The findings

Each violated run states what a document or test of the repository says; its
counterexample is a behaviour of the code. They are described with their quotations
under `findings` in `PROJECT.json`: an idempotency file that is written in one
layout and read in another; refunds counted by the command and by its webhook; an
outbox worker that erases events emitted while it runs.

Other differences between documents and code came up while modelling and are noted here
without a run:

- `docs/architecture/03-failure-modes.md:8` says a command "either records audit + emitted
  events or fails atomically". A command answered `SERVER_ERROR` has already put its event in the
  outbox (`process.lua:4007`); `WriteCommand` has the behaviour, and `UnloggedEventNeedsFault`
  says that it takes a fault.
- The log is called write-ahead and `process.lua:4013` answers `SERVER_ERROR` when a line cannot be
  written, but only what the buffered `f:write` returns is looked at; on a full disk the line is
  lost and the command answered. `UnloggedAnswerNeedsFault` allows one such answer per fault.
- The nonce cache is to stop replays, but a message stamped ahead of the clock is fresh for twice the
  skew, and a nonce is refused for one TTL. With the defaults (300 and 300) such a message passes three times, with
  `ops/env.prod.example` (600 and 300) twice, at the two ends of its window. `AcceptedOncePerTTL` states
  the bound for any setting; once only takes a TTL above twice the skew (`ReplayIsRefused`).
- A hook whose retry fails is queued twice (`process.lua:3690` and `3802`), an application is
  dated by its command (line 976), and the replay cache drops its oldest entries (893-929). So one hook can be applied twice within
  `WRITE_WEBHOOK_REPLAY_WINDOW`. `DedupedIfPrompt` says what is left: with epoch timestamps the window
  less twice the skew, which for the shipped 600 and 300 is nothing; with ISO timestamps, which are dated by
  the clock, the window; and neither for an entry that was evicted. `AmplificationBounded` bounds the rest.
- A retry run loses jobs: a crash after one of its failed jobs has saved the table
  (line 1198), or inside the writing of the snapshot, leaves scheduled hooks nowhere. `NothingLost` says that nothing else does.
- `scripts/verify/webhook_psp_spec.lua:177` has a refund webhook without an amount: the payment is
  refunded, `refundedAmount` is not raised. `RefundCovered` leaves these webhooks aside.
- A shipment's webhook emits `OrderStatusUpdated` for an order whose status it does not change
  (`process.lua:3747`). `LastEventIsOrder` is about the events with a version, and says that the others are shipments'.
- `docs/runbooks/retry.md:20` has the operator raise `OUTBOX_RETRY_LIMIT`; `outbox_retry.lua:11` does not read it.
- `buildCommand` takes `payload.siteId` of `'null'` for a site (line 454), `firstString` does not: such an unsigned
  request is routed by the site at its top and its command is for its tenant. `MapDecides` names the case
  and excludes every other.
- `send_write_command.js` prints the result of slot 0, another message's, and exits 0 when the
  scheduler names no slot (line 108). `ShownIsTheLedgers` names the case and excludes every other.
- `README.md:269` calls `WRITE_WEBHOOK_RETRY_MAX_QUEUE` a cap on the backlog; a retry run puts
  jobs back without looking at it (`process.lua:3794`).
- `AO_DEPLOY_NOTES.md:1482` says that strict mode "fails on transport-only success". A good
  answer without a slot is judged by slot 0 and can pass (`deep_test_scheduler_direct.js:245`,
  `business_matrix_scheduler_direct.js:309`); `StrictPassIsOwn` therefore speaks of trials whose own slot
  was named.

## 5. The proofs

`WriteCommand_proofs` proves, for any sets of commands and messages and any number
of faults, that the type invariant, `RerunNeedsFault`, `ReplyIsOwnOutcome`,
`UnloggedAnswerNeedsFault` and `OneAnswerPerBoot` hold and that `WriteCommand` implements
`CommandLedger` (`ImplementsLedger`). The invariants are not inductive as they stand.
What carries them is `Inv`: the registry holds only outcomes of the key's own command
(`Registry`), the process's position and the run it holds agree
(`Progress`), an outcome reported since the last restart is still the command's entry (`Answers`), and every run
of a command is paid for: the first by its being in the registry or under way, the
others by a fault (`Paid`). `LoadsNothing` is the fact that the file of the registry
masks the snapshot: after a restart the registry is empty. `ImplementsLedger` uses `Inv`
and maps `Accept` to the ledger's `Run`, `Replay` and `SaveState` to `Answer`, faults to
`Fault` and the rest to stuttering. Three more theorems rest on `Inv`: `UnloggedIsPaidFor`
(`UnloggedInv` counts the events the log does not know against the faults; a step that adds
one either has it as the run in progress or is a fault), `UnloggedAnswersArePaidFor` (`LoggedInv` does the same for
the outcomes in registry and replies whose line was lost) and `UnrecordedSavesArePaidFor` (`SavedInv`
follows an effect from memory to the snapshot, which the handler, the end of the command or another command may write, and
counts those whose outcome did not reach the registry file).

`NonceGuard_proofs` proves type correctness, `AcceptedOncePerTTL` (`ReplaysAreSpaced`, for any TTL and skew; the
invariant `OnceInv` adds that an accepted message was fresh when it was accepted, that a nonce neither lost
nor evicted is in the cache with the time of its last use for as long as that is within the TTL, and that as many TTLs
as the message was let through again fit between the start of its window and its last use), `ReplayIsRefused`, the special case of a
TTL above twice the skew, and `CacheStaysBounded` (the cache and the file both fit; the size of the
dropped half comes from `FiniteSetTheorems`). `NoncesSurvive` proves `SurvivesHalfTheCache`:
`HalfInv` adds that every entry of the cache and of the file is backed by a message let through at
that time or later. So if the trim drops a nonce, each of the entries it keeps, more than half of
NonceMax, stands for another, later message (`TrimmedByOthers`, by a surjection from messages
to entries), and the file always fits, so that a restart trims nothing.

`Outbox_proofs` proves type correctness, `GivenUpAfterAllTries` and `KeptUnlessExposed`, for any number of
events, workers, limits and faults. `GivenUpAfterAllTries` counts across processes, so
the invariant `CountInv` says of every entry, in each memory, list and file, that its
event was forwarded at least as often as the entry counts (`Tried`), and in a dead-letter queue as
often more as some forwarder's limit says (`Attempts`). A count may lag behind, when the write process puts
an event back with its count at zero, and never run ahead. `CountMoveOn` is the step
for one entry, shared by `Flush` and `Retry`. `KeptCorrect` proves `KeptUnlessExposed`. An event
that nothing has put at risk must be more than somewhere, because every worker overwrites what the
others wrote: `Holds` says that it is in the write process's queue, in the file if that is whole,
and in what every running worker will write (`Hand`: in a pass over the dead-letter queue not what
the worker had there when the pass began), and that a torn file is open in some process.

`CheckoutServer_proofs` is about both halves of the checkout API server. For `GatewayRouting` it
proves type correctness and the four other properties of the run `routing`, for any process ids, sites,
environments and requests, and `RequiredPidNamed`: where the configuration asks for a named process,
none is filled in. The invariant `RoutingInv` is short: the configuration was accepted by `buildEnv`
(`Built`), and the output is what `Dispatch` makes of the request under it. The proofs are about the
code's case distinctions; `MapDecidesTarget` relates the route key to the command's own site and tenant,
field by field (`ScopeIsRouteKey`, whose second case is the Placeholder).

`CommandIngress_proofs` has the lemmas about the way to the process, for any client. Its
invariant `IngressInv` says: a command in the registry ran once, its response was produced by one of its
own copies and lies at that copy's slot; every outcome at a slot is the registry's; an unknown
command has not run. Every action preserves it, and outcomes never change once they are there.

For `CheckoutGateway`, `CheckoutServer_proofs` adds to these what the gateway knows: the copies that are about were sent by
it, the slot it reads is that of a copy it sent, and what it has answered was at that slot. From
these follow type correctness, `SentOftenRunsOnce` (no two copies of commands with one key both run),
`AnswersAreTheLedgers`, `SuccessIsARun`, `RefusalsAreFinal`, and `ImplementsLedger`:
gateways and process together implement `CommandLedger` without faults, `Run` mapped to the
ledger's `Run`, settling with an outcome to `Answer`, all else to stuttering. With
`WriteCommand`'s refinement of the same ledger this is the argument that `CommandIngress` may stand for
the process.

`CommandLine_proofs` is about the two kinds of command line tools. For `SendWriteCommand` it extends the
lemmas of `CommandIngress_proofs` by one run of the sender: how many copies each stage can have sent
(`CopiesInv`, hence never more than three), that nothing is under way that was not counted (`SentInv`),
and that a response that was shown lies at the slot of one of the run's copies (`ReadInv`, `ShownInv`),
where `IngressInv` says that it is the registry's.

For `ExecutionProbe` it proves type correctness and `StrictPassIsOwn` for either tool and any number of
commands and URLs. A report is about every trial, and what a trial has shown must still be true when the
run ends, long after it was judged; so the invariant `ProbeInv` follows the loops. A trial has a verdict
exactly when the loops have left it behind (`JudgedInv`, with `Before` for the order of either tool), the
trials to be judged next have been answered (`BeforeJudgedInv`), a probe that found an effect at a trial's
own slot found what was computed there (`ProbesInv`), a trial that passed was answered well and has shown
as much (`PassedInv`), and nothing moves a trial that was computed.

`WebhookRetry_proofs` proves, for any hooks, retry limits, waits, queue lengths and numbers of deliveries
and crashes, type correctness, `NothingLost`, `DedupedIfPrompt` and `AmplificationBounded`. A crash turns the
saved table into the current one, so whatever must hold of `st` must hold of `snap` too, and the lemmas about
the handler's operators are stated for a table that is a parameter.

- `HeldInv` (for `NothingLost`): a scheduled hook that no crash has lost is in a queue, was applied, or is a job of the run in
  progress (`StHeld`); what a crash falls back on may miss only the exposed ones
  (`SnapHeld`), of which there are none between runs, when the two tables are one (`SavedBetweenRuns`).
- `DedupInv` (for `DedupedIfPrompt`), of either table: a hook that a fresh command applied and nobody evicted
  has its entry in the replay cache, dated, with epoch timestamps, at most the skew too old, or has lost it
  to the window (`AllProtected`); and no hook was applied again too soon (`NotSoon`).
- `CostInv` (for `AmplificationBounded`): a job with n attempts behind it can still become
  2^(RetryMax + 1 - n) entries of the dead-letter queue, its heirs. The heirs of the jobs and the entries
  there are come to at most 2^RetryMax per delivery (`Allowed`), in either table. The heirs are counted as a
  set, because the prover can reason about the cardinality of a union and not about a sum over a sequence; for
  the same reason `PowerDoubles` comes from counting subsets.

`Payments_proofs` proves, for any orders, totals and number of commands, type correctness,
`VersionIdentifiesStatus`, `LastEventIsOrder`, `PartialIsPartial` and `RefundCovered`. Every handler and the webhook replace the entry
of one order, and `Evolves` says what the new entry may be: the order keeps version, status and event,
or is new, or takes a later version and reports it. The invariant adds that a payment names only intents its
provider has made (`Linked`) and that gateways have read no later version than there is (`SeenIsPast`);
`EntryStored` shows once that an entry which evolves keeps all of it, and each handler has a lemma that its
entry does.

`RefundCovered` needs more, because the provider moves the money in steps of its own: `RefundInv` adds that a
webhook about a refund is about an intent there is, and about the last units of what had been refunded of it
by then (`Reports`). So the units of a new refund are in no webhook yet
(`UnitsMore`), and a webhook that is applied takes away no more than its amount (`UnitsLess`). A step that
makes a refund adds as many pending units as it refunds (`Reported`), a handler leaves the payment the one it
was with no less refunded (`Pays`), and a new payment starts with an intent on which nothing was refunded.

Assumptions are those named in the modules and no others: the constants are
of the right sort, keys of different kinds differ, `None` is no value of the sort it stands beside.

Only model-checked: `QueueDrains`, `Settles` and `Ends`, which are liveness properties under fairness and
beyond the prover. Every invariant and action property of a passing run, and both refinements of
`CommandLedger`, are theorems. Only proved, and in no run: `CacheBounded`, `RequiredPidIsNamed`, and
`RunsOnce` of the gateway.

## 6. What is left

In this order:

1. Fulfilment: inventory, shipments, returns and the shipping webhooks, with orders as in
   `Payments`. Properties: every item leaves and returns once; the last status of a shipment is
   applied; events agree with the order.
2. Content: drafts, locks, review, publication and the schedule. Abstract specification: the live
   version changes only by a publication that was approved or scheduled and unchanged since.
3. Carts, coupons and totals. Totals as pure operators, checked against a
   reference definition over bounded carts; redemptions against limits.
4. One-time passwords, sessions and the rate limiter, with a proof that a window admits no more than
   its limit.
5. `PayPal` and `GoPay` as further values of the provider in `Payments`; the dispute record.

Theorems to prove next go with the modules above. About what there is: that the properties of the violated
runs hold where they can (`RefundTracksProvider` while no refund command and its webhook meet, `WorkerIsSafe`
for a worker that runs alone).

A dozen runs are as many as are convenient to repeat; a further module takes the place of a violated
run, or its run is merged with another's.

## 7. Not modelled

Cryptography, schema validation and role tables (pure functions of one message; a refusal in the
models). Audit, export, metrics and analytics (no handler reads them). Handlers that only store a
payload under its key (catalogue, profiles, roles, subscriptions, translations, form definitions).
Formatting of events and replies. Diagnosis tools, which send at most one message and print what the
nodes answer; build, deployment and verification scripts. Of the gateway: CORS headers, trace ids, the
debug fields. Of `retry_helpers.js`: the `validateParsed` hook, which no tool passes, and the lengths of
the delays. The other components without a module are listed under "What is left".
