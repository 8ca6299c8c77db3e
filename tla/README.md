# Verification of XLM Paymaster

XLM Paymaster is a gas station for Stellar: a client sends a signed inner
transaction, the server wraps it in a fee-bump transaction, signs it with a
fee-payer account of its own, charges the fee to the client's tenant and
submits the envelope to Horizon. Two servers implement the service: a Rust
server (`paymaster-server/`) and a Node server (`server/`). Around them stand
Soroban contracts (`server/src/contracts/soroban/`) and a client SDK
(`client/`). This directory holds TLA+ models of the parts that carry state
under concurrency, failure or long sequences of calls, TLC configurations that
check them on small instances, and TLAPS proofs for all instances.
`PROJECT.json` maps every definition to the lines it models.

Paths below are relative to the repository root.

## 1. Inventory

### Rust server, `paymaster-server/src/`

| Component | State | Operations | Interacts with |
|---|---|---|---|
| Signer pool, `state.rs` | per account: `active`, `balance`, `consecutive_failures`, `in_flight`; open leases | `acquire`, `report_success`, `report_failure`, `release`, `revalidate` (background task, 30 s) | leased by requests; asks Horizon |
| Horizon cluster, `horizon.rs` | per node: state, failure count; round-robin cursor | `submit_transaction`, `fetch_account_auth`, `get_transaction`, all with failover over the nodes | called by requests |
| Fee-bump endpoints, `main.rs` | rate-limit windows, quota ledger, `transaction_store` | `fee_bump`, `fee_bump_batch`, `process_fee_bump_request`, `check_api_key_rate_limit` | composes pool and cluster |
| Archival job, `archive.rs` | rows in the database, objects in S3 | read a batch, upload it, delete its rows | database, object store |
| Contract cache, codecs, gRPC engine, limiter library | none that the endpoints read | pure functions and read paths | |

Hard behaviours: every `await` on a lock or on the network lets other requests
in, so the quota is checked and charged in two steps; revalidation applies
answers against a copy of the flags taken before it awaited; a request future
can be dropped at any await while it holds a lease; a node that timed out may
have applied the transaction; two processes archive the same rows.

What makes it correct: leases are counted and returned, an account in service
has few failures, only a fresh answer of Horizon brings one back (and one does
come back), a call gives up only after every node, nothing is applied or stored
without a charge, the quota is exceeded by no more than the races allow, no row
is deleted before it is archived.

### Node server, `server/src/`

| Component | State | Operations | Interacts with |
|---|---|---|---|
| Signer pool and nonce guard, `signing/signerPool.ts`, `nonceGuard.ts` | list of account objects, cursor, high-water marks | `addAccount`, `removeAccount`, `acquire`, `release`, `withSigner`, balance and sequence updates; guard `assertAndRecord`, `initialize`, `reset` | health refresh, signer registry |
| Failover client and circuit breaker, `horizon/` | per node: mark, cooldown, breaker, probe flag; round-robin index | `submitTransaction`, `getTransaction`, `loadAccount`, recovery probes, `getNodeStatuses` | Horizon; every handler and worker |
| Fee-bump queue, `handlers/feeBump.ts`, `queues/`, `workers/feeBumpWorker.ts`, `utils/redis.ts`, `utils/asyncDbPersist.ts` | BullMQ job, replay guard in Redis, `sponsoredTransaction` and `transaction` rows | `feeBumpHandler`, `processFeeBump`, `executePreparedFeeBump`, retries, stalled jobs | BullMQ, Redis, PostgreSQL, Horizon |
| Batch fee-bump, `handlers/feeBump.ts`, `sponsors/stellar.ts` | rows and charges per item | one quota check, then item by item | PostgreSQL, Horizon |
| Cross-chain settlement, `services/crossChainSettlement.ts` | settlement rows | create, poll, confirm, execute, refund | EVM chain, fee-bump execution |
| Idempotency, `services/idempotencyService.ts` and its middleware | entries with expiry and a size limit | begin, finish, fail | HTTP handlers |
| Webhooks, `services/webhook.ts`, `handlers/adminDlq.ts` | delivery rows, BullMQ jobs, dead-letter rows | queue, attempt, move to the dead letters, replay, delete | BullMQ, receivers |
| Ledger monitor and transaction store, `workers/ledgerMonitor.ts`, `baseWorker.ts`, `transactionStore.ts` | tracked transactions, running cycle | poll, check in batches, dispatch, stop | Horizon, receivers |
| API keys, `middleware/apiKeys.ts`, `handlers/adminApiKeys.ts`, `services/tenantErasure.ts` | row, Redis entry, map of the process | look up, register, revoke, erase | Redis, PostgreSQL |
| Rate limits, `middleware/rateLimit.ts`, `sandboxGuard.ts`, `utils/gcraLeakyBucket.ts` | arrival time or counter in Redis, fallback in memory | consume | Redis |
| Stripe top-up, `handlers/stripe.ts` | session, top-up row, quota | create session, webhook | Stripe, PostgreSQL |
| Signer registry, `services/signerRegistry.ts` | rows, pool entries, account list | add, remove | signer pool |
| Treasury sweep, `tasks/sweeper.ts` | balance and sequence number | load, load again, pay | Horizon |
| Balance monitor, `workers/balanceMonitor.ts`, `services/alertService.ts`, `treasuryRebalancer.ts`, `wormholeBridgeService.ts` | per fee payer: low, last alert; bridge rows | check the balances, alert, begin and track a transfer | Horizon, Slack and mail, EVM chain (a placeholder) |
| Incident monitor, `workers/incidentMonitor.ts`, `services/pagerDutyNotifier.ts` | open incidents and the time of the first failure in Redis, fallback in memory | check signers, Horizon and restart; trigger, resolve | Redis, PagerDuty |
| Tenant registration, `services/registrationService.ts` | pending registration, audit rows, tenants, keys | sign up, verify | PostgreSQL, mail |
| Notifications, administration, billing, compliance, database pools | rows only | single statements and outgoing calls | |

Hard behaviours: an attempt awaits Redis, the database and Horizon, and up to
`FEEBUMP_QUEUE_CONCURRENCY` attempts interleave there; a failed attempt is run
again, a crashed one is found stalled and run again, and the waiting request
times out on its own; the replay guard fails open; a row is inserted without
waiting; answers of old requests reach breakers that have moved on; a lease
outlives the account object it came from; pollers and sweeps of several
processes share rows and accounts and no lock; a Redis command is under way, or
the answer of the database that leads to it, while the row it copies is revoked; `Promise.all` gives up on checks that go on;
a report that nobody awaits runs beside the cycle that looks at its result.

### Soroban contracts and client

Each call of a contract is one atomic transaction; what matters is that money
and records stay consistent over sequences of calls and that integer division
favours nobody. The contracts are streaming payments, yield vault, staking,
escrow and its factory, flash loans, royalty splitter, governance voting, bridge
relay and the DID registry.

The client's offline queue (`client/src/queue.ts`) keeps requests in the
`localStorage` of an origin; the pages of the origin share the array and each
flushes it by itself.

The other SDK files, the dashboard, deployment files and load tests carry no
state of the service; `PROJECT.json` lists them with the reasons.

## 2. Modules

| Module | Models | Composes |
|---|---|---|
| `SignerPool` | Rust signer pool | |
| `HorizonCluster` | Rust Horizon cluster | |
| `FeeBumpServer` | Rust fee-bump endpoints | `INSTANCE` of `SignerPool` and `HorizonCluster` |
| `ArchivalJob` | Rust archival job | |
| `MonotoneNonces` | abstract: per key, strictly increasing nonces until a reset | |
| `NodeSignerPool` | Node signer pool and nonce guard | implements `MonotoneNonces` |
| `FailoverClient` | Node failover client with a circuit breaker per node | |
| `FeeBumpQueue` | Node fee-bump path from the queue on | |
| `BatchFeeBump` | Node batch endpoint and Stellar sponsor | |
| `CrossChainSettlement` | settlements paid on an EVM chain | |
| `IdempotencyService` | idempotency store and middleware | |
| `WebhookDelivery` | webhook queue and dead letters | |
| `LedgerMonitor` | ledger monitor, base worker, transaction store | |
| `ApiKeyAuth` | API keys: lookup, registration, revocation, erasure | |
| `RateLimit`, `SandboxGuard` | the two request limits of the Node server | |
| `QuotaTopUp` | Stripe top-up | |
| `SignerRegistry` | signers added and removed at run time | |
| `TreasurySweeper` | sweep of a fee payer's excess | |
| `BalanceAlerts` | balance monitor, low-balance alerts, transfers to the treasury | |
| `IncidentMonitor` | incident monitor and its events for PagerDuty | |
| `TenantRegistration` | self-service sign-up and verification | |
| `PaymasterQueue` | the client's offline queue | |
| `SorobanLedger` | time and token balances, as the contracts see them | |
| `StreamingPayments`, `YieldAggregatorVault`, `MultiAssetStaking`, `EscrowFactory`, `FlashLoanProvider`, `RoyaltySplitter`, `GovernanceVoting`, `CrossChainBridgeRelay`, `IdentityRegistryDID` | the contracts of the same names | each extends `SorobanLedger` |
| `Subsequences` | what a filter keeps of a sequence, and ranks in an order, with their lemmas | |
| `RustPartsProofs` | theorems about the Rust signer pool, Horizon cluster and archival job | |
| `FeeBumpServerProofs` | theorems about the composed Rust server | |
| `NodeSignerPoolProofs` | theorems about the Node signer pool and the signer registry | |
| `FailoverClientProofs` | theorems about the failover client and the client's offline queue | |
| `FeeBumpQueueProofs` | theorems about the fee-bump queue and the batch endpoint | |
| `NodePartsProofs` | theorems about the other parts of the Node server | |
| `ContractProofs` | theorems about the contracts, alone and on one ledger | |
| `MCParts`, `MCContracts` | many parts in one instance: a behaviour picks one part, so the states add up instead of multiplying | |
| other `MC*` | constants and symmetry for TLC | |

Definitions named *what goes wrong* (`ReleaseForgetsCount`, `CheckQuotaBefore`,
`RowExists`, ...) stand directly before the definition they vary. No
specification uses them: each is a plausible bug that, put in place of its
neighbour, makes TLC report the property listed with it in `PROJECT.json`.

### How state and actions correspond to the code

**`SignerPool`.** Every method of the pool runs under one async mutex, so each
is one action. `revalidate` takes the mutex twice per account: once for the copy
of the flags (`RevalidateSnapshot`) and once per answer (`RevalidateApply`,
`RevalidateSkip`), and everything else may happen in between. `lease` and
`reported` are the request's local variables; `Abandon` is the future dropped by
the web framework: `SignerLease` has no `Drop`, so the lease stays. `total_uses`
and the `/health` snapshot are read by no decision and are left out.

**`HorizonCluster`.** `Begin` computes the node order; `Exchange` is one
iteration of the loop with its marks. The three public methods differ in how a
404 and an undecodable body end, which `KindOf` distinguishes. `applied` is the
ledger, `loose` the submissions some node may still hold after a timeout. The
strategy is configuration, chosen in the initial state.

**`FeeBumpServer`.** A request is a process with a `pc`; its actions end where
the code awaits a lock or the network. Signer pool and cluster are instances over
the same variables, so a step such as `AcquireSigner` is the pool's own `Acquire`
plus the move of the `pc`: what holds of every step of pool and cluster holds of
the server by construction, and is not stated again. `/fee-bump` is a batch of one. An envelope is its form
(bumpable or not) and its number of operations; `FeeAmount` is the ceiling of the
code's fee formula. The ledger of records is its sum per tenant and UTC day, the
only thing the code computes from it. A window of a rate limiter may have expired
at any check. `disable_rate_limits` is taken as off; with it on, `CheckIp` and
`CheckKey` are skipped and nothing else changes.

**`ArchivalJob`.** One action per call: the read of a batch, the upload, each
delete. The object's name is the second and the batch number, so two processes
in the same second write the same object; `overwritten` remembers that.

**`NodeSignerPool`.** Methods run inside `AsyncMutex` without awaiting, so each
is one action; `withSigner` is `Acquire` followed by `Release`. A lease refers to
an account *object*: `gen[k]` numbers the objects listed for a key, and while a
key is not listed its fields are those of the fresh object `addAccount` will
create. Balances are `unknown`, `low` or `enough` with respect to
`lowBalanceThreshold`. A reset of the whole guard is a sequence of resets of its
keys. `guarded` tells whether the pool was built with a guard, an option that only
tests pass: `loadConfig` (`config.ts:497-506, 535-537`) builds the server's pools
without one and without sequence numbers, and then no nonce is reserved or refused.
`signed` records the nonces handed out since a reset, and only
`ImplementsMonotoneNonces` reads it.

**`FailoverClient`.** A step runs from one await to the next:
`Begin` schedules a probe, orders the nodes and looks for the first breaker that
admits; an answer records itself in the breaker, marks the node and, when
retryable, looks on from the next position. Time is an integer clock.
`GetNodeStatuses` is an action because asking a breaker for its state half-opens
it. Response times and log texts are left out.

**`FeeBumpQueue`.** `Enqueue`, `Respond` and `TimesOut` are the waiting request;
`Start`, `Throw`, `Promote`, `RequeueStalled` are what BullMQ does with the job
options (external, modelled from how the queue is configured); the rest is
`processFeeBump` and `executePreparedFeeBump`, one action per await, with both
catch blocks. `Crash` may happen at any moment: Redis keeps jobs and hashes, the
database keeps rows, the process forgets its attempts and requests. Jobs belong to
one tenant on one day and every fee counts as one, so `TxLimit` stands for the
count and the fee limit. A Prisma call that rejects has changed nothing. `row` is
the row of the last attempt only (each attempt inserts its own). One server
process is modelled. A job of kind `unsent` is a submission to a server without a
Horizon URL (`feeBump.ts:213`): nothing is sent and the answer is `submitted`. The
checks of `feeBumpHandler` before the queue (schema,
KYC, network, Soroban preflight, slippage) only refuse and are left out.

**`BatchFeeBump`.** One action per await of `feeBumpBatchHandler` and of
`buildSponsoredTx` for the current item. `appliedTxs` is the ledger, `charges`
what the quota query counts. A submission that throws may have been applied.
`hasHorizon` is whether there is a Horizon URL; without one an item is recorded as a
success and nothing is sent. When the update to `FAILED` throws in the outer catch
block, its row stays `PENDING` and the batch is answered all the same (`unmarked`).

**`CrossChainSettlement`.** `rows` is the table; each process (`Pollers`) has its
list of rows still to do in this round and the place it has reached in
`processSettlement`. A transfer is a claim in a block; the code matches by
payer, token, receiver and amount, and that is what a claim is. `SettleThrows` is
an await that rejects: inside the inner `try` it leads to the refund, elsewhere it
ends the process as an unhandled rejection does. `ambiguous` collects the rows
for which the code cannot know whether the execution happened.

**`IdempotencyService`.** The methods of the store are synchronous, each one
action; a handler is open between `StartHandler` and `finishRequest` or
`failRequest`, which act on whatever entry the key has by then. `dropped` counts
the entries of a key that expired or were evicted.

**`WebhookDelivery`.** `queueWebhook` writes the row and then adds the job;
`HookWorker` is one attempt await by await; `onFailed` moves the delivery to the
dead letters after the job has left the queue. The admin's replay reads, queues a
copy and deletes, in that order. `givenUp` records the ways in which the code
drops a delivery for good. The worker is created by `startWebhookWorker`
(`webhook.ts:200`), which nothing in `index.ts` calls: the safety properties hold of
a process that does call it, and no progress is assumed or claimed.

**`LedgerMonitor`.** A check is a record with the stage it awaits in. `epoch`
tells the checks of a cycle that rejected from those of the current one, and
`abandoned` holds the transactions whose checks were in flight when another check
threw out of their batch.

**`ApiKeyAuth`.** One key and several processes. Each process has one connection
to Redis that carries its commands in order; a `SET` is not awaited. The database's
read of the row (`ReadDb`) and what the middleware does with the answer (`ActOnRow`)
are two steps, with a revocation or an erasure in between perhaps. `keyMemory`
are the processes whose map `API_KEYS` holds the key.

**`RateLimit`, `SandboxGuard`.** The Lua script of the bucket is one action on
Redis with the clock of the process that calls it; the counter of the sandbox
makes three calls, with crashes and failures between them.

**`QuotaTopUp`.** `verifies` says whether the secret is set and the body is what
Stripe signed; otherwise the handler refuses (`Refuse`). `index.ts:227` mounts
`express.json` for every route before the `express.raw` of this one (lines 433 to
437), so as it stands `constructEvent` gets a parsed body, throws, and the answer is
400; the rest of the module is the handler as it is once that is put right. Its row
and increment are two steps; a database error is swallowed and answered 200, so
`answered` is set and Stripe stops.

**`SignerRegistry`.** Row, pool and account list are written one after the other
with awaits between; `Restart` keeps the rows only. `torn` are the keys of requests
that failed between two of the three, and `leftOut` those whose rows the last restart
found: nothing reads the rows at start.

**`TreasurySweeper`.** The two loads and the payment are three steps. A payment
whose submission failed is `adrift` and may be applied later, since it has no
time bound. The payment moves what lies above the limit and its fee is paid on top.

**`BalanceAlerts`.** A cycle is at one fee payer, at its load or at its alert.
Alerting and transfer have thresholds of their own, so a balance is `ok`, `low`
or `empty`. `LoadAccount` contains the synchronous part of `sendLowBalanceAlert`,
which notes the alert before it is sent. A transfer is one promise per alert, a
call at a time; the bridge is a placeholder in the code and is no more here.

**`IncidentMonitor`.** `incJob` holds the next call of the cycle and of the report
of a restart, which run side by side. A call of `triggerIncident` or
`resolveIncident` reads the book, sends the event and writes the book, three
steps. `book` and `since` are in Redis, `bookMem` and `sinceMem` in the process;
a read that fails looks there, a write that fails goes there only. `paged` is what
PagerDuty has open (external). Time is counted from the first failed check and
stops at the threshold.

**`TenantRegistration`.** One address with one project. Sign-up and verification
are a step per statement; the record is a copy taken by the first one. The welcome
mail is not awaited and is left out.

**`PaymasterQueue`.** `storage` is the array all pages share; a page has its own
flag, its own copy of the items to do and their retry counts. Every change of the
array is a `getItem` and a later `setItem` of all of it, two steps between which
another page may write (`Writes` names the places; `copy` is what will be written).
A `setItem` or a callback may throw: inside the `try` of `processItem` that counts as a
failed request, elsewhere it ends `flush`, which has no `finally`, and `isFlushing`
stays set as long as the page lives (`Dead`). `Reload` is a page closed at any moment.

**Contracts.** A call is one action whose guard is that nothing in it panics.
`Paid` in `SorobanLedger` is the token contract's transfer. Amounts fit in 63
bits, so products fit in `i128` and integers stand for them. `Total` is a sum whose
order does not show; `SharesPaid` is the splitter's loop of transfers, of which the
last recipient's also gets the dust. Events, getters and
storage lifetimes are left out. The vault's `rebalance` pays any address, and anyone may
pay the vault by a plain transfer of which it learns nothing; `movedOut` is what the
former took away less what the latter brought, and `orphaned` the shares of deposits that
a later `initialize` ran over.

## 3. Runs

Passing runs. Where a property is a conjunction, its parts are named here; each
is a definition with a comment of its own in the module.

**`parts`** checks the safety of nineteen parts, each on its own:

| Property | Says |
|---|---|
| `LeaseAccounting` | `in_flight` is the number of open leases, dropped requests included. |
| `HealthSound` | Accounts in service are below the failure threshold, the stale copy of revalidation never touches an account that came back, counts stay bounded. |
| `ReenabledOnlyByRevalidation` | No other step puts an account back into service. |
| `ClusterInv` | Marks agree with counts, "all nodes failed" follows an attempt on every node, round robin is even. |
| `ArchiveInv` | No row is lost, whatever fails, unless two batches got the same object name. |
| `IdemInv` | A key is worked on again only if the store dropped an entry of it, late answers included; the store stays within `maxSize`. |
| `RateInv` | No interval of time lets by more than the capacity and what drained in it; for the bucket in Redis the clock skew comes on top. |
| `RegInv` | Pool and account list agree at every moment. When no request is open a key is in the pool exactly if it has a row, unless a request failed half-way on it or the last restart left it behind; such a row stays and is not used. |
| `PQInv` | Of two pages, a saved item is lost only if the other one was between its read and its write of the array at that moment; none is given up before `maxRetries` of its requests ended in the catch block. |
| `SettleInv` | Nobody gets the transaction and the refund unless the row is `ambiguous`; nothing is executed without a transfer of its claim no older than the block it was asked for in (one transfer may serve every settlement of a claim); a row's status is true. |
| `HookInv` | No delivery is lost silently, by interrupted or doubled replays either; a receiver sees it a bounded number of times. |
| `MonitorsInv` | Ledger: one final webhook per tracking, and no check left when `stop` has resolved, except for transactions in `abandoned`; a wrong verdict comes only from a lookup that missed. Incidents: Redis names what PagerDuty has open but for events or entries that were lost, and nobody is paged for Horizon before the threshold is over. |
| `TenantInv` | No tenant without an audit row of the terms in force; one tenant per link unless clicks overlap or one stopped half-way; a verified registration has a key. A session's quota is incremented at most once per delivery and only with its row; types of the API key and the sandbox counter. |
| `ForgottenStaysOut` | A key without a valid row that no process, command, request or entry knows any more stays out, over two processes. |
| `BatchInv` | What is applied was charged, a `SUCCESS` row of a batch that is sent is true, the overshoot of concurrent batches is bounded by their sizes, an answered batch leaves nothing `PENDING` but the row of an `unmarked` item. |
| `TreasuryInv` | Sweeps that do not overlap leave the retention limit less one `BASE_FEE`, which `sweeper.ts:179-182` sets aside nowhere; a transfer that is not completed is under way, was the subject of a failure alert, or was cut off by a restart. |

**`parts_live`** checks what must happen in the end, under the fairness of
section 5: a deactivated account returns (`EventuallyReenabled`), every job ends,
every request is answered and the client's queue drains if the network comes back
again and again and some page's flush has not thrown (`QueuesDrain`), a paid
settlement leaves the waiting state (`PaidLeavesAwaiting`), tracked transactions
become final (`EveryTrackedIsFinal`), incidents are paged and closed and a low fee
payer is alerted (`AlertsFollow`), a revoked key goes out of use in every process
and stays out (`RevocationSound`), a sandbox over its limit is let in again
(`WindowEnds`). Its client may retry twice, so that `ErrorAfterAllRetries`, a part of
`PQInv`, is more there than the first failure.

**`contracts`** checks the nine contracts: their balances are what their books say
(`ContractsSolvent`), rounding favours nobody (`EntitlementsExact`), votes,
transfer ids and DIDs count once (`RecordedOnce`), and credits, outcomes and
revocations are final (`RecordsFinal`). Streams, stakes and escrows can pay what they
owe. The vault's books balance only together with what was moved out of it, and over
all tokens at once: after a rebalance, or for a withdrawal in a token it has too little
of, it cannot pay. Its two totals stay equal, so that pricing never rounds; after an
`initialize` over deposits they start again from zero, a withdrawal of an old share
panics on the division until there are new deposits, and then takes from those.

**`server_safety`** checks the composed Rust server: every return gives the lease
back, what is applied was charged, what is stored was applied (`ServerInv`); the
quota is overshot only by the fees of pushes that missed another
(`OvershootOnlyByRaces`).

**`node_pool`** removes keys, adds them again with an old sequence, refreshes,
reseeds and resets them under open leases: nonces of a pool with a guard still increase
(`ImplementsMonotoneNonces`), counts belong to the listed object, a low account
is never selectable, the cursor stays in the list.

**`failover_safety`** lets late answers come in any order: an active node's
breaker is closed, the probe flag is held by a running attempt (`BreakersSound`),
a call gives up without an attempt only if no node is active, a breaker trips
only on recent failures.

**`queue_safety`** goes through retries, a crash, a lapse of Redis and lost rows:
an inner transaction is charged once per lapse of the guard, the limit is
exceeded by less than the concurrency, what is applied was charged, a completed
job did what it says, unless it had no Horizon to send to.

Several properties have a condition because the code does not give them without
one, and the condition is a history variable that names the case:
`overwritten` (two archives with one name), `ambiguous` (an executor that threw
after it submitted, or two pollers on one row), `abandoned` (a check in flight when
another threw out of its batch), `torn` and `leftOut` (a registry change that failed
half-way on the key, a row that outlived the last restart), `overlapped` (two sweeps
at once), `orphaned` and `movedOut` (shares the vault's `initialize` ran over, tokens
moved out of it), `exposed` (an item saved while another page was about to write the
array), `misbooked` (an event of PagerDuty or its entry was lost), `restartLeft` (a
restart taken for over while its incident was open or its report under way: before it
was reported, or because the one call that resolves it failed), `repeated`
(a link clicked while or after a click that did not finish), `givenUp` (no secret, a delete, a crash at the wrong
moment). The property then says that there is no other way.

Runs that show a disagreement between the code and what the repository says:

| Run | Shows |
|---|---|
| `server_quota_race` | `docs/sponsorship-quotas.md:7` calls the daily quota "the maximum amount". Two concurrent requests read the ledger before either pushes its record, and the Rust server exceeds it. `server_safety` shows this is the only way. |
| `server_batch_refusal` | `docs/sponsorship-quotas.md:21` has a batch checked as a whole "before any sponsorship is created". The Rust server checks item by item and keeps the charges before the refused item. |
| `failover_half_open` | `circuitBreaker.ts:91` lets "only the first concurrent caller" through Half-Open. A failure of a request sent before the breaker opened clears the probe flag, and a second probe runs beside the first. |
| `queue_refusal` | `docs/sponsorship-quotas.md:26` promises a 403 for an exceeded quota. With the default options (6 attempts, backoff from 1 s, timeout 30 s) the retries last 31 s, and the client gets a 504. |
| `stripe_retry` | The comment in `stripe.ts:94` says "Stripe will retry". The error it stands beside is answered 200, so Stripe does not, and the paid quota is not credited. |

## 4. Bounds

* `SignerPool`: two accounts, two holders, threshold 2 instead of 3. Two holders
  suffice for one to report late into what another changed; the theorems cover
  every number. Balances 0 and 5 let either account be preferred, by balance or by
  the leases it has out.
* `HorizonCluster`: three nodes and one call of each kind. A node before, at and
  after the one that fails is what the order and the loop can tell apart.
* `FeeBumpServer`: two requests of one tenant with a fee of 3 and a quota of 4, one
  account, one node, threshold 1, two days, rate limits of one per window.
  Failover across nodes is checked in `parts`. Batches are of length one in the passing run and of up to three in
  `server_batch_refusal`; the theorems about the server hold for every batch
  length.
* `NodeSignerPool`: nonces up to 2, three leases per object and two removals of one
  of two keys: it can be listed again, with a sequence below, at and above the
  mark, while leases of two earlier objects are open.
* `FailoverClient`: two calls, two nodes, breaker threshold 2 instead of 5,
  window 2, recovery timeout 1, time up to 3: a failure can leave the window, and
  a breaker can open, half-open and open again. `failover_half_open` has three
  calls on one node, the fewest that show it.
* `FeeBumpQueue`: `queue_safety` has two jobs for equal or different inner
  transactions of every kind, two attempts, concurrency 2, limit 1 and one lapse;
  a stalled job fails at once. In `parts` and `parts_live` it has one job with
  three attempts, one stall and a timeout that the backoffs reach (and in
  `parts_live` no lapse, which only the safety properties depend on). `queue_refusal`
  has the default values in seconds.
* `ArchivalJob`: two processes, three rows in batches of two, two seconds, two
  runs each: a full batch, a part batch, and the same name in both processes.
* `IdempotencyService`: three keys for a store of two, three requests, lifetime 1
  and time up to 2, so that entries expire, are evicted and are begun again under
  a running handler.
* `RateLimit`: capacity 2, window 4, clocks 2 apart: the offset is one emission
  interval. `SandboxGuard`: limit 2, three requests, two faults.
* `CrossChainSettlement`: two settlements for the same claim, two pollers, one
  fault; confirmations 2 and batches of two in `parts`. `parts_live` has one poller,
  two claims, one confirmation and batches of one: a deeper chain only delays, and a
  batch of one can be filled by a row that is never paid.
* `WebhookDelivery`: two deliveries, two admins, two attempts instead of five, one
  fault. `LedgerMonitor`: two hashes, each tracked up to twice (once in
  `parts_live`), one fault.
* `ApiKeyAuth`: one request, lifetime 2. In `parts` two processes with one command
  under way on each connection, in `parts_live` one process with two, which the two
  `DEL` of a revocation need. `QuotaTopUp`: two sessions, one of them without a tier, two
  handlers, two deliveries, two faults.
* `BatchFeeBump`: three batches that share transactions; one is longer than the
  quota and one is only signed. `TreasurySweeper`: two sweeps, two fees, two
  deposits. `SignerRegistry`: two admins, two signers from the database and one
  from the environment. `PaymasterQueue`: two pages and one fault; two
  items that are given up at the first failure in `parts`, one item with two retries in
  `parts_live`.
* `TenantRegistration`: two sign-ups and two clicks at once, two tokens, two
  versions of the terms, one fault. `IncidentMonitor`: threshold 2, three changes
  of what is watched (down, up, down again shows a forgotten time; two in
  `parts_live`), one fault. `BalanceAlerts`: two fee payers, so that one stands
  behind the other, cooldown 2, two changes, one transfer at a time and two in all,
  one fault; `parts_live` has one fee payer, a cooldown of 1, three changes and one
  transfer.
* Contracts: two users, two tokens, a supply of 3, amounts -1, 0, 1 and 3 (refused,
  empty, and two that do not divide each other), time up to 3, two streams,
  proposals, escrows, transfer ids and DIDs. Rebalances and plain transfers of the
  vault come to at most one token more the one way than the other (`MaxMoved`).

`parts_live` has fewer holders, retries and tracked transactions than `parts`,
because liveness is checked without symmetry.

Symmetry is used for interchangeable requests, holders, keys, jobs,
transactions, users and tokens in runs without liveness; where an order decides
(account and node indexes) there is none, and the runs of `FailoverClient` need
none.

`CHECK_DEADLOCK FALSE` is set where the system may stop: a finite set of requests,
calls or faults is used up, or a bound on nonces, time or generations is reached.

## 5. Fairness

All of it is in `PartsFairness` of `MCParts`, part by part:

* Signer pool: the interval of the revalidation task keeps ticking (weak fairness
  of `Revalidate`), and Horizon answers for each account again and again (strong
  fairness: single fetches may fail). The HTTP client sets no timeout, so a fetch
  that hangs for ever is outside this assumption and would stop the task.
* Fee-bump queue: every await of an attempt settles, BullMQ keeps starting,
  promoting and requeueing jobs, timers fire. Nothing is assumed of crashes, of
  Redis or of the database: calls may reject every time. The number of crashes is
  not bounded by the model, and a job still ends because a stall is counted.
* Client: an open page handles its online event and goes on with its flush. The
  network's return is a premise of `QueueDrains` (in `QueuesDrain`), not of the specification.
* Settlement: the timer of a polling process fires and its calls return, by a
  value or by throwing.
* Ledger monitor: the poll timer fires, lookups and dispatches end (they have
  timeouts).
* API keys: a Redis entry's time to live runs out, and commands under way arrive.
* Monitors: the timers fire, the calls of a cycle, of the restart's report and of a
  transfer settle, time passes.
* Sandbox: time passes for Redis; a request that does not crash goes on.

Webhook deliveries have no fairness: no part of the server starts their worker. Nor
has the Stripe webhook, of which no progress is claimed.

Faults (crashes, failing calls) are never fair, and outside the fee-bump queue
their number is bounded: with faults at every step for ever nothing could be
promised.

## 6. Proofs

Every invariant and safety property of the passing runs is a theorem. A theorem holds for every value of the
constants that satisfies the named assumptions of its module (`PoolAssumption`,
`ServerAssumption`, `QueueAssumption`, ...). They say no more than that counts are
natural numbers, thresholds, limits and windows positive where the code's
configuration makes them so, the sets of processes, requests and records finite, a
batch not empty (`schemas/feeBump.ts:28`), a marker such as `"none"` no element of
the set it stands beside, and contracts different from accounts and, by their
addresses, from each other. TLC evaluates
each of them in some run. Bounds that only keep a model finite (`MaxTime`,
`MaxFaults`, ...) are constants like the others, so the theorems hold for all of
them.

`NodePartsProofs` proves about the conjunction of parts that `MCParts` checks one
at a time; such a theorem has the specifications of its parts as its premise. The
parts share no variable.

**`Subsequences`.** The code filters arrays all the time. `Picked(s, I)` is what a
filter that keeps the positions `I` leaves of `s`, and `Rank` the place of an element
in a strict order; both count with `Cardinality`, so that what they yield can be
proved: a filter keeps the elements, their order and their being distinct, and a
sort is a permutation.

**`RustPartsProofs`.** For the signer pool `PoolTypeCorrect` comes first and the
others build on it. `ActiveAccountsBelowThreshold` is inductive with the types: a
report that reaches the threshold deactivates in the same step, and re-enabling
clears the count. `StaleSnapshotIsSound` is inductive because no step but the task's
own puts an account into service and the task passes each account once per round;
`OnlyRevalidationReenables` rests on it. `LeasesAreCounted` compares `in_flight[i]`
with the cardinality of the leases of `i`; it shows that `saturating_sub` never
saturates. `FailureCountersBounded` adds the reports still to come: failures plus
unreported leases of an account stay below the threshold plus the number of holders,
which is inductive where the plain bound is not. `HealthIsSound` is the property that
`parts` checks. For the cluster (`ClusterIsSound`) a call gives up only at the end
of its order, which is one of all the nodes; that round robin is even follows from
`StartsFollowCursor`: the nodes up to the cursor have one start more than the rest.
For the archival job (`ArchivingIsSound`) `WrittenBeforeDeleted` says that a process
at its deletes has all its rows in its object, as long as none was written over.

**`FeeBumpServerProofs`.** `QuotaOvershootBounded` uses `QuotaInv`: the types, `PassedCheck` (a request about to push saw a spend that,
with its fee, is within the quota) and the bound itself; without `PassedCheck` the
push of a fee could not be justified. `ServerBooksAreTrue` has two halves.
`LeaseInv`: a request holds a lease only at the places between acquiring and
returning. `LedgerInv`: a submission that left the server was charged
(`SentWasCharged`), an acknowledgement means that it was applied (`OkWasApplied`),
and a request knows both of its item at the places after the push (`PlaceKnows`).

**`NodeSignerPoolProofs`.** `NoncesIncrease` is the refinement of
`MonotoneNonces` by a pool with a guard (`Guarded`; a pool without one maps to the
abstract specification at rest): `MarkCoversSigned` (every nonce in `signed` is at or below the
guard's mark) makes each reservation a legal step of the abstract specification.
`LowAccountsOutOfService` strengthens the property from the listed keys to all
keys (`StatusAgrees`). `LeasesOfTheRightObject` needs `LeasesInPast`: no lease
refers to a generation that is still to come, so a fresh object starts with no
leases. `NodePoolTypeCorrect` contains that the cursor stays in the list
(`CursorInRange`). For the registry (`RegistryAgrees`) rows and pool are written one
after the other, so they differ exactly by the requests between their two writes:
`RowsBalance` counts those, and they agree when there are none. It leaves out the keys
in `torn` and `leftOut`; `LeftAlone` says that no request gets past its look at the row
of a key that a restart left behind.

**`FailoverClientProofs`.** The order of a call is a permutation of the nodes for
both strategies. `BreakersAreSound` needs that a raised probe flag means Half-Open
(`FlagSound`), and says for the step that releases one who still holds the others
(`HeldByOthers`). `ActiveNodeIsAsked` then follows from the order and from
`ClosedAt`: the breaker of an active node is closed. `TripsAreRecent` is the action
property, whose step prunes what left the window before it counts. For the offline
queue (`NothingQueuedIsLost`) `TrueCopies` speaks of every copy of an item, in the
shared array, in the list a page works on and in the array it is about to write: it was
added, has retries left, and its count is covered by requests. `CopyHolds` says that
what a page is about to write has every item that is neither settled nor in `exposed`,
but for the one it removes.

**`FeeBumpQueueProofs`.** `Books` ties job states to places in the attempt.
`OvershootIsBounded` is inductive as `Race`: records plus attempts between check
and charge stay within the limit plus the concurrency less one. `ChargesAreGuarded`
is inductive as `Guarded`: the charges of a transaction plus the attempts past the
guard are paid for by its mark and the lapses. `OutcomesAreTrue` follows what an
attempt has done by the place it has reached (`DidIt`). For the batches
(`BatchBooksAreTrue`) the charges are a set of items that is counted, so that the
overshoot of concurrent batches is the cardinality of a subset of theirs; `RowsTrue` says
what the rows of a batch can be at each place, `ChargesTrue` which items are
charged.

**`NodePartsProofs`.**
* Idempotency (`StoreIsSound`): `completed + handlers <= 1 + dropped` is not
  inductive, since after an entry is gone the 1 must be gone too;
  `EntriesAccountForHandlers` has in its place 1 only while the key has an entry.
  The size limit needs that `evictOldest` really takes one of finitely many keys.
* Webhooks (`DeliveriesAreAccounted`): `PostsCounted` counts the posts by the
  place of the attempt, `NotLost` names every place a delivery can be in, and
  `ReplayOK` adds that a replay deletes only what it has queued again.
* Treasury (`TreasuryIsSound`): `OneAtATime` says that while no two sweeps overlap
  one payment at most can still be applied, and moves no more than what lies above
  the limit, so that only its fee comes out of what is to stay; old payments are harmless because their sequence numbers are used up
  (`SequencesGiven`). For the transfers, `TransferInv` ties each to its row.
* Settlement (`SettlementsAreSound`): `RowTrue` is what a row says, `WorkTrue` what
  a poller at a step of it may rely on: unless the outcome is `ambiguous`, it is the
  only poller past the confirmation.
* Rate limit (`RatesAreHeld`): `Ahead` says that the value of a bucket has advanced
  by one interval for each request since any earlier one, less the skew of the
  clocks once for each loss of the entry, of which there is at most one per
  interval. Every window then follows by division.
* Ledger and incident monitor (`MonitorsAreSound`): `Spent` charges each webhook,
  and each one about to be sent, of a transaction not in `abandoned`, to a tracking; `Booked` says that Redis and
  PagerDuty differ only by the entry a call is about to write, and `OutageCounted`
  that no outage is taken for longer than it is.
* Tenants (`TenantsAreSound`): `ConsentFirst`, `OnePerLink` and `KeyOnItsWay` follow
  a registration from the audit row to the key; `Delivered` counts credits and
  handler calls of a session against its deliveries.
* API keys (`ForgottenKeysStayOut`): without a `SET` under way and without a request
  that has read an active row (`NoRowHeld`) nothing brings a key back but a registration.

**`ContractProofs`.** The sums of `SorobanLedger` (`Total`) are counted, so that
`TotalWith`, `TotalWithout` and `TotalChanged` follow from the cardinality of a
disjoint union, with no induction over data. `PaidBalances` says what one transfer
does to every balance, and `Untouched(balance, S)` that among the contracts only the
addresses of `S` have other balances than at first. Each contract has an inductive
invariant made of the two and of its books:
* Streams (`StreamInv`): the balance is what the streams still owe in a token, and a
  stream has paid out no more than `StreamedAt`. `StreamedBounds` compares that
  with the straight line: it is below it, at most the amount, and never falls, which is
  why a later withdrawal or cancellation can be paid.
* Vault (`VaultInv`): assets and shares are equal at every moment, so both divisions
  are exact (`QuotExact`). The users' shares exceed the total by `orphaned`, and what the
  vault holds (`Pot`) and `movedOut` come to the assets and `orphaned`; `initialize` moves
  the total into `orphaned`, and runs once because it sets the admin.
* Staking (`StakesInv`, `StakeInv`): `CreditsWithinAccrual` is not inductive; what has
  accrued since the last settlement has to be added to the credits.
* Splitter (`RoyaltyInv`): each share loses less than one unit (`RoundedDown`), and so a
  split less than one per recipient. `SumOfShares` takes a smallest set of recipients
  that breaks this; subsets of a finite set are well founded.
* Flash loans (`FlashInv`) and escrows (`EscrowInv`): the transfers of one call cancel
  out; an escrow's are told apart by its address.
* Bridge (`BridgeInv`): the messages relayed have different ids, all processed, so
  one more message is one more term of the sum.
* Votes (`GovInv`): one more voter is one more in the cardinality exactly because
  `vote` refuses an address that has voted. DIDs (`DIDInv`): a registration overwrites no
  entry of either map because both are checked first.

`LedgerInv` puts them on one ledger: the deployed contract is `Sound` and the others are
`Idle`, with the storage they began with; that their balances are as at first is the
`Untouched` of the deployed one, since addresses are distinct
(`AddressAssumption`). From it follow `ContractsSolvent`, `EntitlementsExact` and
`RecordedOnce`. `RecordsFinal` is lifted from the contracts' own theorems: a behaviour is
one of the contract (`GovRuns`, `StakingRuns`, `DIDRuns`), or its records never change.

Only model-checked: everything about liveness (`parts_live`), since fairness and
ENABLED are out of the prover's reach. That `Total` is the sum that a loop computes is
its definition here, as the order of a sum shows nowhere.

## 7. Plan

No safety property of a passing run is left to prove. Next come theorems beyond what the
runs check: that no call of any contract creates or destroys a token (the balances of all
addresses keep their sum), and an abstract contract, which holds what it owes, that the
streams, the stakes and the escrows each implement.

## 8. Not modelled

Most of the repository's lines are user interface, bindings and configuration:
the dashboard and admin pages, the SDKs for other languages and transports, schema
and environment parsing, alert texts, exports and reports. They keep no state that
the service reads back, or each of their requests is one statement or transaction
of the database, where nothing interleaves. In particular:

* administration, tenancy, billing and compliance handlers: single statements
  (API keys, the Stripe top-up and sign-up, which are not, have modules);
* notifications and digests: outgoing messages whose outcome nobody reads;
* key rotation service and signer autoscaler: no part of the server starts them;
* refill worker: one request to an exchange per run;
* EVM and Solana sponsors, signing bridge: stateless calls to remote services;
* codecs, XDR parsing and signature weights: pure functions over bytes, taken as
  inputs of `FeeBumpServer`;
* database pools, gRPC engine, limiter library: wrappers, or unused by the servers.

So the models cover a small share of the lines, and most of the code in which two
actors or two steps can get in each other's way.

