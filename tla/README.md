# A TLA+ model of the b1nary options backend

The backend is one Python process (`src/src/main.py`): a FastAPI application and
up to a dozen long-running bots as `asyncio` tasks of one event loop. It keeps
its durable state in Supabase rows and acts on Base, Arc and Solana. This
directory holds TLA+ modules for the parts that move money or decide what may be
traded, TLC configurations that check them on small instances, and TLAPS proofs.

Contents: [1 The system](#1-the-system) · [2 Modules and how they read](#2-modules-and-how-they-read) ·
[3 Runs](#3-runs) · [4 Bounds](#4-bounds) · [5 Fairness](#5-fairness) ·
[6 Proofs](#6-proofs) · [7 Findings](#7-findings) · [8 What is not modelled](#8-what-is-not-modelled) ·
[9 Plan](#9-plan)

Run everything from this directory:

    tlc -workers 2 -config BridgeRelayer.cfg MCBridgeRelayer.tla
    tlc -workers 2 -config Bots.cfg MCBots.tla
    tlapm BridgeRelayerProofs.tla

`PROJECT.json` lists the runs, the source lines every definition stands for, a
faulty variant of the code for each checked property, the hazards and the findings.

## 1 The system

### Shape

* **One event loop.** `main.py` starts the bots as tasks beside the API. A
  stretch of code without an `await` runs undisturbed, whatever it does to rows;
  many handlers are `async def` with no `await` at all, so they hold the loop
  from start to end. Interleavings happen at `await`s, in threads
  (`asyncio.to_thread` around transactions) and on the chains.
* **Supabase rows are the shared memory.** Nothing is transactional: a unit of
  work is several calls, each of which may fail, or succeed and lose its answer.
* **The chains are slow and final.** A transaction is confirmed, refused, or its
  receipt times out. In the last case it may still land later.
* **A crash or redeploy** loses queues, caches, breakers and markers. Rows and
  chains stay.

### Inventory

| Component | State | Operations | What is hard | What makes it correct | Module |
|---|---|---|---|---|---|
| CCTP bridge relayer `bridge/` | `bridge_jobs` rows, in-memory `_job_queue`, two workers, attestations, mints, trades | six handlers that create, reserve, submit and finalise jobs; `process_bridge_job`; `recover_incomplete_jobs` | resuming from a row alone; timeouts of irreversible transactions; a job queued twice | verdicts match the chains; one burn; one worker per job; every job gets a verdict | `BridgeRelayer`, `BridgeTransfer` |
| Base expiry settler `bots/expiry_settler.py` | settlement columns of `order_events`; the cycle's local sets; oracle, controller, settler contracts | reconcile, set prices, batch-settle (phase 1), deliver (phase 2), classify, recover | two phases with a delay; half-marked batches; late transactions | rows never ahead of the chain; truthful classes; every position resolves | `ExpirySettler`, `PositionSettlement` |
| Rotation endpoint `capital_intents/reconcile.py` | `capital_movement_intents` of settled positions | complete and rotate, mark assigned, mark retryable | reads rows between the settler's phases; two inserts, no transaction | capital neither lost nor deployed early | `Settlement` |
| Base event indexer `bots/event_indexer.py` | `order_events`, `indexer_state`, `_pending_failure_block` | forward pass, rescan, subscription, attribution of deliveries | events that cannot be enriched; cursor moved by two writers; reconnects | nothing lost behind the cursor; one row per delivery | `EventIndexer`, `Settlement` |
| Quotes, menu and the circuit breakers of both chains `api/mm_routes.py`, `api/routes.py`, `pricing/circuit_breaker.py`, `bots/circuit_breaker_bot.py`, `bots/solana_circuit_breaker_bot.py` | `mm_quotes`, `_prices_cache`, the breaker singleton, `makerNonce` | submit, replace, cancel quotes; serve the menu; trip, increment, withdraw, resume | two users of one breaker; a cache in front of withdrawn rows; the nonce moves while a batch is written | outdated quotes are withdrawn; menus are recent | `QuoteBook` |
| Capital intents API `capital_intents/routes.py`, `sync.py` | `capital_movement_intents` | create (with a bridge job), read with re-derived status, PATCH by the agent, sync by the relayer | three writers of one status, one of them in a thread; intent, job and link are three calls | no job without its intent; an intent says what its job says | `CapitalIntents`; the relayer's side in `BridgeRelayer` |
| Base transaction sender `contracts/web3_client.py` | `_local_nonce` under a lock; the account's pool of transactions | pick a nonce, sign, send, wait, replace, retry with more gas | several bots, one account; a lagging node; lost answers; a dropped transaction | a call takes effect once; nonces in order, without gaps | `TxSender` |
| Solana expiry settler `bots/solana_expiry_settler.py` | Solana rows of `order_events`; oracle, controller and settler accounts | set prices, settle vaults, deliver through a swap, mark, recover | send and mark in one `try`; a confirmation that times out | rows never ahead of the chain; a delivery is repeated only after doubt; fills are resolved | `SolanaSettler`, `PositionSettlement` |
| Solana event indexer `bots/solana_event_indexer.py` | signature cursor, oToken metadata cache | collect, decode, store, announce, move the cursor | all or nothing; negative metadata is cached; rows stored again over settled ones | nothing is skipped | `SolanaIndexer` (with the settler) |
| Fill stream `api/mm_ws.py` | a set of sockets per maker | connect, disconnect, broadcast | the set changes during a broadcast | a connected maker gets every later fill | `FillStream` |
| oToken managers `bots/otoken_manager.py`, `bots/solana_otoken_manager.py`, `pricing/price_sheet.py`, `pricing/utils.py` | `available_otokens`, factory, whitelist, accounts | prune, create step by step, list; full and DB-fast cycles; expiries and strikes | half-made options; late transactions; stale rows; jumping cutoffs | what is listed is usable and can be traded | `OTokenManager`, `PriceSheet` |
| Yield indexer and calculator `bots/yield_indexer.py`, `yield_tracking/calculator.py` | `yield_positions`, `yield_distributions`, cursor | catch up, subscribe, poll; compute shares | failed logs are passed over; gaps after reconnects | behind the cursor all is recorded and nothing undone | `YieldIndexer` |
| Yield airdrop `bots/yield_airdrop.py` | distributions, allocations | harvest, allocate, transfer one by one, mark | nothing resumes a broken run; the indexer may insert first | nobody is paid twice; shares add up; periods do not overlap | `YieldAirdrop` (with the indexer) |
| Weekly aggregator `bots/weekly_aggregator.py` | `user_weekly_results` with a running total, `weekly_reports` | aggregate, retry | a retry reads what the failed try wrote | totals are sums | `WeeklyAggregator` |
| Reminders and e-mail `bots/notification_bot.py`, `notifications/` | `notification` columns | remind, mark | lost marks | – | – |
| Faucets, demo, product accounts, read-only API, Agora, price sources, signatures, start-up | none, or rows of one wallet | – | – | – | – |

### Who talks to whom

    clients --HTTP--> handlers --rows--> mm_quotes, bridge_jobs, capital_movement_intents
                         |  enqueue_job                 ^            ^
                         v                              |            |
                   relayer workers --sync_linked_capital_intent------+
                         |
                         v                        breaker (shared object)
            CCTP: burn -> attest -> mint             ^            ^
                                              GET /prices    breaker bot --> makerNonce, mm_quotes

    settler contract --events--> event indexer --insert, attribute--> order_events
                                                                        ^      |
    oracle, controller, redeem <-- expiry settler --settled, itm, type--+      |
                                                                               v
                                      POST /reconcile-settled --> capital_movement_intents

    Solana fills --> Solana indexer --rows--> order_events <--marks-- Solana settler
                        |  notify_mm_fill                                |
                        v                                    oracle, controller, swap
                     fill stream (sockets)

    harvests --> yield indexer --rows--> yield_positions, yield_distributions
                                             ^
                    yield airdrop (own process) --harvest, insert, pay

The three arrows into `order_events` are composed in `Settlement`, those into
`bridge_jobs` and its linked intents in `BridgeRelayer`, those into the breaker
and `mm_quotes` in `QuoteBook`, those into Solana's `order_events` in
`SolanaIndexer`, and those into `yield_distributions` in `YieldAirdrop`.

## 2 Modules and how they read

Common conventions. A step is the stretch of code between two awaits or, where a
failure in between matters, one call to the database or a chain. A database call
either works, or raises; one that raises has had no effect, or has had it and
lost its answer (in `BridgeRelayer` the constant `LossyJobs` says on whose rows the
second happens). `Fault` counts failing calls against `MaxFaults`. A transaction
is confirmed, refused, or *sent*: its receipt timed out and a separate action may
land it at any later time. Operators commented "Faulty variant" belong to no
specification: they are plausible bugs used to show that the properties notice
them. "History" variables record what happened for a property's sake; nothing
reads them.

### BridgeTransfer – the promise of one transfer

Three functions of a transfer: the `verdict` published, whether the amount was
`minted`, whether the follow-up was `executed`. The chain acts freely (a mint may
come after the relayer gave up); the follow-up waits for the mint; success is
announced only for what happened; a verdict is never changed.

### BridgeRelayer – bridge/relayer.py, bridge/routes.py, the intents linked to jobs

| State | Code |
|---|---|
| `job` | `bridge_jobs` rows: status, and whether `burn_tx_hash` is a `pending:` placeholder (`reserved`), an attestation (`att`), a mint hash (`mintTx`), a trade or finalisation hash (`doneTx`) is recorded |
| `intent` | the `capital_movement_intents` row of a job and whether its `bridge_job_id` is set |
| `queue` | `_job_queue` |
| `pc`, `held`, `sawMint`, `tries` | the await a worker is at, its `job_id`, the mint hash of the row it read at the start (it is never re-read), the attempt in `_submit_trade` |
| `http` | the handler that holds the event loop, and its next call |
| `burn`, `mint`, `exec` | source and destination chains |

`FirstStep` is the cascade of early returns and resume rules at the top of
`process_bridge_job`; from there each action is one await of it, in order:
`Attest`, `PollAttestation`, `StoreAttestation`, `ReceiveMessage`, `RecordMint`,
then `CloseMintOnly`, or `SubmitTrade`/`RecordTrade`, or
`FetchIntent`/`Finalize`/`RecordFinalize` for Arc. `HandleError` is the `except`
clause, which reads the row again before it decides what failed. Five actions
start the handlers that write rows, `Handle` continues them one call at a time.
`Crash` clears memory, `Restart` is `recover_incomplete_jobs`, which runs before
the first request. `ImplementsTransfer` maps rows and chains to `BridgeTransfer`.

On Base and Arc a receipt whose status is not 1 raises. On Solana
`confirm_transaction` reports a transaction that landed whether or not it failed
there, and neither `receive_message_solana` nor `_submit_trade_solana` nor
`submit_solana_cctp_burn_transaction` reads its `err`: the chain is as before and the
code goes on as after a success (`ConfirmedThoughFailed`; `BroadcastBurn`). What rows
say of jobs that end on Solana (`SolanaJobs`) is therefore not promised by the code;
`SuccessMeansDelivered` and `ImplementsTransfer` are about the others (`Checked`), and
`bridge_solana` shows what goes wrong. A job whose burn failed that way just never
gets an attestation.

`MCBridgeRelayer` is the instance for TLC: a set of jobs of every kind, of which the
clients of one behaviour ask for (`asked`) one of the sets in `Demands`, so that routes
that can interact are checked in pairs. All jobs are of one user, who may have one
active Solana burn at a time.

### ExpirySettler – bots/expiry_settler.py

`pc` is the stage of `settle_once`; `check`, `unsettled`, `todo`, `batch`, `ready`,
`itm`, `otm`, `cur`, `attempt` are its local collections. `row` holds the four
settlement columns. One cycle: `StartCycle` (both queries), `Reconcile` per
position, `EndReconcile`, `SetPrices`, then `SettleBatch` and either `MarkSettled`
per row or `Reconcile` again (`pc = "recheck"`) after a failed batch, `EndPhase1`,
`Identify`, `Deliver`/`RecordOutcome` per in-the-money position, `MarkOtm`,
`EndCycle`. Actions at a `pc` in `Awaiting` leave the event loop.

### Settlement – three writers of a position

Extends `ExpirySettler` with the event indexer's `_update_delivery_events`
(`Confirm`, `AttributeDelivery`: a delivery event carries no vault id and claims
the unmarked row with the lowest one) and with `POST /reconcile-settled`
(`ReconcileIntent`: a verdict from the row, or `Rotate`). They take their steps
when the settler is at an await (`LoopIsFree`).

### EventIndexer – the cursor of bots/event_indexer.py

`events` are the blocks that carry an event of the settler, `stored` those in
`order_events`, `cursor` is `last_indexed_block`, `pending` is
`_pending_failure_block`. `settings` is one of the configurations in the constant
`Settings` and never changes: whether the indexer subscribes, its block range, and
its rescan window. `IndexOnce` is the whole of `index_once`: the forward pass,
where the cursor goes (`AdvanceCursor`), and the rescan; `IndexOnceRaises` is a
pass ended by an exception. With `settings.subscribed` the loop goes on to
`Subscribe` and handles pushed logs with `ProcessLog` until `Disconnect`. The write of
the cursor that ends a pass may raise and still have taken effect.

### QuoteBook – quotes, menu and breakers

`ref` and `paused` are the breaker singleton, `bot` and `toCheck` where
`check_once` is, `active` and `signed` the `mm_quotes` rows, `nonce` the
operator's `makerNonce`, `cache` and `age` the menu cache. `SubmitQuotes`,
`ReplaceQuotes`, `UpsertQuotes` are one `POST /mm/quotes`, `CancelQuotes` is
`DELETE`. `GetPrices` is the breaker-related part of `GET /prices`: a paused
breaker resumes at the spot price first; a cached menu is served; otherwise a
fresh one is built, checked against the breaker, and the reference moves or the
asset pauses. Which options `available_otokens` lists, and so which active quotes a
menu can have, is external (`Menus`). `CheckAsset`, `SendIncrement`, `Withdraw` are one trip of the bot,
which leaves the loop only while the transaction runs in a thread. Time is a
`Tick`; an age at the TTL is never served, so ages saturate there.

`platform` never changes. The bots of the two chains differ in two places: Base
looks for quotes before it increments (`MustSend`; the look-up has no filter on the
chain, so quotes elsewhere make it send as well), and on Solana a withdrawal
that fails is not caught, so that the check ends there with the asset paused
(`WithdrawRaises`).

### Process and Bots – what the other parts have in common

`Process` declares `faults` and `restarts` and their bounds. The modules below
extend it. `Bots` puts them side by side: they share nothing but the process, so
`part` picks one of them for a whole behaviour and the others stand still
(`Of(p, A)`). No interleaving is lost, because no part reads what another writes.
Parts that do share rows are composed before that: the Solana settler with the
Solana indexer, the yield airdrop with the yield indexer. The yield airdrop runs
as a process of its own (`runner.py`), so it crashes separately.

### TxSender – contracts/web3_client.py

`call[c]` is one `build_and_send_tx`, at `idle`, `send`, `wait`, `ok` or `raised`.
`localNonce` is `_local_nonce`. `pool`, `mined` and `receipt` are the chain's side:
which call's transaction holds a nonce, how far blocks have come, and what the
receipt says; the node may answer with a nonce that lags behind and may drop a
transaction. `SendRaw` picks a nonce and sends in one step, as the code does under its lock; an
underpriced replacement is tried again on the same nonce. A reverted call is sent
once more with the fallback gas limit, on a new nonce.

### WeeklyAggregator – bots/weekly_aggregator.py

`StartWeek` gives the users of a week their results; `Aggregate` is one try of
`aggregate_once`, in which the upserts of any of the users, or the report, may fail; `WeeklyCrash` is a restart. `results[u][w]` holds the
running total that a row carries; the history `writes` counts how often the row was
written. A result may be a loss.

### FillStream – api/mm_ws.py

`registry` is `_connections[key]`: a reference to a set object, 0 when absent;
`members` are these objects, because a broadcast keeps iterating over the one it
began with while a new one may be registered. `cast[f]` is one `notify_mm_fill`.
A set that changed its size under the iteration raises at the next element
(`AbortFill`).

### PositionSettlement – the promise of a settlement

Per position the `outcome` the oracle fixes, whether the vault is `settled` and
the position `delivered`, and what its `row` says. `Decide`, `Settle` and
`Deliver` are the chain's; a row is written (`Record`) only with what is
`Truthful` then, and a row that said so `Keeps` saying it. The settlers of both chains
implement it. On Solana settling `Waits` for the outcome: `_settle_vaults` skips a vault
without a controller price. On Base batches are sent also when a price could not be
set, and whether the controller then takes them is not in this repository, so the Base
settler is held to the promise without that condition. How often a position is
delivered is no part of it (`settlement_redelivery`, `RedeliveryNeedsDoubt`). Beside
the indexer a row may show the delivery of another vault of its oToken: what holds of
rows and deliveries then is `DeliveriesAttributedOnce`.

### SolanaSettler – bots/solana_expiry_settler.py

`stage` is where `settle_once` is: oracle and controller prices with their retry,
`settle`, `mark`, `identify`, `redeem`, `record`; `todo`, `positions`, `recovery`,
`settled`, `itm`, `prices`, `current` are its collections. `inflight` are
transactions whose confirmation timed out. The delivery and the mark share one
`try`, so `RaiseSolana` has to say which of the two it was; the history `doubts`
counts outcomes the rows do not know of.

### SolanaIndexer – bots/solana_event_indexer.py, with the settler

`head` are the fills finalized so far, `cursor` the last signature, `dayStart`
what a first start leaves out, `cache` the metadata of `_load_otoken_metadata`
(found or not), `batch` the decoded fills on their way to the database.
`PollSolana` is all or nothing; `Advance` moves the cursor. `SolanaSpec` is the two
bots on the same rows.

### YieldIndexer and YieldAirdrop

`blocks` is the chain; `vaultRows` and `distributions` are the tables; `watch` is
what the task does: `catchup`, `live`, `broken`, `polling`, or `dead` after an
exception nobody catches; `pushed` are the subscription's messages. `Allocate` of
`YieldAirdrop` is `calculate_allocations` as a function: amount times time, rounded
down, the dust to whichever row the query returns first. `drop` is the run under way: `Harvest`,
`InsertDistribution`, `Allocate`, `Pay`, `MarkDelivered`, or `AirdropCrash`. The
indexer sees the harvest as well, and may insert the distribution first.

### PriceSheet – pricing/price_sheet.py, pricing/utils.py

Functions of a moment (in half hours from Monday 0:00 UTC) and a spot price:
`Expiries`, `Pruned`, `Strikes`. `Tick` goes through the moments of a week.

### OTokenManager – the managers of both chains

`onchain[o]` are the steps that are done for an option: created and whitelisted,
on Solana the info and the account as well. `mgr` is the cycle under way:
`BeginCycle`, then per option `NextOption` and `EnsurePhase` for each step, then
`EndCycle`. The first of every `ReconcileEvery` cycles (3 on Base, 12 on Solana) is a
`FullReconcile`, the others leave out what has a row (`Existing`). A step may fail, take effect late, or be undone from outside
(`changes`).

### CapitalIntents – capital_intents/routes.py, sync.py

`handler` is the request at hand and its next call: `Create`, `InsertIntent`,
`InsertJob`, `LinkJob`; `Get`, `ReadJob`, `WriteRow`; `Patch`. `sync` is the
relayer's update, which runs in threads and so between any two of these:
`BeginUpdate`, `UpdateBridgeJob`, `ReadLinked`, `WriteLinked`. `BridgeRelayer` has
the relayer's side of the same link.

## 3 Runs

"pass" runs have no error; a "violation" run has one property, something the
code's own text says, which the code does not do. Most runs end within seconds;
`bridge`, `quotes_menu`, `bots` and `settlement_rows` take a minute or two.

| Run | Config | Question | Verdict |
|---|---|---|---|
| bridge | `BridgeRelayer.cfg` | An Arc deposit from a capital intent beside a reserved trade; two burns the backend broadcasts itself, with and without a trade; a trade that ends on Solana; one lost or failed database call, one crash. Do the rows of Base and Arc jobs match the chains (`SuccessMeansDelivered`), do these jobs implement `BridgeTransfer`, is a job ever with two workers (`ProcessedOnce`), is a burn broadcast twice (`BurnBroadcastOnce`), does every job in hand get a lasting verdict (`JobsSettle`)? | pass |
| bridge_reserved | `BridgeRelayerReserved.cfg` | Is `mint_completed` published only after the relayer recorded a mint (`MintCompletedAfterMint`)? | violated |
| bridge_solana | `BridgeRelayerSolana.cfg` | Is `mint_completed` published only when the USDC was minted (`MintCompletedMeansMinted`), on Solana too? | violated |
| settlement_cycle | `ExpirySettlerCycle.cfg` | Three vaults of two oTokens: is `PositionSettlement` implemented (`SettlerKeepsPromise`), do rows follow the oracle (`ClassifiedTruthfully`) and deliveries settlement, and does every due position resolve? | pass |
| settlement_rows | `SettlementRows.cfg` | Settler, indexer and rotation together: one row per delivery, capital conserved, verdicts agree | pass |
| settlement_redelivery | `ExpirySettlerRedelivery.cfg` | Is a position whose row records its delivery ever delivered again? | violated |
| settlement_rotation | `SettlementRotation.cfg` | Is an in-the-money position's collateral ever rotated? | violated |
| indexer | `EventIndexer.cfg` | Polling: is an event lost behind the cursor? Polling and subscribed: is every deep event indexed in the end (`EventsAreIndexed`)? | pass |
| indexer_failures | `EventIndexerFailures.cfg` | Do known failures hold the cursor? | violated |
| quotes_menu | `QuoteBookMenu.cfg` | On both platforms: are outdated quotes withdrawn, menus recent, and do the bot's trips end in a withdrawal? | pass |
| quotes_resumed | `QuoteBookResumed.cfg` | Does every trip invalidate the quotes of before? | violated |
| bots | `Bots.cfg` | The eight parts of `Bots`, each with a failing call and a crash at any step | pass |

What `bots` asks, part by part:

| Part | Properties |
|---|---|
| sender | `TakesEffectOnce`: at most one transaction of a call takes effect, however often it is replaced or sent again. `NoncesInOrder`: no two waiting calls on one nonce until a send fails or the process dies; no gap until the pool drops a transaction. |
| weekly | `TotalsAreSums`: a running total is the sum of the user's weeks, each counted once for every time its row was written; only a failed call makes that more than once. |
| stream | `FillsReachAll`: a maker whose peer is there stays registered, and a broadcast that ran to its end reached all who were there throughout. |
| solana | `SolanaKeepsPromise`: settler and indexer implement `PositionSettlement`. `RedeliveryNeedsDoubt`: a second delivery needs an outcome that was not recorded. `NoSolanaFillSkipped`: nothing is missing behind the cursor. `FillsAreResolved`: fills are settled and delivered, or found out of the money. |
| yield | `YieldBehindCursor`: recorded and not undone behind the cursor, but for what the code is known to pass over. `PaidOnce`, `PeriodsDoNotOverlap`, `HarvestsShared`: no share is paid twice, no time counts twice, shares add up. |
| sheet | `SheetIsTradable`: no expiry of the sheet is pruned at the same moment, and both sides of the spot have enough strikes. |
| manager | `ListedIsUsable`: what is listed is complete on the chain, and without failures a delisted target is trusted from its row for no longer than full cycles are apart. `TargetsGetListed`: targets are listed in the end. |
| intents | `IntentsFollowJobs`: no job without its intent; between updates an intent says what its job says, until a call fails or an agent patches it. |

Deadlock is not checked: a backend without jobs, due positions, new blocks or
requests may stand still for ever, and the bounds end every environment.

## 4 Bounds

* **Bridge.** Two workers as in the code (`_NUM_WORKERS`), six jobs of which a
  behaviour has one or two: routes that can interact (`Demands`). One fault and one crash, in any order, at
  any step. A second fault would need a second job in trouble, and jobs share only
  the queue. `MaxTries` is 2 of 3: first, last.
* **Settlement.** `BatchSize` 2 with three vaults: a full batch and a remainder;
  two oTokens, so that one price can be read and the other not. One fault of any
  call (including a timeout that lands later) and one crash. In `Settlement` two
  vaults of one oToken, so that a delivery can be attributed to the wrong one, and
  batches of one.
* **Indexer.** Five blocks, two failures (one failure marker can only confuse two),
  one crash, two settings. Polling in ranges of three, so two forward passes, with a
  rescan of 1, shorter than the range. Subscribed with a range and a rescan of five:
  the window covers the chain, as the code's 50 blocks cover a short outage. A jump
  longer than the window is out of the promise; `indexer_failures` has a range of
  2 and a window of 1.
* **Quotes.** Two platforms, two assets, a quote of the operator on one and of a
  market maker on the other (in `quotes_resumed` they compete on one option), two
  price levels one threshold apart, a TTL of two ticks, one move, one fault, one
  crash.
* **Bots.** One fault and one restart per part; the part is alone with them, so
  every step of it meets both. Two of what can interfere, and one more where order
  matters:
  * sender: two calls, two nonces beyond the start, two attempts;
  * weekly: two users, three weeks (a user may skip the one in the middle) with a gain
    of 3 or a loss of 2, two tries;
  * stream: two sockets, two fills of one maker;
  * solana: two positions on one put, which both share an oToken's price and metadata;
  * yield: two vaults, the first with twice the collateral, so shares of a yield of 5
    less 2000 basis points (4) leave dust; four blocks, range 2, rescan 1, one
    confirmation, two airdrops;
  * sheet: every half hour of a week; cutoffs of 8 and 96 half hours; spots on, just
    above and between strikes 25 or 50 apart; five strikes, of which four must be out of the
    money, as in the code;
  * manager: two options, one change from outside, cycles modulo the number after which
    the code reconciles, 3 or 12;
  * intents: one intent, one PATCH. Intents share nothing with each other.

## 5 Fairness

* **Bridge:** `WF(Work(w))` for each worker, `WF(Handle)`, `WF(Restart)`. Workers
  are tasks in an endless loop, a started handler runs on, the platform restarts
  a dead process. Nobody has to call the API and no transaction has to land.
* **Settler:** `WF(Settle)`: the loop starts a cycle every day and after a
  restart, and finishes it. What other tasks and chains do is not assumed.
* **Indexer:** `WF(Index)`, `WF(Subscribe)`, `WF(ProcessLog)`: the loop polls,
  connects, and handles what is pushed. That connections break again and again is
  a premise of `EventsAreIndexed`, for the subscribed setting only, and no
  assumption of the specification.
* **Quotes:** `WF(Handle)` and `SF(Check)`. The bot is disabled while a handler
  holds the loop, so weak fairness would let requests starve it; asyncio's ready
  queue is first-in first-out, so a task that is ready again and again does run.
* **Bots:** `WF(SolanaIndex)`, `WF(SolanaSettling)`, `WF(Manage)`: a poll or a cycle
  that is due is begun, and its calls return or raise. Fills, prices, late
  transactions and changes from outside are not assumed to come.

Premises such as `faults = MaxFaults` in `JobsSettle` and `TripsWithdraw` read
"once calls no longer fail"; the code retries only through its next cycle, poll or
restart, so nothing stronger holds. `FillsAreResolved` and `TargetsGetListed` say
"again and again" instead: they hold once the bounded failures and changes are
used up, which is the same.

## 6 Proofs

TLAPS checks the theorems below for every value of the constants. They assume only
the named assumptions of the modules they are about, which TLC evaluates in every
run of such a module:

* `JobsAssumption`, `BoundsAssumption` of `BridgeRelayer`: finitely many jobs, the
  kinds of jobs disjoint where the routes exclude each other;
* `PositionsAssumption`, `SettlerBoundsAssumption` of `ExpirySettler`: every position
  has an oToken; `IndexerAssumption` of `EventIndexer`; `QuotesAssumption` and
  `QuotesBoundsAssumption` of `QuoteBook`;
* of the parts of `Bots`: `ProcessAssumption`, `SenderAssumption`, `IntentsAssumption`,
  `WeeklyAssumption`, `ManagerAssumption`, `AirdropAssumption` (types and bounds);
  `SolanaAssumption`, and `SolanaFillsAssumption` (positions are numbered in the order
  of their fills); `StreamAssumption` (finitely many sockets; a process has no more);
  `YieldAssumption` (finitely many vaults, each of one asset);
* `PastAssumption` of `YieldIndexer`: the chain that the indexer finds opens a vault
  once and closes it once, after that, like the chain that grows later (`MineVault`).
  The contract gives every vault a fresh id;
* `SheetAssumption`: the short cutoff is no longer than the standard one, nor that
  than the 48 hours at which `cutoff_hours_for_expiry` changes from one to the other.
  The defaults are 4 and 48 hours (`config.py:64`). With a standard cutoff below the
  short one, a weekly Friday that has just been listed could be pruned;
* `NoRowAssumption`, `WeeklyRowAssumption`, `NoShareAssumption`, `YieldRowAssumption`:
  `None`, a model value, is not a row.

| Theorem | Statement | Argument |
|---|---|---|
| `BridgeRelayerProofs` | | |
| `TypeCorrect` | `Spec => []TypeOK` | `TypeOK` is not inductive: a step on `job[held[w]]` needs a job. `TypeInv` adds that a worker holds a job exactly while it is not idle, and that a handler under way has one. |
| `NeverProcessedTwiceAtOnce` | `Spec => []ProcessedOnce` | `HandInv` ties rows to the queue: a queued job is active, a held one exists; the row a handler is about to insert does not exist yet; the one it is about to enqueue is pending and nowhere in hand; a dead process has nothing in hand. |
| `SuccessIsDelivered` | `Spec => []SuccessMeansDelivered` | Of jobs that end on Base or Arc (`Checked`). `ChainInv`: a row's hashes and statuses are true of the chains, the step a worker is at implies what has been confirmed before it, and the mint hash it saw at the start was real. Needs `HandInv`: another worker on the same job could overwrite the row in between. |
| `KeepsTransferPromise` | `Spec => ImplementsTransfer` | Refinement of `BridgeTransfer` for jobs that end on Arc, and on Base if no call on their rows takes effect and still raises (a lost response makes the relayer doubt a success it has recorded). `PromiseInv`: a worker with a transfer in hand has an active row (`WorkOn`), or the error it is about to write is one the promise lets stand, and a follow-up is only sent for a mint. Each step then moves the row as the promise allows (`RowMoves`), or the chain, or neither. |
| `BurnIsBroadcastOnce` | `Spec => BurnBroadcastOnce` | `BurnInv`: a quote without a row has no burn, and while a handler is about to broadcast a burn there is none on the chain; rows never disappear. |
| `EventIndexerProofs` | | |
| `TypeCorrect` | `Spec => []TypeOK` | Inductive as it stands; the least of the failed blocks is a block (well-foundedness of the naturals) and the cursor stops before it. |
| `PollingLosesNothing` | `Spec => []NothingBehindCursor` | For every setting: `PollInv` adds that a poller never leaves the catch-up. Only `index_once` moves the cursor, and never to or past a block it could not store. With a subscription the property promises nothing (`indexer_failures` shows why). |
| `QuoteBookProofs` | | |
| `TypeCorrect` | `Spec => []TypeOK` | `TypeInv` adds that a trip has an asset and a price, and that every increment in flight is one that failed. |
| `OutdatedQuotesAreWithdrawn` | `Spec => []StaleQuotesWithdrawn` | `NonceInv`: until a call fails or the process dies, rows of the operator, and the batch a handler is about to write, carry the chain's makerNonce, unless the bot has just moved it and is about to withdraw. |
| `MenusStayRecent` | `Spec => []MenusAreRecent` | `RecentInv`: an active quote is not gone; a quote of the cached menu has been gone no longer than the menu is old; a menu at its TTL is not served. |
| `SettlementProofs` | | the settler alone, then beside indexer and rotation |
| `TypeCorrect` | `SettlerSpec => []TypeOK` | `TypeInv` adds that finitely many transactions were sent (a fresh one can be numbered) and that a position is at hand while its outcome is recorded. |
| `RowsFollowTheChain` | `SettlerSpec => []SettledOnChain` | `ChainInv`: a confirmed batch, `settled_positions` and the positions to deliver hold only vaults the controller has settled; settled vaults stay settled. |
| `RowsFollowTheOracle` | `SettlerSpec => []ClassifiedTruthfully` | `OracleInv`: both classes of a cycle rest on finalized prices, and the position whose outcome is about to be recorded is one of the in-the-money class; every step leaves finalized prices alone. |
| `KeepsSettlementPromise` | `SettlerSpec => SettlerKeepsPromise` | `SettlerInv` puts the three above and `SentInv` together; `OwnInv`: a row shows a delivery of its own position. Every step that writes a row leaves the chain alone, so what it writes is truthful by the invariant after the step; that it takes nothing back follows from the update itself and, for verdicts, from the price. The other steps settle a batch, deliver one position, fix prices, or change nothing the promise sees. |
| `DeliveriesComeLast` | `SettlerSpec => DeliversAfterSettlement` | Follows from `ChainInv` and `OracleInv`. |
| `JointTypeCorrect` | `Spec => []SettlementTypeOK` | `JointInv` carries `TypeInv` of the settler over and adds the indexer's and the rotation's variables. |
| `DeliveriesAreAttributedOnce` | `Spec => []DeliveriesAttributedOnce` | `SentInv`: only settled vaults that are in the money were delivered, and deliveries of a vault are numbered, so that a fresh one is new. `DeliveryInv`: the delivery the settler is about to record is on the chain and in no row. |
| `CapitalStays` | `Spec => []CapitalIsConserved` | `RowsInv`: the rotation takes only rows with a settled, due vault (`ChainInv`, `DueInv`: the settler works on due positions only), settled vaults stay settled, and the new intent is inserted before the old one is completed. |
| `VerdictsAreTheOracles` | `Spec => []VerdictsAgree` | `VerdictInv`: a row of a physical delivery, also one the indexer wrote, has a finalized price that says in the money; no step changes such a price. |
| `CapitalIntentsProofs` | | |
| `IntentTypeCorrect` | `IntentsSpec => []IntentsTypeOK` | `IntentTypeInv` adds that the row or job a request (`HandlerBusy`) or an update (`SyncBusy`) works on exists. |
| `IntentsStayInStep` | `IntentsSpec => []IntentsFollowJobs` | `FollowInv`: no job without its intent (`JobInv`), and as long as nothing failed and nobody patched, links and statuses agree except where the handler (`HandlerInv`) or the sync (`SyncInv`) is about to write (`LinkInv`, `StatusInv`). |
| `SolanaProofs` | | |
| `SolanaTypeCorrect` | `SolanaSpec => [](SolanaTypeOK /\ SolanaIndexerTypeOK)` | `WorkInv`: whatever a cycle works on has a row. |
| `NoFillIsSkipped` | `SolanaSpec => []NoSolanaFillSkipped` | `BatchInv`: a batch starts right behind the cursor, and what is stored of it is stored before the cursor moves. |
| `ImplementsSettlement` | `SolanaSpec => SolanaKeepsPromise` | `TruthInv`: rows and the collections of a cycle are true of the chain. Each step is then the effect of one transaction, one honest mark, some rows stored, or neither. |
| `DoubtsBoundDeliveries` | `SolanaSpec => []RedeliveryNeedsDoubt` | `OrderInv`, `DoubtInv`: deliveries sent are at most one more than the doubts, and no more than the doubts while the row is open and nothing is in hand. |
| `YieldProofs` | | the yield indexer and the airdrop |
| `YieldTypeCorrect` | `YieldSpec => []AirdropTypeOK` | `YieldTypeInv` adds the order of a vault's events on the chain (`Lifecycle`), and that the harvest at hand is a block with a share (`DropTypes`). That an allocation is never negative needs the sum of the rounded-down shares to be no more than the amount. |
| `SharesPaidOnce` | `YieldSpec => []PaidOnce` | `PaidInv`: nothing is paid for a block that is not mined, or for a share still pending in the run; the share about to be marked was paid. |
| `PeriodsApart` | `YieldSpec => []PeriodsDoNotOverlap` | `PeriodInv`: shared periods are recorded where a later run reads them, however the indexer rewrites the row; a run starts no earlier than any recorded end; of the run, the harvest at hand is the last, and assets whose turn has not come have no period beyond its start. |
| `HarvestsAddUp` | `YieldSpec => []HarvestsShared` | `ShareInv` follows the state of a share through the run; `Allocation` (what `calculate_allocations` returns) adds up to the amount for every set of vaults, by the lemmas about sums. |
| `NothingSkipped` | `YieldSpec => []YieldBehindCursor` | `CursorInv`: up to the cursor every block is recorded or lost; so is every block before the next range of a catch-up, up to the last one polled, and, with a live subscription, all but those still in its messages. `RowsFollow`: a row says what the chain said of the vault, so a deposit that is read again undoes no close. |
| `BotsProofs` | | the other parts of `Bots`, then all together |
| `SenderTypeCorrect` | `TxSpec => []TxTypeOK` | Inductive as it stands. |
| `EffectsHappenOnce` | `TxSpec => []TakesEffectOnce` | `EffectInv`: a call holds at most one nonce that is not mined yet (`OneInPool`), a call that holds one has not taken effect and waits or has raised (`PoolIsOpen`), and receipts tell what ran (`EffectsKnown`). |
| `NoncesAreInOrder` | `TxSpec => []NoncesInOrder` | `TrackerInv`: the local nonce is above all nonces in use as long as sends work and the process lives. `GapInv`: without a drop, below every nonce in the pool, and below the local one, all are filled. |
| `ManagerTypeCorrect` | `ManagerSpec => []ManagerTypeOK` | Inductive with the bounds on faults. |
| `ListingsAreUsable` | `ManagerSpec => []ListedIsUsable` | `UsableInv`: what is listed or paired is usable, and the option at hand has the steps before its phase. `StaleInv` bounds the cycles for which a delisted target is trusted from its row by where the cycle modulo `ReconcileEvery` is (`Late`), on either platform. |
| `StreamTypeCorrect` | `StreamSpec => []StreamTypeOK` | `StreamTypes`: sets in use are numbered no higher than sockets have arrived, so one is left for the next socket. |
| `FillsReachTheConnected` | `StreamSpec => []FillsReachAll` | `SetsInv`: only the registered set has members, and it has every connected socket. `CastsInv`: a cast's dead sockets are broken, the others it sent to got the fill; a cast that ends has met its set unresized, which then is the registered one. |
| `WeeklyTypeCorrect` | `WeeklySpec => []WeeklyTypeOK` | From `TotalsInv`. |
| `RunningTotals` | `WeeklySpec => []TotalsAreSums` | `UserInv`: no row is of a week to come, and each total is the sum of the rows so far, counted as often as they were written. An attempt adds a week behind the last one, or adds it once more to the last row, which is its own (`TotalSplits`). `WeekInv` bounds the attempts at a week by the failed calls, and so how often a row was written. |
| `SheetsAreTradable` | `SheetSpec => []SheetIsTradable` | `CalendarHolds`: remainders modulo a day and a week place the three kinds of expiries against both cutoffs. `LadderHoldsPrice`: the ladder is a gapless run of multiples of the step; rounding to even is off by at most half a step, and the extension leaves enough on each side. |
| `PartsRunAlone` | `BotsSpec => (part = "weekly" => WeeklySpec) /\ ...` | A step of the bots is a step of the part that runs, in that part's own specification. It carries every theorem about a part over to the specification that the run checks. |
| `BotsTypeCorrect` | `BotsSpec => []BotsTypeOK` | `PartsInv`, the parts' own type invariants side by side: the part that runs keeps its own and the shared bounds, the others stand still. |
| `BotsKeepTheirInvariants` | `BotsSpec => []` of the thirteen other invariants of run `bots` | `PartsRunAlone`, and `PartsRest`: a part that does not run is as it began, which is safe whatever happens to the shared counters. |
| `BotsKeepPromise` | `BotsSpec => SolanaKeepsPromise` | `PartsRunAlone`; steps of the other parts stutter. |

The invariants of a module build on each other, in the order of its theorems. In
all eight modules an invariant has one lemma per action, or per group of actions of
one shape. Jobs that were ever *reserved* are excluded from `ProcessedOnce`: recovery
and finalisation may queue them both (run `bridge_reserved`). Jobs that end on Solana, to
which the reserved ones belong, are excluded from `SuccessMeansDelivered` and
`ImplementsTransfer`: run `bridge_solana` shows that these do not hold for them. The theorems about quotes hold on both platforms.

The library's induction theorems take a predicate as a parameter, which the provers
cannot instantiate. Where shares, weeks and strikes need induction,
`YieldProofs` states it with a *set*: a set of naturals that has 0 and is closed under
+1 has them all, likewise for finite sets under adding a member. From that it shows
what the library's `SumFunction` computes (the sum of nothing, of one member more, of
equal or smaller values), whatever member it takes first. Nothing is proved about
recursive operators; these modules have none.

Every safety property that a passing run checks - every invariant, `DeliversAfterSettlement`,
`BurnBroadcastOnce`, `ImplementsTransfer`, `SettlerKeepsPromise` and `SolanaKeepsPromise` -
is stated by a theorem.

Model-checked only: the liveness properties `JobsSettle`, `PositionsResolve`,
`EventsAreIndexed`, `TripsWithdraw`, `FillsAreResolved` and `TargetsGetListed`,
because fairness and ENABLED are outside the prover.

## 7 Findings

1. **A recovered reservation can announce a mint that never happened**
   (`bridge_reserved`, `bridge/routes.py:195`). Recovery queues reservations,
   finalising queues them again; when the first pass fails at the mint the second
   resumes past it.
2. **A mint or trade that failed on Solana is recorded as done** (`bridge_solana`,
   `bridge/cctp.py:667`, `bridge/relayer.py:564`). The `err` of a confirmed transaction
   is not read; on Base and Arc the receipt's status is.
3. **A delivered position can be delivered again** (`settlement_redelivery`,
   `expiry_settler.py:62`). If the phase-1 mark fails and phase 2 succeeds, the row
   is delivered but not settled, and the next cycle starts over with it.
4. **Collateral of an in-the-money position can be rotated**
   (`settlement_rotation`, `capital_intents/reconcile.py:147`). Between the phases
   a row looks like an out-of-the-money one.
5. **A known failure can fall behind the indexer's cursor** (`indexer_failures`,
   `event_indexer.py:590`). One marker stands for several failed blocks.
6. **A trip seen by `GET /prices` is undone by the next request**
   (`quotes_resumed`, `api/routes.py:538`). The bot never sees the move.

Met while modelling, and not runs of their own; where a property is about the place,
it says so as an exception:

* `DELETE /mm/quotes`: the docstring says quotes stop being served immediately; a
  cached menu serves them up to 15 s longer, which is what `MenusAreRecent` bounds.
* Weekly aggregator: a retry reads the row of the try before as the previous week's
  total and counts the week again, in that row and in all later ones (`writes` in
  `TotalsAreSums`).
* Fill stream: a broadcast over a set that changes its size raises, and the sockets
  not yet reached miss the fill (`FillsReachAll` is about broadcasts that end).
* `_local_nonce`: "monotonic" in a comment (`web3_client.py:26`), but a replacement
  of an old nonce sets it back.
* Yield: the indexer may record a harvest before the airdrop does; the airdrop's
  insert is refused and its yield is never allocated (`HarvestsShared`). Dust goes to
  the first row, where the comment at `calculator.py:100` says the largest. The task of
  the indexer ends silently when a call in it raises. Events between the catch-up and
  the subscription are passed over until a restart (`YieldBehindCursor`).
* Solana: rows whose metadata could not be loaded stay incomplete, are skipped by every
  cycle, and are never settled (`FillsAreResolved`). Expired options are not pruned;
  an option left out of a cycle keeps its row.
* Capital intents: a GET derives the status from the bridge job and overwrites what
  an agent patched (`patched` in `IntentsFollowJobs`).

## 8 What is not modelled

* Data: addresses, amounts, signatures, message encodings, log decoding, wording.
  Slippage retries are an attempt that works or not. Collateral figures and the
  notifications to market makers are outside `EventIndexer`, and so is the merging
  of two orders of one transaction by the upsert on `tx_hash`.
* In `QuoteBook`: deadlines and expiry cutoffs (an expired quote is filtered like
  an inactive one), nonces of makers other than the operator (they move without
  this program), read-only endpoints, `POST /mm/capacity`. `GET /prices` takes its spot
  price and serves in one step: that another task runs while it awaits the fallback
  price of Deribit is left out.
* In `ExpirySettler`: result e-mails, rows without a maker address.
* In `SolanaSettler`: a transaction that is reported at any commitment counts as final;
  a fork that drops one which was only processed is left out. A price that exists after
  its initialisation failed, or cannot be read after it was confirmed, is looked at by
  the retry or by the next cycle, as any other price.
* In `SolanaIndexer`: a fill whose row cannot be built (`_build_order_row` returns
  nothing for it) is skipped and left behind the cursor; that is part of decoding.
* In `WeeklyAggregator`: positions or prices that differ between two attempts at one week.
* In `CapitalIntents`: intents without a bridge job, which are a plain insert, and
  amounts and hashes. In `YieldAirdrop`: the transfer of the fee, whose failure is
  only logged.
* Components marked *not_modelled* in `PROJECT.json`: reminders and e-mail opt-in,
  faucets and demo settlement (test networks), product accounts, the read-only API,
  Agora, pricing sources, signature and chain helpers, start-up and schemas. They
  keep no protocol state, or single rows of one wallet that one call writes.

## 9 Plan

Every module planned so far is written, and every safety property of the runs is
proved. What is left:

1. What settler, indexer and rotation promise together, as one abstract specification
   above `Settlement`: deliveries per oToken instead of per position, and capital.
2. Steps of liveness that are safety: bounds on how long a call, a cycle or a job can
   stay where it is, as variants that no step increases.
3. Reminders, as another part of `Bots`: a reminder is repeated only after a lost mark.
