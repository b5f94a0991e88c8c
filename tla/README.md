# Verification project for PrimeAgent

TLA+ models of PrimeAgent, the TLC runs that check them and the TLAPS proofs about
them. PrimeAgent lets a user hand a bounded mandate to a trading agent: contracts on
Arbitrum and Robinhood Chain hold the funds and enforce the mandate, a Stylus engine
values them, and a TypeScript backend runs the agent's loop, mirrors the chain in a
database and talks to the broker.

Run a model with `tlc -config X.cfg M` and a proof module with `tlapm M.tla`.
`PROJECT.json` holds the machine-readable index: which run uses which module and
configuration, which source lines each definition stands for, which change of the
code each property notices, and the hazards the properties answer.

## 1. Inventory of the system

### 1.1 Contracts (`contracts/src`)

| Component | State | Operations | Must hold |
|---|---|---|---|
| `StakedValidator` | stakes, locked stake, disputes, attestations by hash | stake, withdraw, validate, challenge, adjudicate | stake under dispute cannot leave; payouts are covered |
| `Erc7715PolicyAuditFacet`, `JurisdictionPolicyFacet` | one policy per token, revocation, jurisdiction pauses, a version | install, update, revoke, pause, unpause | revocation is final at once |
| `PrimeAgentCallPolicyValidator`, `PrimeAgentPreExecHook` | cached policy, day counter, per-execution check | onInstall, onUninstall, validateUserOp, syncPolicy, preCheck | a day never spends more than its cap; nothing runs after a revocation |
| `PositionNFT`, `PrimeAgentFactory` | owner of each agent | mint, transfer, burn, deployAgent | who may change the mandate |
| `AgentVault` | base balance, shares, side balances, adapters, pause, two engine readings | ERC-4626 entry and exit, adapters, pause, liquidateBaseAsset | exit stays open; no operation lowers the value of a share |
| `EmergencyShutdown` | registered components, shutdown flag, pending resume, liquidator roles | register, unregister, shut down (whole or a range), propose / cancel / execute resume, liquidate | a resume belongs to the shutdown it ends and waits its timelock |
| `FeeCollector` | streams, shares in ppm, accrued amounts | configure, remove, collect, withdraw, bridge | accruals are backed; a payout touches one stream |
| `LiquidationExecutor` | none | liquidate, isLiquidatable | what is seized was below its threshold |
| Stylus `margin_engine` | collateral and notional per vault and asset, margin parameters | push, pull, set notional, set parameters, three readings | a vault the engine calls healthy covers its margin |
| `PrimeAgentDiamond`, `LibDiamond` | dispatch table, selector lists, pending and executed cuts | propose, cancel, execute a cut | the tables describe one diamond; a cut waits |
| `PaymasterRelay` | sponsored callers, caps, counters per block | validatePaymasterUserOp, three delayed settings | a block costs no more than its caps |
| `PriceOracle` | prices, signer set and its epoch, pending changes | postPrices, propose / execute a signer change | a price is of the present signers |
| `RobinhoodMcpAttestor` | state per agent, nullifiers, attestor, pending rotation | attest, propose / execute a rotation | a state is what was signed, counted once |
| `RhChainSwap` | balances per agent and token, two nonces per agent, pause, revocations, attestor | deposit, withdraw, withdrawWithAuth, swap, emergencyWithdraw, administration | no order settles twice; the books differ from the tokens by the swaps alone |
| `RobinhoodChainAdapter`, `ArbitrumOneAdapter` | none, but hold tokens within a call | swap, supply, withdraw, borrow, repay, openPerp, closePerp | nothing stays behind |
| `V2Router`, `V3Pool`, `V3PositionManager` | reserves, shares, positions, NFTs | add, remove, mint, burn, collect, swap | reserves and debts are held; shares keep their value |
| `AgentRegistry` | registrations and feedback | register, give feedback | not modelled, see section 8 |

The contracts interact by calls within one transaction. Between transactions
anything may happen: the owner, keepers, adapters, the validator's bundler and the
price feed act in any order. Transactions are atomic, so a model of one contract has
one action per external function, and a failing call leaves everything as it was.
The exception is ERC-4337: validation and execution of an operation are two steps,
and a bundle runs all its validations first.

### 1.2 Backend (`backend/src`) and its clients

| Component | State | Operations | Must hold |
|---|---|---|---|
| `agent/runtime.ts`, `agent/loop.ts` | records of running agents, two cron tasks each, a status per token, the cache of compiled agents | start, pause, resume, stop, tick | the status agrees with the record; a stopped record stays stopped |
| `lib/runtimeStore.ts`, `routes/agentProposalsRoutes.ts` | proposals with timers | add, approve, skip, expire | one approval, one execution in progress or successful; an unanswered proposal ends |
| `agent/rhChainSwapExecutor.ts` | idempotency keys, a slot with a promise per token | execute | a success is a swap on the chain; every call returns |
| `agent/strategy`, `workers/triggerWatcher.ts` | armed directives in the database | arm, fire, expire, cancel | an ended directive stays ended; every armed one ends |
| `workers/onchainIndexer.ts` | policy rows, revisions, attestation rows | one handler per event | the rows follow the chain |
| `workers/priceOraclePoster.ts` | cached epoch of the signer set | sign and post | posts under the present epoch |
| `workers/attestPoster.ts`, `lib/attestor.ts` | attestation rows, a run flag | read, sign, record, submit | every state on chain is on record, in order |
| `workers/circuitBreaker.ts` | baselines and observed statuses | pass, trip | one trip per run, measured in that run |
| `services/robinhoodOAuth.ts`, `workers/tokenRefresher.ts` | authorisation states, the credential row | authorise, complete, refresh | a refresh never loses the credential |
| `lib/runtimeStore.ts` (events), `routes/sse.ts`, `web/src/lib/api/agentStream.ts` | a ring of events, the socket's queue, the client's last id | publish, subscribe, reconnect | a resumed stream has neither gap nor repetition |
| `services/webhookEmitter.ts` | a bounded queue, one drain | emit, drain, retry | deliveries in order; the queue empties |
| `mcp/*`, `services/orderIdempotency.ts`, other routes and workers | pooled clients, order keys, caches | | not modelled, see section 8 |

The backend is one Node process: code between two `await`s is atomic, and any other
handler may run at an `await`. Timers and cron jobs start handlers with no regard to
those still running, unless a flag stops them. State in memory is lost in a crash;
rows in the database are not.

### 1.3 Hard behaviours

Two-step validation of bundles against a cached policy; one transaction that crosses
four contracts; rounding that must favour the pool; array-with-index registries
under swap-and-pop; announcements that outlive the state they were made for;
settings that change in the middle of a block; signatures kept from an earlier key
or epoch; handlers of the backend that resume after an `await` with what they read
before it; event handlers that nothing orders; rows written before the transaction
they announce; tokens that rotate at each use; clients that reconnect.
`PROJECT.json` lists each hazard at its line, with the properties that answer it.

## 2. Modules

### 2.1 Contracts

| Module | Models | State and actions |
|---|---|---|
| `Clock` | `block.timestamp` for the contracts that read it | one bounded counter, one tick |
| `StakedValidator` | `StakedValidator.sol` | the mappings of the contract and the balances of the base asset; one action per external function, `adjudicate` as two (one per ruling) |
| `PolicyFacets` | the two policy facets, the NFT's mint, transfer and burn, the factory's deployment of one agent | one token's `policy`, `revoked`, `paused`, `version`, `nftOwner` |
| `PolicyStack` | extends `PolicyFacets` with the validator, the hook and the external EntryPoint and Kernel | `val` and `hook` are the modules' storage; `bundle` and `executing` are the EntryPoint's two loops; `spentAt` and `topCap` are history |
| `IndexedList` | the array-with-positions set that two contracts write out | operators only |
| `FixedPoint` | the fixed point in which engine and oracle answer | constants only: the unit, the prices, and the answer that cannot be read |
| `FeeCollector` | `FeeCollector.sol` | streams, positions, accrued amounts, tokens held; a batch of `configureStreams` is one action over a sequence |
| `EmergencyShutdown` | `EmergencyShutdown.sol` and the pausing side of its vaults | registry, flag, pending resume, roles; per vault paused, pauser, NFT; `shutdownAt` and `proposedAt` are history |
| `AgentVault` | `AgentVault.sol` over OpenZeppelin's ERC-4626 | base balance, shares, side balances, adapters, pause, and the two readings as values that change or fail at any time |
| `MarginEngine` | the Stylus engine | collateral and notional per vault and asset, parameters, quotes; the readings are operators over the listed assets |
| `VaultLiquidation` | composes `AgentVault`, `MarginEngine`, `EmergencyShutdown` and `FeeCollector` by `INSTANCE` with the `LiquidationExecutor` | the vault's reading is the engine's; `Liquidate` is the whole transaction; `VaultStep`, `EngineStep`, `CoordinatorStep`, `FeeStep` are the steps of the others that bear on it |
| `Timelock` | the abstract promise of a delayed administration: announce, cancel, take effect no sooner than the delay after the announcement in force | refined by the next four |
| `DiamondCut` | `PrimeAgentDiamond.sol`, `LibDiamond.sol` | `ds` is the diamond storage, a cut a sequence of entries, each of several selectors, applied one selector after the other; one revert refuses them all, and the constructor's cut must succeed; `CutsWait` is the refinement |
| `PaymasterRelay` | `PaymasterRelay.sol` | caps, counters of the block, the pending settings; `topCap` is the largest cap of this block (history) |
| `PriceOracle` | `PriceOracle.sol` | the posted price, signers, pending changes, epoch; a report is a price signed by a signer in an epoch, and every report ever signed may be posted; the median is the least price that more than half of the batch does not exceed |
| `PriceFeed` | `PriceOracle` composed with the poster worker | the poster's cached epoch and its process |
| `RobinhoodMcpAttestor` | `RobinhoodMcpAttestor.sol` | states, nullifiers, attestor, pending rotation |
| `AttestPoster` | extends `RobinhoodMcpAttestor` with `attestPoster.ts`, `attestState` of `lib/attestor.ts` and `handleStateAttested` of the indexer | the rows, each run's await, the transactions not yet included; the sequencer includes them in order of arrival or lets them expire |
| `RhChainSwap` | `RhChainSwap.sol` | balances, nonces, roles' settings; `Swaps` and `Auths` are the orders ever signed, by which key; `settled` and `swapped` are history |
| `V2Router`, `V3Dex` | the two exchanges; `V3Dex` is pool and position manager together | reserves, shares, positions, NFTs; the price walk over ticks is an output within the reserves |
| `VenueAdapters` | the adapters' calls between a vault and the exchanges or the lending pool (external) | the vault's side tokens and what an adapter holds; one action per call, all its legs included |

One action is one transaction: a `require`, a custom error or a checked underflow is
a guard, since a reverted call leaves no trace. The `ERC-4337` steps are the
exception: a bundle validates all its operations first (one refusal reverts it) and
executes them afterwards, one by one, with steps of others between two of them; an
execution that reverts keeps what its validation wrote. A signature is who signed
what; hashes and digests are the values they stand for.

### 2.2 Backend

| Module | Models | State and actions |
|---|---|---|
| `AgentRuntime` | `startAgent`, `pauseAgent`, `resumeAgent`, `stopAgent`, `runTick`, `createAgentForToken`, the indexer's two halts, for one token | `active` is the map's entry; a record stands for one call of `startAgent` and outlives its place in the map, because its cron tasks close over it; `tick` holds the await each running tick is at; `agentCache` says whose tools the cached agent carries |
| `SwapExecutor` | `executeApprovedAction`, `executeRhChainSwap`, the nonce of `RhChainSwap.swap` | `call[c].pc` is the await the call is at; `inFlight` the slot; `lastWaiter[c]` the latest call to wait for the promise of `c`, whose own `prior` leads to the ones before it |
| `Proposals` | the proposal store and what the routes require | `bucket` and `row`; time is whether `expiresAt` has passed |
| `AgentDesk` | composes the two: the approve and skip routes, the tick's and the directives' swaps | `purpose` joins a call to the proposal it executes |
| `PolicyIndexer` | the indexer's deployment, policy and revocation handlers for one policy | the chain's logs, the row, the revisions; each handler is at an await with what it has read; logs arrive twice, handlers fail, the process restarts and replays from its start block |
| `Directives` | `arm.ts`, `triggerWatcher.ts`, `fireArmedDirective` | a status per directive and the turn in which it was armed (the order the store returns), each tick's rows still to look at, how often each action executed (history); writes fail and the process restarts `MaxFaults` times |
| `CircuitBreaker` | a pass over one agent, with the operator's pauses and resumes | baseline, last observed status, each pass's await; `runs`, `trips`, `lastTrip` are history |
| `BrokerSession` | authorisation with PKCE, the token endpoint (external, it rotates), the refreshes by worker and by callers | the credential row, the endpoint's live token per grant, each call's await and token in hand |
| `EventStream` | `publishEvent`, `subscribe`, the stream route's socket, the browser's reconnection | the sequence, of whose last events the ring is the tail, socket queue, client's last id; a subscription replays them in order, each through the socket's back-pressure; `received` is what the dashboard read; eras are backend processes |
| `WebhookEmitter` | the queue, its drain, the posts with their retries | `hooks`, each drain's place, `handled` at the receiver (history) |

An action is what Node runs between two awaits, and any other handler may run at an
await. Some choices deserve a word.

* `Settle` (`SwapExecutor`): when a promise of the slot settles, its `finally`
  empties the slot and every call that awaited it resumes before another task runs.
  Each starts its own worker and overwrites the slot. Two calls that queued behind
  one promise thus run side by side; the comment of `executeRhChainSwap` ("two
  concurrent calls for the same tokenId run sequentially") holds for two calls and
  not for three. The model keeps this, and `NonceCountsSwaps` shows why it is
  harmless on the chain: the contract's nonce admits one of the two.
* A request's ownership check awaits before the store is read, so nothing read is
  stale, and the route is atomic up to its call of `executeApprovedAction`.
* The indexer's watchers are one per event name, and a watcher does not await its
  handlers: two handlers run concurrently and a later log's may commit first. Only
  logs of one name are delivered in order.
* `AttestPoster`: only the poster's own key submits attestations, one transaction
  after the other from one account. That is what the worker is written for; with a
  second submitter readings could overtake one another.

### 2.3 Model-checking modules

`MCPolicyAndStake`, `MCCustody`, `MCTimelocks`, `MCBackend` and `MCLiveness` put
components that share no state (but the clock) into one run: `subject` is chosen at
the start, the behaviour moves that component, and the others stay as they began.
The states of such a run are the sum, not the product, of its components', and each
property is checked of each behaviour. Components that do interact are composed in
modules of their own: `VaultLiquidation`, `PolicyStack`, `AgentDesk`, `PriceFeed`,
`AttestPoster`, `VenueAdapters`. `MCDirectives` only gives constants their values,
and `VaultLiquidation` needs no module to do so.

## 3. Runs

Twelve runs, each for one question. The last column counts TLC's distinct states (up
to symmetry where it is used).

| Run | Question | Bounds | States |
|---|---|---|---|
| `policy_and_stake` | Are budgets, the day counter and revocation respected by validation and execution together? Do the stakes' locks, disputes and payouts stay in step? | 2 accounts, 2 policies differing in every field a check reads, 5 operations (one per reason to admit or refuse), bundles of 2, a day of 2 ticks, time 4; 2 stakers, 2 hashes, MIN_STAKE 2, supply 4, window 1, time 3 | 3,052,896 |
| `custody` | Is every book backed by tokens, every order settled once, nobody diluted? | vault: 2 users, 2 side tokens on a list of 1, 2 readings or none; fees: 3 streams in thirds, batches that repeat an id, park at 0 or reorder; engine: 2 assets, parameters valid, equal, crossed and past 100 %; desk: 2 agents, 2 tokens, 2 attestor keys, 3 orders and a withdrawal; exchanges: 2 providers, reserves to 6, 2 NFTs and a direct holder in one range, liquidity to 2; lending: debts to 2 | 550,223 |
| `vault_liquidation` | Does a liquidation across four contracts leave the exit open and priced collateral alone? | 1 depositor, 1 asset, bounty of two fifths so that small seizures round | 103,680 |
| `timelocks` | Does no administration take effect before its time, and what else must hold in those contracts whatever is changed meanwhile? | shutdown: 3 vaults, batch 3, timelock 2, time 4; diamond: 4 selectors, 2 facets, 6 cuts; relay: 2 callers, caps 1..3, 5 payloads; oracle: 4 signers (3 needed, 1 faulty), 5 eras; attestor: 2 keys, 5 payloads; poster: 2 overlapping runs, 2 policies of an agent, 2 readings, 2 rows | 857,594 |
| `backend` | Does each part of the backend keep its promise under every interleaving of its awaits, with failures and restarts? | desk: 2 proposals in a bucket of 1, 3 calls; runtime: 3 starts, 2 ticks; indexer: 4 logs, 2 handlers, 2 redeliveries or restarts; directives: 3, one of 2 actions and one drifted, 2 ticks, a batch of 2, 1 fault; breaker: 2 passes, 3 runs; broker: 2 calls, 2 grants, 4 tokens; stream: ring of 3, 6 events, 2 processes, 2 reconnections; webhooks: queue of 2, 4 deliveries, 2 attempts | 2,433,974 |
| `liveness` | Does every call return, every unanswered proposal and armed directive end, and the webhook queue empty? | 3 calls, 1 proposal; 2 directives behind a batch of 1; a queue of 2 | 125,300 |
| `liquidation_threshold` | Is a seizure backed by `liquidation_check`, as the README says? (refuted) | as `vault_liquidation` | until refuted |
| `tool_closures` | Does a stop evict the compiled agent, as its comment says? (refuted) | 2 calls of `startAgent`, 2 ticks | until refuted |
| `signer_epoch` | Does the poster follow a change of the signers' epoch? (refuted) | 4 signers, 2 eras | until refuted |
| `revoked_row` | Is the row of a revoked policy dead? (refuted) | 3 logs, 2 handlers | until refuted |
| `directive_refire` | Is a fired directive's action executed once, as "idempotency" says? (refuted) | 2 directives, no fault | until refuted |
| `breaker_resume` | Is the drawdown measured within the present run? (refuted) | 1 pass, 2 runs | until refuted |

Why the bounds are enough. Each is the least at which the hazards of `PROJECT.json`
occur: a validator disputed on one hash while validating another; a window that
rolls over between the two operations of a bundle (day 2, time 4, so that three
windows exist); a stream moved by swap-and-pop and then paid; a range of a shutdown
that misses a component; a share price that changes between two users; a cut that
empties a facet and one that moves a selector and brings it back; a cap that changes
between two sponsored operations of a block; a signer who leaves and comes back
(three rotations); two orders for one nonce, signed by different keys; two NFTs over
one pool position, with a swap that moves the reserves below what a burn would pay;
a bucket that evicts a row whose execution is awaited; three swaps of which two wait
for the first and then run together (with two calls no two ever overlap); two
handlers of one log, before and after a restart; two refreshes in flight and an
authorisation between; a directive that waits behind a batch of older ones; a ring
that drops what a client missed; a queue that overflows while its drain waits.
Symmetry is used where the elements are interchangeable, and never in the liveness
run. Timestamps, amounts and sequence numbers are cut off by the constants that the
modules mark "bound". `MaxSeq` cuts off the numbering and not the run: past it all
calls share a key, which only adds refusals, and `KeyLapses` may lift them at any
time.

`CHECK_DEADLOCK FALSE` stands where the system may stop: the clock's bound is
reached and nothing is left to do, all calls have returned, all directives have
ended, all logs are handled. `custody` and `vault_liquidation` check for it.

### What they show

* **StakedValidator.** The `Math.min` clips of `adjudicate` never clip and its
  `InvariantViolated` is unreachable (`DisputesAreCovered`); the contract holds
  exactly what it owes (`Solvency`). `UnchallengedStakeStaysLocked` records a
  consequence of the code: honest stake is never released.
* **PolicyStack.** A fixed window admits up to two caps in 24 hours and no more;
  after a revocation the validator's cache goes on admitting and the hook stops the
  execution, in the very block. `SyncPolicy` is always possible, although no facet
  of the repository calls it, so the result covers both deployments; the bounds are
  therefore stated with the highest cap cached.
* **AgentVault, FeeCollector, MarginEngine.** Every entry and exit rounds for the
  pool under any reading; a collection gives every stream its share and the dust to
  one, and a payout touches one; nothing is off the engine's list, and a vault with
  its positions in one asset is not liquidatable while it meets its initial margin,
  whatever the order of parameter changes.
* **VaultLiquidation.** Exit stays open through pause, shutdown and liquidation as
  far as the vault holds the asset; a vault with priced collateral of a unit or more
  is not seized.
* **RhChainSwap.** An order or withdrawal settles at most once over any rotation of
  keys; the contract is short of its books by exactly what swaps credited. That a
  swap credits tokens nobody brought is the desk's design (it settles against the
  attestor's price), and `ShortByTheSwaps` says that nothing else does.
* **Exchanges and adapters.** The V2 pool's shares keep their value and the part
  locked at creation keeps it priced; the V3 pool and its manager hold what they
  owe, though a burn is clipped to the reserves and NFTs share one position; no call
  leaves a token with an adapter. The lending pool knows one account for all the
  vaults, so no property says whose debt is repaid.
* **Administration.** The diamond's, the relay's, the oracle's and the attestor's
  changes implement `Timelock`; a resume belongs to its shutdown; a shutdown misses
  nobody; the dispatch table and the loupe's lists agree after any cuts; a block
  costs the relay no more than the largest cap of the block; reports of an earlier
  era cannot move a price, even with a faulty signer; an attested state was signed
  for that agent and counts once; and what the posting worker puts on chain is on
  record before and served in the order it was read.
* **Backend.** The status in the store is the active record's or a halt; a stopped
  record never ticks again. A proposal has exactly one live or successful execution
  while it is approved and none otherwise; a success is a swap that landed and each
  nonce was used once. Revisions are numbered without a gap and once per log. An
  ended directive stays as it ended and "fired" means that every action executed.
  One trip per run. The stored refresh token is live unless the successor is in the
  hands of a call about to store it or was lost with a process or a failed write. A
  resumed stream is exact, unless the ring, the socket's queue or the process was
  lost meanwhile. Webhook deliveries are handled in order.

### The refuted statements

* `liquidation_threshold`: a vault with deposits and no margin position has net
  collateral 0, which `_checkUnhealthy` takes for unhealthy; the README of the
  repository says that `liquidation_check` decides.
* `tool_closures`: `agentCache` is keyed by token and evicted once by `stopAgent`. A
  tick that was compiling at the stop stores its agent afterwards, and the ticks of
  the next start find it. The comment of the cache says that a restart does not leak
  the tool closures.
* `signer_epoch`: `epochCache` is filled once and its invalidation has no caller, so
  after a signer change the poster signs under the old epoch until it is restarted,
  and the oracle refuses every post.
* `revoked_row`: an update's handler that read the policy before the revocation and
  commits after the revocation's handler leaves the row live.
* `directive_refire`: a directive of two actions whose second fails stays armed, and
  the next tick executes the first again.
* `breaker_resume`: a pause and a resume between two passes leave the baseline of
  the earlier run in force. There is a second way: an agent paused while a pass that
  saw it run waits for its counts is measured against the earlier run's baseline,
  which only a running agent replaces, and is reported although it is paused.

For five of the six a theorem says what the refutation needs (section 5, "What the
refuted statements need").

## 4. Fairness

* `AgentDesk`: `WF(Clock(id))`, time passes and a timer that is due fires;
  `WF(CallStep(c))`, an await of a call ends. The RPC transports have timeouts, and
  the wait for the receipt has its own of 60 seconds. `TimesOut` is part of the step
  because nothing obliges the chain to include a transaction: there is no fairness
  on `ChainStep`, on the advisor or on the operator. A call that waits in the queue
  takes no step of its own: it goes on when the promise it awaits settles.
* `Directives`: `WF(LifetimePasses(d))`, a directive's lifetime runs out;
  `WF(TriggerStep(t))`, the cron fires and every await of a tick ends, by an answer
  or an error. No fairness on triggers, on success or on the absence of faults.
* `WebhookEmitter`: `WF(DrainStep(d))`, `setImmediate` runs the drain and a post
  ends, by its timeout at the latest.
* `PriceFeed`: the cron fires and a tick ends, for the refuted property.

`MCLiveness` states the same fairness on the steps of the chosen part.

## 5. Proofs

Every safety and action property of a passing run is a theorem (`ExitSurvives` with
its `ENABLED` written out, section 6), of the component and of the very
specification that the run checks: `MCPolicyAndStake`, `MCCustody`, `MCTimelocks`,
`MCBackend`, `VaultLiquidation`. The proof modules are eight.

| Module | Extends | Theorems | Inductive invariant |
|---|---|---|---|
| `DataLemmas` | `IndexedList` | `PopKeepsIndex`; lemmas on array-with-positions lists, sums, loops, greatest and least elements, quotients | none: facts about operators, for data of any size |
| `PolicyAndStakeProofs` | `MCPolicyAndStake` | `BudgetKept`, `DayBoundKept`, `CounterKeptExact`, `RevocationStopsExecution`, `RevokedStaysExpired`, `BurnedRulesStand`; `LocksAccounted`, `DisputesCovered`, `StakeIsBacked`, `DisputeHoldsStake`, `LateStakeStaysLocked`; of the run `PolicyAndStakeHold`, `PolicyAndStakeStep` | `PolicyInv`: types, `RevokedIsExpired`, `CapSeen`, `BudgetHolds`, with `WindowsSplit` for the day; `StakeInv`: types and `LockAccounting` |
| `EmergencyShutdownProofs` | `EmergencyShutdown` | `RegistryCorrect`, `ResumeBelongs`, `ResumeTimelock`, `ShutdownMissesNobody` | `TypeOK`, `RegistryIndexed`, `ResumeBelongsToShutdown`, `ShutdownIsPast` |
| `TimelockProofs` | `MCTimelocks`, `EmergencyShutdownProofs` | the refinements `AttestorRefinesTimelock`, `RelayRefinesTimelock`, `OracleRefinesTimelock`, `DiamondRefinesTimelock`; `TablesKept`, `BudgetKept`, `ServedIsSigned`, `TrailKept`, `PriceIsCurrent`; of the run `TimelocksHold`, `AllAdministrationsWait` | `OneSlot`, `RelayTyped`, `OracleTyped`, `DiamondInv` (`SoundTables`), `BudgetInv`, `AttestedInv`, `PosterInv`, `EraInv` |
| `ExchangeProofs` | `RhChainSwap`, `VenueAdapters` | `OrdersSettleOnce`, `DeskShortBySwaps`, `LpSupplyHeld`, `LpValueKept`, `DexBacked` | `SwapInv` (`NoncesSpent`, `NoncesCount`), `DeskInv`, `V2Inv`, `DexInv` (`PoolPart`, `ManagerPart`), `VenueInv` |
| `CustodyProofs` | `MCCustody`, `ExchangeProofs` | `SidesBacked`, `VaultValueKept`, `AmountsListed`, `MarginIsEnough`; of the run `CustodyBacked`, `CustodyInvariants`, `CustodyValueKept`, `CustodyFeesFair` | `VaultInv`, `EngineInv`, `FeeInv`, `CustodyInv` |
| `LiquidationProofs` | `VaultLiquidation` | `CollateralHolds`, `SeizedPositionsAreBelow`, `ExitStaysOpen` | `LiquidationInv` |
| `BackendProofs` | `MCBackend` | `StatusIsRight`, `OnlyRunningAgentsPropose`, `StoppedForGood`, `TripsSpaced`, `TokenKept`, `HistoryIsSound`, `DeliveriesInOrder`, `ProposalsRunOnce`, `NoncesCountSwaps`, `ResumesExactly`, `EndedForGood`; of waiting `WaitsAreForWorkers`, `CallsAdvance`, `UnansweredHaveTimers`, `NothingStaysQueued`, `FlagFollowsTick`, `PassFlagKept`; of the refuted statements `ToolsGoWithTheirAgent`, `BaselineFollowsRuns`, `RevokedRowDiesInTurn`, `SinglesAreOnce`; of the run `BackendHolds`, `BackendStepsHold`, `NothingIsStranded` | `StatusAgrees`, `StoppedIsDead`, `ToolsInv`, `BreakerInv`, `BaselineSeen`, `BrokerInv`, `IndexerInv`, `TurnInv`, `WebhookInv`, `ServeInv`, `DeskInv`, `QueueInv`, `TimerInv`, `StreamInv`, `DirectivesInv`, `WatcherInv`, `SinglesAreBooked` |

### Assumptions

The theorems hold for every value of the constants that satisfies the named
assumptions of the modules: any sets of accounts, hashes, components, policies,
operations, records, ticks, signers, keys, payloads, cuts, orders, assets, vaults,
streams, positions, calls and passes, any caps, delays, windows, prices, ring, queue
and batch. The assumptions say that distinguished values differ from the members of
the sets they mark absence in (`NoOwner`, `NoRecord`, `Unreadable`...), that numbers
are natural and units positive, that the sets summed or counted over are finite,
that no signed order is both a swap and a withdrawal, and that a queue has a drain.
One is about the world: `HonestMajority`, that faulty signers are fewer than half of
`MIN_SIGNERS`, without which no median helps. TLC evaluates all of them in the runs.
Where a constant bounds a counter of the model (`MaxTime`, `MaxRows`...), the
theorems hold for every value of the bound.

### Why the invariants are needed

* **Stake.** A checked subtraction stays natural, and a slash covers its dispute,
  only because the locks count the open attestations.
* **Policy.** A revocation writes the present as expiry and time never runs back, so
  a revoked policy reads as expired, and `PreCheck` refuses what is expired:
  whatever the validator's cache says, nothing executes. A day meets at most two
  fixed windows; `WindowsSplit` says that the counter is what was admitted since the
  live window began, and that the part of a day before it, which lies in one earlier
  window, holds at most one cap.
* **Shutdown.** `ResumeBelongsToShutdown` becomes inductive once it is known that a
  shutdown never begins in the future.
* **Timelocks.** The invariant of each contract, then initial states to initial
  states and each step to a step of `Timelock` or to none. The attestor's single
  slot is seen as one deadline per key, of which `OneSlot` says at most one is set.
  For the diamond, each entry of a cut keeps the dispatch table and the two lists in
  step selector by selector (`SoundTables`), so swap-and-pop is followed through
  cuts of any length. `EraInv` says that epochs grow with the rotations and that the
  last is in force, so an honest report that still counts was signed in the present
  era; with a minority of the batch faulty, both middles lie between honest prices
  (`MiddleIsHonest`).
* **Poster.** Before a reading can be submitted its row is written, one run is at
  work at a time, and what waits for inclusion is in the order of the readings
  (`PosterInv`).
* **Desk and exchanges.** The nonce of a settled order is below its agent's nonce,
  and the nonces count the settled orders; sums over agents, providers, positions
  and NFTs change by what one of them changes.
* **Custody.** The value of a share is a product inequality, from the floor and the
  ceiling of one division (`Quotient`, `ProductsGrow`). A batch of
  `configureStreams` is a loop: indexes, total share and accrued sum are kept by
  every entry. A collection rounds down each of `n` streams and so loses less than
  `n`, which the first paying stream gets (`RoundedParts`).
* **Liquidation.** A reading of zero says that every priced line is below a unit,
  since a sum of naturals is not below a summand, and it says so of every asset the
  vault has collateral in, because the engine's list misses none (`LiquidationInv`).
  Beside it, only a seizure brings money to keeper and collector (`SeizuresAlone`).
  A position of a unit of maintenance has a requirement that a net of zero does not
  meet, so a vault seized with one is below the engine's threshold
  (`SeizedPositionsAreBelow`). The exit is open because the shares that
  `maxWithdraw` promises are the owner's (`PromiseIsAffordable`) and nothing that
  the other contracts change is in the guard (`ExitStaysOpen`).
* **Agent runtime.** `StatusAgrees` is inductive as it stands; that a stopped record
  has no cron task gives `StopIsFinal`.
* **Breaker and broker.** One pass at a time, and while the agent runs, or a pass
  that saw it run waits, fewer trips than runs (`TripIsLeft`). A token that no row
  has yet is in the hands of one call and is the newest, and a row that is up to
  date has no such call beside it (`OneCarrier`, `FirstIsAlone`, `NoneIsNewer`).
* **Indexer.** A handler about to write holds a policy no older than its log, and
  rows are numbered up to their count, so the greatest number and the count are one.
* **Webhooks.** Nothing that was handled is later than what a drain holds or the
  queue still has, and one drain works at a time. What is queued has a drain, since
  the one that ends looks at the queue and clears its flag in one turn (`ServeInv`).
* **Proposals and calls.** A promise that settles moves calls from one place in
  progress to another; an approved proposal has exactly one live call or a success,
  and no call has a transaction before it submits one. The calls behind one promise
  are chained from its `lastWaiter` through their `prior` (`QueueInv`), so the step
  that settles the promise reaches every one. A row has its timer because the head
  that a full bucket evicts stands in it once (`TimerInv`).
* **Stream.** While nothing has spoiled it, what the client has read and what the
  socket holds are one run of numbers that ends at the last event.
* **Directives.** One tick is in flight, every row it has still to look at is armed,
  and while no action has failed all before the present one were executed. The
  watcher's flag is set only while that tick is in flight (`WatcherInv`); an
  execution that the row does not yet tell of is booked with the tick about to write
  it, or was lost to a fault (`SinglesAreBooked`).

### What the refuted statements need

A run that refutes a statement shows one way to break it. These theorems say what
every way has in common: they prove the statement from a hypothesis about the
schedule, which the system does not enforce and many of its behaviours meet.

* `RevokedRowDiesInTurn`: where one handler works at a time, none fails and every
  restart reads the chain from its start (`HandledInTurn`), `RevokedRowIsDead`
  holds, however often logs come again. The handler of a revocation needs nothing
  else than its turn.
* `SinglesAreOnce`: a directive of one action executes it once, and once more per
  fault. Without a failed write or a restart, only directives of several actions
  execute an action again.
* `ToolsGoWithTheirAgent`: if no agent stops while a tick of it awaits its snapshot
  or its tools (`ToolsReadInTime`), and no start finishes while another agent runs
  or the eviction is still to come (`StartsAreAlone`), `StoppedToolsAreGone` holds:
  the cache is the active record's, or about to be emptied (`CacheIsOfActive`).
* `BaselineFollowsRuns`: if every resume finds that a pass has seen the agent not
  running (`ResumesAreSeen`) and no agent leaves "running" under a waiting pass
  (`StaysForThePass`), `BaselineIsOfThisRun` holds. Each of the two hypotheses
  here, as of the two above, is needed: TLC refutes the property under the other.
* `SeizedPositionsAreBelow`: a seized vault with a position of at least one unit of
  maintenance is below `liquidation_check`'s threshold. Only vaults without one are
  seized against the repository's README.

`signer_epoch` is a liveness property, and has no such theorem.

### How data is reasoned about

The models write sums, loops and cuts with the folds of the community modules. What
a fold computes is shown by induction over a finite set (`FiniteInduction`: the good
subsets are all subsets if the empty one is good and one more element keeps a good
one good) or up to a bound (`InductionUpTo`, `LoopExists`), so that no library
theorem with an operator parameter is needed. From there on proofs cite `SumUpdate`
(a sum changes by what one cell changes), `SumOfParts`, `ListedSum` and
`RoundedParts`, and never unfold a fold.

### The compositions

In a run of components side by side, `subject` selects the one that moves. For the
backend and for most of the timelocks each component sees the steps of the others as
stuttering, or as ticks of the clock they share, so that a behaviour of the run is a
behaviour of every component (`EveryPartBehaves`, `OthersBehave`) and the
component's theorem carries over. Where a component starts differently under another
subject, or two share state (the poster submits to the attestor, exchanges and vault
share the adapters), an invariant of the composition does it: `PolicyAndStakeInv`,
`TimelocksInv`, `CustodyInv`. `MCSpec` has no fairness and none is used.

Some theorems state properties that no run repeats, since the runs spend their time
on other questions: `DisputeHoldsStake`, `RevokedStaysExpired`, `BurnedRulesStand`,
`CounterKeptExact`, `ResumeTimelock`, `OnlyRunningAgentsPropose`, and those of the
backend about waiting and about the refuted statements, whose invariants TLC checked
on the constants of the runs before they were proved. Others (`ServedIsSigned`,
`TrailKept`, `DeskShortBySwaps`, `LpSupplyHeld`, `LpValueKept`, `DexBacked`,
`SidesBacked`, `VaultValueKept`, `AmountsListed`) are the component's share of a
property that a run states of all components together.

## 6. Model-checked only

* The liveness properties `CallsReturn`, `UnansweredProposalsEnd`, `ArmedEnds` and
  `QueueDrains`: temporal reasoning under fairness is beyond the provers at hand.
  What could leave them without a step to take is excluded by proof. No call waits
  for a promise that nobody will settle (`WaitsAreForWorkers`), and its steps go
  forward only (`CallsAdvance`); an unanswered row has its timer
  (`UnansweredHaveTimers`); a queued delivery has a drain (`NothingStaysQueued`);
  the watcher's flag is set only while a tick will clear it (`FlagFollowsTick`).
  `NothingIsStranded` states this of the run. That fair steps are then taken, and
  end, is left to TLC.
* `ExitSurvives` uses `ENABLED`, which they do not treat either. `ExitStaysOpen`
  proves it with the new values of the step as an explicit witness: that
  `WithdrawTo`, with everything else unchanged, is `Withdraw` is the lemma
  `WithdrawIsThisStep`. What TLC adds is that `ENABLED` means just that.
* The six refuted statements, by nature.
* That the bounds of section 3 are enough is not a theorem; the theorems do not need
  it.

## 7. Divergences noticed while modelling

Beside those refuted in runs, the code and a text of the repository disagree in the
following places. The models follow the code.

* `Erc7715PolicyAuditFacet.sol:32-36` describes rotation as one batch of revoke and
  install; lines 237-238 let only the factory install, and once per token, so the
  batch reverts.
* `test/integration/Erc7715GrantFlow.t.sol:206` says "Validator + hook both observe
  the revoked policy."; the validator's cache is refreshed only by `syncPolicy`,
  which no facet calls.
* `Erc7715GrantFlow.t.sol:130` expects operations that reach the daily cap exactly
  to pass; the hook adds the operation to a counter that `validateUserOp` has
  already advanced (`PrimeAgentPreExecHook.sol:258`).
* After the NFT is burned nobody can revoke or pause the agent any more: its policy
  stands until it expires (`BurnedRulesStand`).
* `IEmergencyShutdown.sol:86` calls `emergencyShutdownRange` a chunked variant of
  `emergencyShutdown`, which invalidates a pending resume; during a shutdown the
  chunk leaves it standing.
* `IEmergencyShutdown.sol:110-111` says that `liquidate` reverts when nothing is
  seized; it returns zero.
* `ILiquidationExecutor.sol:109` says that `isLiquidatable` answers whether
  `liquidate` would succeed; it ignores registration, role and streams.
* `WithdrawNeverPausable.t.sol:97` says that a withdrawal within `maxWithdraw`
  succeeds; `maxWithdraw` counts engine collateral the vault does not hold.
* `basket.rs:13-15` expects raw balances scaled to Q96.48; `AgentVault.sol:306`
  passes them unscaled and shifts the result once more.
* `ArbitrumOneAdapter.openPerp` and `closePerp` move the vault's base asset through
  `pullSideBalance` and `pushSideBalance`, which refuse it (`AgentVault.sol:162`,
  `186`), so both revert against a real vault; the adapter's unit test mocks a vault
  whose `asset()` is another token.
* `runtime.ts:18`: "starting an already-running agent returns its existing record".
  Two starts that cross at the awaits of the first make two records, each with live
  cron tasks, and `stopAgent` reaches the last only.
* `loop.ts:670-673`: the check after the invocation "prevents a posthumous proposal
  from a stopped agent". The status is per token, so a stop and a new start within
  the invocation let the old record's reply through.
* `runtime.ts:25`: the halts "are terminal; stop is implied". A pause or a resume
  overwrites them, and a liquidated agent's cron tasks run on.
* `agentProposalsRoutes.ts:270-272`: "The proposal still expires on its own timer."
  Reserving the row cleared that timer, and `pruneExpiredProposals` has no caller: a
  row rolled back to pending ends only if somebody asks for it.
* `rhChainSwapExecutor.ts:451-454`: see `Settle` in section 2.2.
* A receipt that takes longer than 60 seconds counts as a failure; the row goes back
  to pending, although the swap may still land. The contract's nonce does not
  prevent a second approval from swapping again.
* `riskCallbacks.ts` promises an action after "three consecutive near-call readings
  within 30 seconds"; its window slides from the last near call, and a poll that
  fails or reads nothing does not reset the count (not modelled).
* `reputationFeedback.ts` sends its transaction before it writes the row that would
  stop it from being sent again (not modelled).

## 8. Not modelled

The repository has some 48,000 lines of implementation. The models cover those in
which several steps or several actors can go wrong together; by far the most of the
rest is of four kinds that have no state machine to model faithfully.

* The web application (about 21,000 lines) renders what the backend serves and signs
  what the user confirms. Its event-stream client, which has a protocol, is modelled
  in `EventStream`.
* The backend's REST routes, schemas, ABIs, reports, statistics, simulator and PDF:
  each request reads, formats and answers, or calls one of the modelled operations.
* `quic_arithmetic`, `risk_engine`, the V3 tick walk, `basket.rs` beyond the sum
  that `AgentVault` uses: fixed-point and 512-bit arithmetic, whose questions are
  numeric and not of states.
* Deployment scripts, configuration and generated bindings.

Of the parts with a protocol, these are left out:

* `AgentRegistry` and the ERC-8004 registries: bindings written once per fresh id,
  and append-only feedback.
* The MCP client pool (nothing takes a client out of it), its rate limiter (a
  sequential loop around one call) and the Redis order keys (only stub tools take
  one).
* SIWE sessions, the paymaster routes, the fleet coordinator, the 5-second risk
  poll, the reputation poster, the price-point indexer, the health check and the
  cleanup crons.
* Of modelled components: the NFT's URI and operator set, beacon upgrades, the
  engine's initialisation and 256-bit overflow, swap planning and pricing.

## 9. Plan

1. `PolicyIndexer` over the events of `PolicyFacets` in place of a log of its own.
2. The risk poll with `AgentRuntime`, and SIWE nonces, in a run of their own or in
   place of a property that is proved.
3. Conditional theorems in the manner of `RevokedRowDiesInTurn` for the divergences
   of section 7 that no run states.
