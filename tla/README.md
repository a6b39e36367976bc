# Boundless: market contract and proving pipeline, in TLA+

The repository collects zero-knowledge machine-learning research. Its one large
stateful system is **Boundless** (`boundless/`): a market on which clients buy
zero-knowledge proofs and provers sell them, and **Bento**, the cluster that a
prover runs to make the proofs. The rest (`risc0/`, `proto-neural-zkp/`, the
zkVM experiments and benchmark data) is a vendored zkVM, prototypes and data; it
keeps no state of this system and is left aside.

This directory holds TLA+ models of the parts that carry the protocol, TLC
configurations that check them on small instances, and TLAPS proofs. Paths below
are relative to `boundless/`.

## 1. The system

A client signs a *proof request*: a program, an input and an *offer* (a reverse
Dutch auction with a lock deadline and a final deadline). The request is posted
on chain or to the *order stream*. A prover's *broker* sees it, decides whether it
pays, and **locks** it: the contract takes the price from the client's balance and
collateral from the prover's. The broker has Bento prove it, aggregates the proof
with others into a batch, and submits the batch to the contract, which pays the
prover. If the locker does not deliver in time, anybody may until the request
expires. The locked request is then worth nothing: its client gets the whole lock
price back, and the late prover gets part of the locker's collateral, once the lock
is **slashed**. Another request that the client signed under the same id pays its own
price, out of the lock price as far as that goes.

| Component | State | Operations | Interacts through | What is hard |
|---|---|---|---|---|
| Market contract `contracts/src/BoundlessMarket.sol`, `types/` | balances, collateral balances, two flag bits per request slot, one lock per request id | deposit, withdraw, lock, price, fulfill (3 payment paths), slash | transactions of anybody, callbacks to client contracts | the same escrow is moved by every order of lock, late and repeated delivery, slash; fills are not reverted when they cannot pay; two ids share a slot |
| Offer `contracts/src/types/Offer.sol` | none | `validate`, `priceAt`, `timeAtPrice`, deadlines | the contract and the broker use it | rounding, boundaries, degenerate ramps |
| Task database `bento/crates/taskdb` | jobs, tasks, dependencies, streams (PostgreSQL) | `create_job`, `create_task`, `request_work`, `update_task_{done,failed,retry}`, requeue, repair, cleanup | SQL transactions, READ COMMITTED | dependencies counted in one snapshot and committed in another, write skew, requeued tasks that are still running |
| Bento agents `bento/crates/workflow` | what an agent works on | poll, run, report; the executor creates the task graph while it runs; monitors | the task database | crashes, a retry decision from a stale read |
| Bento API `bento/crates/api` | none | create streams and a job | task database | not one transaction |
| Bento planner `taskdb/src/planner` | tasks, two sets of peaks | enqueue a segment or a keccak proof, finish, next task | executor | an `unreachable!()` in the merge loops, the order of joins, nothing left out |
| Broker `crates/broker` | orders and batches (SQLite), config, chain head | monitor, pick, lock, prove, aggregate, submit, reap | market, Bento, order stream | unconditional status writes of concurrent services, transactions that time out and are mined later |
| Order stream `crates/order-stream` | orders, clients | submit, broadcast | PostgreSQL notifications, websockets | slow or reconnecting clients |
| Slasher `crates/slasher` | last processed block, table of locks | scan a range of blocks in stages, slash | events and transactions of the market | a crash between two stages, replayed blocks, other slashers |
| PoVW contracts `contracts/src/povw` | epochs, work-log commitments, mint recipients | finalize, update, mint | proofs | each unit of work rewarded once |
| Assessor, guests, verifiers | none | verify | | cryptography |
| Indexer, distributor, CLI, order generator | databases of their own | queries and transfers | market | I/O |

`PROJECT.json` lists the components with their status and, under `hazards`, the
lines where the hard behaviour bites, with the property that covers each one.

What makes them correct:

* **Market**: it always holds exactly what it owes, in Ether and in collateral; one
  request is paid at most once; a prover that delivers in time cannot be slashed; a
  client never pays more than it signed, nothing for a slashed lock nobody filled
  and nothing after the lock deadline; collateral never stays locked for ever.
* **Offer**: the price is within the signed bounds, only rises, and `timeAtPrice` is
  the inverse the broker takes it for.
* **Task database and agents**: no task starts before its prerequisites are done; a
  result is final; no task is lost; the job's state tells the truth.
* **Planner**: it never panics, joins only neighbours in the right order, and a
  finished plan covers every proof once.
* **Slasher**: no lock is forgotten, `slash` is never called early, and every lock
  nobody delivered in time is settled.
* **Broker**: it works only on orders it holds the lock of, loses a lock only when the
  job that sent the transaction gave up, failed or died, takes on no more than its capacity,
  calls an order done only after its fulfillment was mined, and every order it took on
  ends. Section 3 lists what the code does not give (orders that come back, a second
  batch after a restart, batches that are dropped).

## 2. Modules

| Module | Models |
|---|---|
| `Offer` | `types/Offer.sol` as pure operators |
| `OfferAuction` | an offer watched block by block; checks `priceAt` against `timeAtPrice` |
| `Totals` | the sum of a function's values without recursion |
| `BoundlessMarket` | the market contract |
| `Escrow` | what the market promises about one lock; `BoundlessMarket` implements it |
| `Slasher` | the slasher service; extends and composes with `BoundlessMarket` |
| `Broker` | the services of the broker on one database, beside a reduced chain |
| `Planner` | the planner of a proving job |
| `TaskDb` | the task database, the agents, the API call |
| `MCBoundlessMarket`, `MCSlasher`, `MCBroker`, `MCTaskDb` | instances for TLC |
| `BoundlessMarketProofs`, `MarketPromiseProofs`, `OfferProofs`, `OfferAuctionProofs`, `SlasherProofs`, `BrokerProofs`, `PlannerProofs`, `TaskDbProofs` | the theorems |

Names ending in `Mutant` are faulty variants of the definition that follows them;
`PROJECT.json` pairs each with the property that rejects it. No specification uses
one.

### Market

State corresponds to storage: `balance`, `collateralBalance` (`Account`),
`lockedFlag`, `fulfilledFlag` (the two bits of `requestFlags`, as sets of slots),
`requestLocks`. `ethHeld`, `tokenHeld` and `burned` are what the contract and
`0xdEaD` hold outside the contract's own books. `delivered`, `charged`, `payments`
and `paidFor` (the request that settled an id) are history that no guard reads.

A *slot* is a client with a request index. `RequestId.clientAndIndex` drops the
smart-contract-signature bit, so two ids can share a slot's flags and still have
locks of their own; the model keeps ids and slots apart for that reason.

| Action | Code |
|---|---|
| `Deposit`, `Withdraw`, `DepositCollateral`, `WithdrawCollateral` | the functions of these names and their variants (`depositTo`, permit, the deposit of `submitRequest`) |
| `LockRequest` | `lockRequest`, `lockRequestWithSignature`, `_lockRequest` |
| `Fulfill` | `fulfill`, `priceAndFulfill` (`priced`), `...AndWithdraw` (`withdraw`); its four disjuncts are the early return for an expired request and `_fulfillAndPay{Locked,WasLocked,NeverLocked}` |
| `Slash` | `slash` |
| `Tick` | `block.timestamp` |

Abstractions:

* A revert is an action that is not enabled.
* Proof and signature verification is external. A fill is for a request the client
  signed, and every request in `Request` is signed.
* One step is one fill. The fills of a batch share only storage and the timestamp,
  and the client callback between two fills may call back into the market, so a
  batch is a run of `Fulfill` steps at one timestamp with anything in between.
  A later fill that reverts undoes the earlier ones; as every prefix is allowed by
  itself, this adds no behaviour.
* The transient context of `priceRequest` lives for one transaction. `priced` says
  whether the transaction priced the request it fills; `FulfillmentContext` is what
  `load` then returns.
* `EthSupply` and `TokenSupply` bound what can be deposited, and are within a
  `uint96`, which is the argument of `Account.sol:16`.
* Admin functions (image URL, upgrade, roles) do not touch this state.

**The abstract specification.** `Escrow` has four variables per id: where the
locker's stake is (none, staked, returned, forfeited), where the client's price is,
the phase of the lock (none, valid, lapsed, request expired) and what the client has
paid on balance. The price is

* *held* after `Lock`;
* *paid* after `DeliverInTime`, the only action that also returns the stake;
* *returned*, all of it, after `DeliverLate`: the locked request was delivered after
  the lock had lapsed and before it expired (`BoundlessMarket.sol:570-572, 595-598`);
* *replaced* after `DeliverOther` or `DeliverUnlocked`: the client pays the price of
  another request under the id, or of one that was never locked;
* *refunded* after `Forfeit` of a lock that nothing settled.

Its actions are the only ways a stake or a price may move. `BoundlessMarket` reads the
four off `requestLocks`, `payments`, `paidFor`, the time and `charged` (`Stake`, `Price`,
`Phase`) and states `EscrowIsKept`: its steps are steps of `Escrow`. The amounts are
part of it, so a client who was to get its money back and did not is told from one who
did. The run `market` checks it, `MarketPromiseProofs` proves it.

### Slasher

`Slasher` extends `BoundlessMarket`: a step is a market transaction of anybody, which
also appends its events to `logs`, or a step of the service. `now` is the block
number. Its tables are `orders` and `lastBlock`; the rest (`pc`, the range, the list of
expired orders, the attempts) is lost when the process ends.

| Action | Code |
|---|---|
| `Start`, `Poll` | `run`: the start block; one turn of the loop, with the range cut to `max_block_range` |
| `ProcessLockedEvents`, `ProcessFulfilledEvents`, `ProcessSlashedEvents` | the stages of `process_blocks`; any part of a stage may be done when it fails |
| `ProcessExpiredRequests`, `SlashRequest` | `process_expired_requests`: the query, then one transaction per order |
| `UpdateLastProcessedBlock` | the end of a range |
| `Fails` | an error at any stage: a retry, or the process ends and is started again; a crash |

Abstractions: a block holds what happens at one `now`; a failing RPC call, database
statement or unconfirmed transaction is a counted fault; the chain does not
reorganise (the code has no provision for it).

### Broker

The services share a SQLite database and nothing else, so a step is a database
statement or transaction, together with what the service does before its next one.
Two runs of statements are merged into one step: `Collect` (`aggregator.rs:516-564`, two
queries and a failure per expired order) and the start of the proving service
(`proving.rs:485-505`, a query and a failure per order without a proof). Another service
can do to these orders right after the step what it could have done in between.
What a service has read and not acted on yet is a variable (`cache`, `job`, `sessions`,
`monitors`, `agg`, `sub`, `reaping`), which `Crash` clears. Statuses are overwritten
without looking at them, as `set_order_failure` and the others do.

| Action | Code |
|---|---|
| `LockedEvent`, `FulfilledEvent` | the market monitor fills the two tables, after any delay |
| `Price` | the picker skips an order or hands it to the order monitor |
| `MonitorBlock`, `Evict` | one block in the order monitor: validity, capacity |
| `LockOrder`, `LockConfirmed`, `LockUnconfirmed`, `AcceptLate`, `AcceptFails` | `lock_and_prove_orders`, `lock_order` |
| `GetProvingOrder`, `CreateSession`, `MonitorEnds`, `ProvingRestart` | the proving service and its tasks |
| `Collect`, `AggregateProofs`, `AggregateFails`, `CompressBatch` | the aggregator |
| `GetCompleteBatch`, `Submit`, `SubmitFails`, `SubmitUnconfirmed`, `SetOrderComplete`, `CompletionFails`, `SetBatchSubmitted`, `SetBatchFailure` | the submitter, with its attempts |
| `SubmitterRestarts` | the errors that end `process_next_batch` while it holds a batch (`submitter.rs:606-611, 616-620, 656-660`) |
| `CheckExpiredOrders`, `ReapOrder` | the reaper: a list, then one order after another |
| `MineLock`, `MineFulfill`, `OtherLocks`, `OtherFulfills` | the chain (external): a transaction may be mined after the broker gave it up |
| `Crash` | the process is killed and started again |

Abstractions: which order is worth proving, gas, collateral and priorities are a free
choice (any order may be skipped); proving succeeds or fails; the chain keeps only who
locked a request and whether it was delivered. Orders that are filled without ever
being locked differ from late ones only in when they are discovered and are left out.

Failing calls are counted faults. Those in the model: what follows the sending of a lock
transaction (`LockUnconfirmed`), the insert of an accepted order (`AcceptFails`, logged as
"FATAL STAKE AT RISK", `order_monitor.rs:548-554`), the final status write of a proving task, which is only
logged, and its last look at the chain, which then counts as "not fulfilled"
(`MonitorEnds`, `proving.rs:437-483`), a database error of the proving service
(`ProvingRestart`), the fetching of a proof (`Submit`), an unconfirmed fulfillment, the call
after a completion (`CompletionFails`) and the three of `SubmitterRestarts`. Errors before a
lock transaction, in the aggregator's proving and in preparing a submission need no
fault: the code skips, tries again or counts an attempt. Other failing statements are not
modelled, short of the crash of the whole process: those of the picker and the reaper, of the
aggregator outside its proving, the insert of a skipped order (no row and a skipped one are
treated alike), and `set_order_complete` and `set_order_failure` of the submitter, which are
logged and leave the order to the reaper. The two branches of
`process_next_batch` for a payment requirement that failed (`submitter.rs:627-644`) are
left out: `validate_fulfill_receipt` only logs these errors, and nothing else makes them.

`abandoned` (orders whose lock job had sent its transaction and ended without the outcome or
without recording it) and `stranded` (batches the submitter dropped) are history that no guard reads;
section 3 says what they are for.

### Planner

`tasks`, `peaks`, `keccakPeaks`, `position` (`consumer_position`) and `lastTask` are the
fields of `Planner`. A loop takes a step per round (`pc`, `top`), during which no other
operation starts. `first` and `last` of a task are history: the range of segments, or
of keccak proofs, that its proof is about.

| Action | Code |
|---|---|
| `EnqueueSegment`, `JoinEqual`, `PushPeak` | `enqueue_segment` and its loop |
| `EnqueueKeccak`, `UnionEqual`, `PushKeccakPeak` | `enqueue_keccak` and its loop |
| `Finish`, `FinishUnions`, `UnionsDone`, `FinishJoins`, `EnqueueFinalize` | `finish`, `finish_unions`, `enqueue_finalize` |
| `NextTask` | `next_task` |

### Task database

One job. `tasks`, `job` and `streams` are the committed rows. A procedure whose
statements see different snapshots (`create_task`, `update_task_done`) is one action
per statement: PostgreSQL gives every statement of a volatile function a new
snapshot under READ COMMITTED. Its own writes become visible at its commit; the row
locks it holds meanwhile are `RowLocks` and `StreamLocks`, functions of the agent's
`pc`. `StreamLocks` comes from the `maint_streams` trigger, which updates the row of
a task's stream whenever the task enters or leaves `ready` or `running`; it is what
serialises two agents that finish tasks of one stream.

| Action | Code |
|---|---|
| `GetOrCreateStreams`, `CreateJob` | the API's `get_or_create_streams`, `create_job` |
| `RequestWork` | `request_work` of migration 5 |
| `GetStreams`, `CreateTask`, `CreateTaskCommit` | the executor, `create_task` |
| `UpdateTaskDone`, `UpdateChildren`, `CountUnresolved`, `UpdateTaskDoneCommit` | `update_task_done` of migration 2 |
| `RunFails`, `ReadRetries`, `UpdateTaskFailed`, `UpdateTaskRetry` | the error path of `poll_work` |
| `RequeueTask`, `FixStuckPendingTasks`, `ClearCompletedJobs` | the three monitors |
| `Crash` | an agent dies, its transaction rolls back |

Abstractions: the proving work is a step that succeeds, fails or is lost; `Plan` and
`Prereqs` stand for what the planner makes the executor create; a task that nobody
works on times out in the end and one that is slow may, as a counted fault; a batch
of requeued tasks is taken one at a time; the KEY SHARE locks of foreign keys, which
only delay other transactions, are left out. A client's request that fails because a
stream has gone is tried again.

## 3. Runs

| Run | Checks | Bounds |
|---|---|---|
| `offer_auction` | every valid offer: `PriceWithinOffer`, `PriceRises`, `TimeAtPriceIsEarliestOnRamp` | prices and times up to 4, starts up to 2: ramps with and without rounding, flat and empty ramps, every boundary |
| `market` | 9 invariants, 2 action properties, the refinement `EscrowIsKept` | 3 addresses, 3 units of each currency, 5 time steps, two requests under one id |
| `market_alias` | `EthSolvency` and `OneLockPerSlot` when two ids share a slot | same, 2 units of Ether |
| `slasher` | `NoLockForgotten`, `SlashNeverEarly`, `OrdersDrain`, `UndeliveredLockSettled` | 2 addresses (one skipped by the service), one request, 6 blocks, ranges of 2, one retry, 2 faults |
| `slasher_unpaid_delivery` | violation of `LockEventuallySettled` | same, no faults |
| `broker` | `CommittedHasOurLock`, `OurLockIsKnown`, `CapacityKept`, `DoneWasMined`, `InOneBatch` | an order to lock and a late one, capacity 1, 3 batches, 2 attempts, one fault, reverts |
| `broker_live` | `OrdersFinish`, `BatchesFinish` | one order, capacity 2 and batches of 2, 2 faults |
| `broker_done` | violation of `DoneIsDelivered` | as `broker`, no faults, no reverts |
| `planner` | `GreaterIsUnreachable`, `JoinsAreInOrder`, `PlanIsComplete`, `JoinTreeIsBalanced` | up to 8 segments and 4 keccak proofs in any order |
| `taskdb` | 4 invariants, `ResultIsFinal`, `TasksFinish` | 4 tasks, 3 streams, 4 agents, 2 faults |
| `taskdb_job_done`, `taskdb_streams` | violations of `JobCompletes`, `NoFailureWithoutFault` | same, no faults |

The module comments state each property next to its definition.

Why the bounds are enough.

* Market: time 1 to 5 covers, for each offer, before, at and after the ramp, the lock
  deadline and the deadline. Request `r2` can still be priced when a lock on `r1` has
  expired, above the price `r1` was locked at, and the client may have less left than
  the difference; `r1` itself is then worth nothing: the three outcomes of
  `_fulfillAndPayWasLocked`. A collateral of 1 makes the burn round. Two aliased requests
  can both be paid for and backed at the same time. The theorems of section 5 lift all
  the safety properties to every instance.
* Slasher: 6 blocks are three ranges, so a lock, its delivery and its expiry fall into
  one range or into different ones; two faults are a crash during the replay of a range
  that a crash interrupted. Prices are zero, since only collateral matters here.
* Broker: time has the three phases that matter (locked, lock lapsed, expired). A late
  order of another kind of proof meets the order to lock in one batch or in two, capacity
  1 makes every second commitment an error, and one fault reaches every pair of a stale
  service and a fresh one. `min_batch_size` is 2, which the code caps at the capacity
  (`aggregator.rs:402-413`): in `broker` a batch is full with one order and a second one
  comes only with another reason to wait or to finalize. Liveness needs two faults (a
  timeout, then a crash) and only one order; its capacity is 2, so that a batch of one
  order is not full and has to be closed by its deadline. Three batches are more than two
  orders fill.
* Planner: 8 and all smaller numbers of segments contain each shape of three peaks, full
  trees and their successors.
* Task database: two executors let a requeued `init` meet its first run, two proofs in
  streams of their own can finish at the same time, `resolve` waits for both, one task
  has no retries, and two faults allow a crash after a premature timeout.

`CHECK_DEADLOCK FALSE`: a market or a broker in which time has reached its bound, a
finished plan and a job that has ended may stop. Symmetry (the two provers) is used only
in the market runs, which check no liveness.

### Findings

* `slasher_unpaid_delivery`: when somebody other than the locker delivers before the lock
  deadline, the contract does not pay and keeps the lock slashable, and
  `BoundlessMarket.t.sol:3294` tests that the locker is then slashed. It also emits
  `RequestFulfilled`, which the slasher takes for the locker's own delivery
  (`slasher/src/lib.rs:423`): the lock leaves its table and nobody slashes it.
  `UndeliveredLockSettled`, in `slasher`, shows that this is the only exception.
* `broker_done`: `validate_fulfill_receipt` only logs that a fill was refused and does not
  look at the receipt's status, so an order whose fulfillment was mined after it expired
  is set to `Done` ("Order has been completed") although nothing was delivered.
* `taskdb_job_done`: two tasks that finish in overlapping transactions each count the
  other as unresolved; all tasks are done and the job stays `running` for ever.
* `taskdb_streams`: the cleanup deletes streams a new job has no task in *yet*; the
  executor then finds no stream and the job fails although nothing went wrong. The
  cleanup of completed jobs is off by default (`disable_completed_cleanup`,
  `workflow/src/lib.rs:165`), so this concerns deployments that turn it on.

What the properties had to leave out, and why, is part of what they show:

* `OurLockIsKnown` excludes, order by order, those whose own lock job had sent its
  transaction and ended without the outcome, or without recording it (`abandoned`: no receipt
  in time, a failing query or insert after it, a crash). Such an order is skipped; a later attempt is a candidate ("Proceeding to prove",
  `order_monitor.rs:512`) but `lock_order` finds it locked and skips it again. Faults of any
  other service, or of another order's job, lose no lock.
* `CapacityKept` excludes orders that were failed or done and whose proof arrived
  afterwards: the monitor's write brings them back on top of the capacity.
* `DoneWasMined` is about orders that are `Done`: a done order that the reaper, or a late
  monitor, overwrites with `Failed` breaks no property.
* `InOneBatch` excludes a restart of the proving service, after which two tasks watch one
  proof and an order may be aggregated twice.
* `BatchesFinish` excludes the batches the submitter dropped (`stranded`): it held them when
  the process died, or when reading the configuration after the batch was taken
  (`submitter.rs:606-611`), `set_batch_submitted` (616-620) or `set_batch_failure` (656-660)
  failed. The last three end the service without a crash; it is started again and looks
  for `Complete` batches only, so the batch stays in `PendingSubmission` for ever. Its orders
  end nevertheless (`OrdersFinish`: the reaper fails those that were not completed).
* `TimeAtPriceIsEarliestOnRamp` excludes `rampUpPeriod = 0`, where the price jumps one
  second after `rampUpStart` and `timeAtPrice` answers `rampUpStart`.
* `finish_unions` merges the keccak peaks from the highest on, so the union tree, unlike
  the join tree of `JoinTreeIsBalanced`, can be up to about twice as deep as a balanced
  one. Nothing in the repository says otherwise.

Comments of the interface that the code contradicts, met while modelling:
`IBoundlessMarket.sol:186` says only the locker can be paid for a locked request, but
after the lock deadline another request under the id pays anybody
(`_fulfillAndPayWasLocked`); `IBoundlessMarket.sol:420`
says `slash` just burns the collateral, but it burns `SLASHING_BURN_BPS` of it. `Escrow`
states what the code does (`DeliverOther`, `Forfeit`).

## 4. Fairness

* Slasher: weak fairness of `Tick` (blocks keep coming) and of `ServiceStep`: the loop
  ticks and the process is started again when it ended. Nobody else has to act, and
  faults are bounded in number, not excluded.
* Broker (`broker_live`): weak fairness of time, of the chain (a transaction that was sent
  is mined in the end) and of each service's loop, per order where the service has a task
  per order. None for the market monitor, the picker, other provers or faults.
* Task database: weak fairness of `Poll` and of the sequence of steps of each agent (a
  loop that runs for ever), of `RequeueTask` for a task nobody works on (the requeue
  monitor and the timeout), and of `FixStuckPendingTasks` (a monitor). No fairness for the
  API, for faults or for the cleanup, which the properties must survive whether it runs or
  not.

## 5. Proofs

For every value of the constants:

| Module | Theorem | Property |
|---|---|---|
| `BoundlessMarketProofs` | `TypeCorrect` | balances within 0..`MaxUint96`: the `unchecked` debits never underflow |
| | `EthIsConserved`, `CollateralIsConserved` | `EthSolvency`, `CollateralSolvency` |
| | `PaymentFollowsDelivery`, `InTimePaymentIsFinal`, `NoDoublePayment` | `PaidImpliesFulfilled`, `PaidInTimeIsFinal`, `AtMostOnePayment` |
| | `ChargesArePaidFor`, `FlagsAreMonotone` | `ChargedOnlyForPayment`, `LockFlagsGrow` |
| `MarketPromiseProofs` | `MarketImplementsEscrow` | `EscrowIsKept`, the refinement |
| | `FulfilledMeansDelivered`, `SlotIsLockedOnce` | `FulfilledIffDelivered`, `OneLockPerSlot` |
| | `ChargesAreBounded`, `DeliveriesAreInTime` | `ChargeWithinMaxPrice`, `NoDeliveryAfterDeadline` |
| `OfferAuctionProofs` | `PriceIsWithinOffer`, `PriceOnlyRises`, `TimeAtPriceIsExact` | `PriceWithinOffer`, `PriceRises`, `TimeAtPriceIsEarliestOnRamp` |
| `SlasherProofs` | `SlasherTypeCorrect`, `LocksAreNotForgotten`, `SlashesAreNotEarly` | `SlasherTypeOK`, `NoLockForgotten`, `SlashNeverEarly` |
| `BrokerProofs` | `BrokerTypeCorrect`, `OrdersAreLocked`, `LocksAreKnown` | `BrokerTypeOK`, `CommittedHasOurLock`, `OurLockIsKnown` |
| | `DoneIsAfterMined`, `CapacityIsKept`, `OrdersAreInOneBatch` | `DoneWasMined`, `CapacityKept`, `InOneBatch` |
| `PlannerProofs` | `PlannerTypeCorrect`, `NeverPanics`, `JoinsInOrder` | `PlannerTypeOK`, `GreaterIsUnreachable`, `JoinsAreInOrder` |
| | `PlansAreComplete`, `JoinTreesAreBalanced` | `PlanIsComplete`, `JoinTreeIsBalanced` |
| `TaskDbProofs` | `QueueTypeCorrect`, `PrerequisitesComeFirst` | `TypeOK`, `PrereqsDoneFirst` |
| | `DoneJobsAreComplete`, `FailuresAgree`, `ResultsAreFinal` | `DoneJobIsComplete`, `FailedJobHasFailedTask`, `ResultIsFinal` |

The only assumptions are those on the constants (the market's `AddressAssumption`,
`RequestAssumption`, `RateAssumption`, `LimitAssumption`: finite sets, well-typed offers, rates
within 100 %, supplies within a `uint96`; `PlannerAssumption`,
`BrokerAssumption`, `SlasherAssumption`: types, a range of at least one block, finitely many
orders; `TaskDbAssumption`: types, and a plan that names every task once, after its
prerequisites), which TLC evaluates in the runs.

**Market.** None of the properties is inductive by itself. `IInv` is
`TypeOK`, the two solvency equations, `SupplyInv` (held and burned tokens within the
supply, so that a deposit cannot exceed it) and for each id

* `LockInv`: an unlocked slot has a zero lock (otherwise `LockRequest` would overwrite
  an escrow), a paid lock is fulfilled, a lock paid in time has no other flag, a late
  payment left a real address to credit, and a slashed lock is empty *and past its
  deadline*. The last part is what makes `setProverPaidBeforeLockDeadline` safe: it
  assigns the flags instead of adding to them and could forget a slashing.
* `ChargeInv`: what the client was charged and how often somebody was paid in each
  state; while a lock is unpaid the charge is exactly its price, so the refund of
  `slash` cannot exceed it.

Solvency sums a function over an arbitrary finite set. `Total` is defined as the
cardinality of a disjoint union, which needs no induction over the set:
`BoundlessMarketProofs` derives from the library's cardinality theorems that changing one value changes the
sum by the difference. The preservation proof has one lemma per action, with shared
lemmas for crediting, paying out and the frame of ids an action does not touch.

**Delivery.** `DInv` adds to `IInv` what a lock remembers of the request that was locked
(`DigestInv`): its deadline, a price within its `maxPrice`, and no price without a digest.
Without it a later fill under the same id could be charged or dated by another request.

**Escrow.** A step changes the lock, the payments, the charge and the settled request of at
most one id (`OneId`), and `DInv` says in which state that id is; `AbstractStep` lists the
changes that are steps of `Escrow`, and one lemma per action shows which of them it makes.
That a late delivery of the locked request charges nothing needs that its price is zero by
then (`WorthNothing`), that only a request with the lock's digest can be delivered in time
(`DeliverableInTime`), and `ChargeInv`.

**Offer.** `OfferProofs` has the arithmetic: floor and ceiling of one quotient are adjoint,
so the ramp, which rounds down, and `timeAtPrice`, which rounds up, invert each other.
`AuctionInv` only says that the offer is a valid one.

**Slasher.** The service acts on a copy of the chain, and `SInv` says what the copy knows. It
extends `DInv`, since every step is a market step or leaves the market alone. A lock once
made keeps its request and its deadlines (`LockStep`), so the row of an order stays what the
lock says (`OrdersMatch`) and an id that was past its deadline when it was read is still past
it (`ExpiredLocks`). `SeenUpTo(b)` is `NoLockForgotten` for the blocks up to `b`; it holds for
the last block in the database, for the blocks before the range and, once the locked events
are processed, for the range itself, whose blocks are *sealed*: no later event falls into
them. That is why the crash of any stage may repeat a range without losing a lock.

**Planner.** `Inv` is about the peaks while the plan grows. Their heights strictly fall, so
that a merge, which makes a peak one higher, leaves the next one at least as high; what
they are about is contiguous from the first segment to the last; and the merge loops keep
both with the peak in hand as the last one. `PlanInv` adds three parts, each kept by a lemma
per action. `Uses`: the tasks without a user are exactly the peaks and the peak in hand, all
different, and every other task has one user; a merge takes two of them and becomes one, so
after `finalize` only the last task is left. `Chains`: the peaks of either kind are about 1 to
the number enqueued, also while `finish_unions` merges from the front and with the operands
swapped. `Heights`: a peak is a full tree of 2^height segments; while `finish` joins, the last
one is a balanced tree at most as high as the full tree before it. That 2^(n+1) = 2^n + 2^n is
derived from the library's theorem on the number of subsets, without induction.

**Broker.** Since statuses are overwritten blindly, no argument about statuses alone works.
`BInv` says what each service holds: every order in a session, a monitor, the aggregator's
hands, a batch, the submitter's hands or the reaper's list was accepted before (`Held`);
an accepted order is never unknown again, and a lock job that reports a lock has it
(`Jobs`). `Receipt` says that the transaction the submitter waits for is pending with the
orders it is about to complete, or was mined. On top of it

* `TypeInv` bounds what is held: an order has at most one monitor and one for each fault, and
  one that was not handed to the prover yet has neither a monitor nor a proof (`Watched`).
* `LockInv`: a lock transaction that may still be mined has a job waiting for it, or its
  order is one whose job was abandoned (`Awaited`).
* Capacity: the orders `CapacityKept` counts only become fewer, except in `MonitorBlock`, which
  takes on as many as are missing; this is a lemma about the whole next-state relation.
* `PlaceInv`: until the proving service is restarted an order is in one place only, watched by
  one monitor, waiting with its proof, in the aggregator's hands or in one batch (`OnePlace`),
  and the submitter works on the orders of the batch it took (`SubmitsBatch`).

The number of crashes, restarts and timeouts is unbounded in the theorems (`MaxFaults` is any
natural number). The proof of `BrokerTypeOK` covers a configuration with no submission
attempt at all (`max_submission_attempts = 0`), which fails each batch at once.

**Task database.** `TInv` is about open transactions. No two of them hold the same row
(`RowsLockedOnce`), so what an agent has read of its rows still holds at its commit
(`AgentInv`). `Waits`: a pending task's `waiting_on` is *at least* the number of its
prerequisites that are not done. Equality would be wrong: a prerequisite that finishes while
the task is being created does not see the task, and its creator counted it; such a task is
stuck until `fix_stuck_pending_tasks` frees it, and is never started early. `JobInv` relates
the state of the job to its tasks. The theorems hold for every plan, every assignment of tasks
to streams and of streams to agents, and any number of faults.

**Only model-checked**: the liveness properties (`OrdersDrain`, `UndeliveredLockSettled`,
`OrdersFinish`, `BatchesFinish`, `TasksFinish`), since fairness is out of the prover's reach,
and the violations of section 3. Every invariant and action property of a run is proved.

## 6. Not modelled

* Proof verification, assessor, guests, verifier contracts, vendored zkVM:
  cryptography and numerics. This is by far the largest part of the repository's code,
  most of it generated (circuit taps and polynomials).
* Indexer, distributor, CLI, order generator, rewards: queries and transfers around
  the market. Order stream: forwards orders, and may lose them by design.
* Of the task database: `update_task_progress`, priorities between the streams of one
  worker type, several jobs, the loss of unlogged tables when PostgreSQL crashes.
* Of the broker: pricing and priorities, orders filled without a lock, the chain monitor,
  configuration, and the failing statements named in section 2.
* PoVW contracts: see the plan.

## 7. Plan

Done: `Offer`, `OfferAuction`, `BoundlessMarket` with `Escrow`, `Slasher`, `Broker`,
`Planner`, `TaskDb`, and the proofs of section 5.

1. Proofs: an abstract work queue (a task is created, taken, finished once) that `TaskDb`
   implements, and an abstract life of an order for `Broker`.
2. `PovwAccounting`: epochs and the chain of work-log commitments; each update is
   counted in one epoch.
3. Task database: crash of PostgreSQL, a requeue of several rows with deadlock abort.
