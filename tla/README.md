# TLA+ models of the liganite marketplace pallets

This directory holds TLA+ models of the two FRAME pallets in `src/pallets`:
`publish` (the publisher registry) and `games` (the catalog and order engine).
It also models the part of the `pallet_balances` ledger that the two pallets
call. TLC checks the models against the invariants the spec (`spec.md`) and the
code rely on.

## 1. Inventory

### Components

| Component | Source | State | Operations (state-changing) |
|---|---|---|---|
| Publisher Registry | `pallets/publish/src/lib.rs` | `PublisherDeposit` (value), `Publishers` (account -> details) | `deposit_set` (root), `publisher_register`, genesis `build`, `insert_publisher` (trait fn used by mocks and benchmarks only) |
| Catalog & Order Engine | `pallets/games/src/lib.rs` | `PublishedGames` (publisher, game) -> details; `Tags` (tag id -> tag, genesis only); `PublisherOrders` (publisher, game) -> **one** buyer; `BuyerOrders` (buyer, (publisher, game)) -> `{deposit}`; `OwnedGames` (buyer, (publisher, game)) -> () | `game_add`, `game_buy` (Free / Instant / Individual arms), `order_cancel`, `order_fulfill`, genesis `build` |
| Validation and value types | `primitives/src/types.rs`, `validate.rs` | none | pure predicates `PublisherDetails::is_valid`, `Distribution::is_valid`, `GameDetails::is_valid`, `is_cid`, `is_url`, `is_non_empty_string` |
| Ledger (external) | `pallet_balances`, wired in `runtime/src/configs/mod.rs` | per account: free balance, held balance per hold reason | `hold`, `release` (BestEffort), `transfer` (Preserve), `transfer_on_hold` (BestEffort, Free, Polite) |
| Runtime wiring | `runtime/src/configs/mod.rs` | none | sets `Publish` as the games pallet's `PublisherManager` and `Balances` as the `Currency` of both pallets |
| Benchmarks | `*/benchmarking.rs` | the storage each benchmark writes | each benchmark's setup and call (modelled in `Benchmarks`) |
| Tests | `primitives/src/types.rs` tests | none | the `GameDetails` unit tests (modelled in `TypesTests`) |
| Weights, mocks, `tests.rs`, node | `runtime/src/weights`, `*/weights.rs`, `*/mock.rs`, `*/tests.rs`, `node/` | none | not modelled (metering, test harness and node code) |

### Interaction

- `game_add` calls `PublisherManager::is_valid_publisher`. The runtime makes
  this the publish pallet's storage existence check, so this is shared state
  between the pallets.
- Both pallets move money through the same ledger. `publisher_register` holds
  a bond under `HoldReason::PublisherDeposit`. `game_buy` transfers money
  (Instant) or holds it under `HoldReason::GamePayment` (Individual).
  `order_cancel` releases that hold. `order_fulfill` turns it into a transfer
  to the publisher.
- The ledger keeps **one aggregated held amount per (account, reason)**. It
  does not know which order a hold belongs to. The pallet pays back what the
  order record says.

### What makes it hard

- Nothing runs concurrently. The runtime applies one extrinsic at a time, and
  every extrinsic is transactional: a failing `?` reverts all of its writes.
  What is hard is the **sequences** of calls by several accounts:
  - two buyers ordering the same game;
  - a buyer with several open orders drawing on one aggregated hold;
  - buying again after fulfilment;
  - a listing replaced under an open order;
  - re-registration, or a deposit changed between registrations;
  - purchases at the existential-deposit boundary;
  - a publisher buying its own game.
- Best-effort precision on release and transfer-on-hold hides a shortfall
  instead of failing.

### What makes each component correct

- Registry: only registered accounts can list games, and a registered
  publisher holds its bond (while the deposit is positive).
- Catalog & orders:
  - listings are create-only;
  - an order exists only for an Individual game, and its deposit is that
    game's price;
  - an order and an ownership record for the same buyer and game never exist
    together;
  - the two order indexes describe the same set of orders (spec §3 invariant
    2);
  - ownership is permanent.
- Ledger: for each buyer, the
  GamePayment hold equals the sum of that buyer's open order deposits (spec
  §3 invariant 4). No account is reaped by the pallets' calls.

## 2. Modules

| Module | Models | State (VARIABLES) | Actions |
|---|---|---|---|
| `Fungible` | the ledger contract (spec §6; no source in this repository) | `free`, `held` | operators `Hold`, `ReleaseBestEffort`, `TransferPreserve`, `TransferOnHoldBestEffort`, `ReducibleBalance` |
| `Publish` (extends `Fungible`) | `pallets/publish/src/lib.rs` | `publisherDeposit`, `publishers` | `DepositSet`, `PublisherRegister` |
| `Validation` | `primitives/src/types.rs` `GameDetails::is_valid`, `Distribution::is_valid`, `validate.rs`: the checks as pure operators; the tag iteration as the recursive `AllAccepted` over the tag vector | none (constants `TagIds`, `NonEmptyStrings`, `ValidCids`) | operators only |
| `Games` (extends `Publish`, `Validation`) | `pallets/games/src/lib.rs` | `publishedGames`, `publisherOrders`, `buyerOrders`, `ownedGames` | `GameAdd`, `GameBuy` = `BuyFree` / `BuyInstant` / `BuyIndividual`, `OrderCancel`, `OrderFulfill` |
| `GameAccess` | abstract spec: the per-buyer, per-game lifecycle the marketplace promises | `catalog`, `access` | `List`, `Acquire`, `Order`, `Cancel`, `Fulfill` |
| `Liganite` (extends `Games`) | the runtime: both pallets over one ledger; all properties; the refinement mapping to `GameAccess` | all of the above | `Next == (PublishNext /\ UNCHANGED gamesVars) \/ GamesNext` |
| `Notifications` (extends `Liganite`) | the `Event` enums of both pallets and the `deposit_event` call of each dispatchable; an external observer that applies the events in order (spec §6) | adds `seenPublishers`, `seenGames`, `seenOrders`, `seenOwned`, `delivered` | `DepositSetN`, `PublisherRegisterN`, `GameAddN`, `GameBuyN`, `OrderCancelN`, `OrderFulfillN`: each is the dispatchable's action together with `Observe(event)` |
| `Benchmarks` (extends `Liganite`) | `games/src/benchmarking.rs`, `publish/src/benchmarking.rs`: each benchmark's direct storage writes as an initial state, its extrinsic call with the verify assertions as `BenchCall` | adds `bench` (which benchmark the run started from) | `Setup(b)`, `BenchCall(b)`; after the setup, the runtime's `Next` |
| `LedgerEnv` (extends `Liganite`) | the runtime with the balances pallet's own `transfer_allow_death` (reaping, dust burned: `DustRemoval = ()` in `configs/mod.rs`) and `transfer_keep_alive` as environment steps | as `Liganite` | `EnvNext == Next \/ UserTransfer` |
| `TypesTests` (extends `Validation`) | the `GameDetails` unit tests of `types.rs` (lines 140-209): each test's input, the closure it passes to `is_valid` (as the set of tags it accepts) and its assertion | `test` (the test being run) | `RunTest` |
| `MC_Liganite`, `MC_Notifications`, `MC_Benchmarks`, `MC_LedgerEnv` | model values and small input sets for TLC | | |

How the model corresponds to the code:

- Each action models one dispatchable. Its conjuncts follow the code's
  `ensure!` checks and `?` calls, in the code's order. A failing check or
  ledger call reverts the extrinsic, so it is not a step: a failure is
  modelled as the guard being false.
- The ledger call is part of the action (`Hold(...)`, `TransferPreserve(...)`,
  and so on). The ledger's own checks are therefore part of the guard.
- `Insert` is `StorageDoubleMap::insert` and overwrites an existing entry.
  This is how `PublisherOrders` loses a buyer. `RemoveKey` is `remove`, which
  does nothing when the key is absent.
- Data abstraction:
  - Accounts and game ids are model values.
  - Publisher details are reduced to whether they are valid, because only the
    key of `Publishers` is ever read.
  - Names and CIDs are model strings with a constant set of valid ones.
  - Tags are a sequence over small integers, as the `BoundedVec` is; the
    `Tags` storage is the constant `TagIds`, and the check walks the
    sequence recursively (`AllAccepted`) as `tags.iter().all(..)` does.
  - Prices and balances are small naturals. `Balance` is u128, and overflow
    is out of reach.
- `Fungible` is modelled from the `fungible` traits as `pallet_balances`
  implements them:
  - `hold` and `transfer` with Preserve must leave ED spendable;
  - a zero hold succeeds;
  - a transfer to oneself moves nothing;
  - BestEffort release and transfer-on-hold move `min(amount, held)`;
  - a non-zero credit fails unless the free balance after it reaches ED
    (`CanDeposit`, pallet_balances' `BelowMinimum`);
  - an account that does not exist cannot be given a hold
    (`hold_available`).

## 3. Runs

Runs use `MC_Liganite.tla`, except `notifications`, which uses `MC_Notifications.tla` (same constants, four game inputs), `test_isolation`, which runs `TypesTests.tla` directly, and `benchmarks` and `bench_fulfill`, which use `MC_Benchmarks.tla`. ED = 1 and the genesis publisher deposit is 1.
`deposit_set` takes 0 or 2. Publisher details are one valid and one invalid
input. Game inputs cover one valid game per distribution, plus one input that
fails each check of `GameDetails::is_valid` (empty name, unknown tag, bad CID,
zero Instant price, zero Individual price). Accounts are symmetric: they start
with equal balances and are interchangeable model values, so `SYMMETRY` over
accounts is sound.

| Run | cfg | Bounds | Checks | Result |
|---|---|---|---|---|
| `marketplace` | `MC_Liganite.cfg` | 3 accounts, 1 game id each, balance 4, prices 2 | `TypeOK`, `EscrowMatchesOrders`, `OrderOwnedExclusive`, `OrderDepositIsPrice`, `PublisherOrdersBacked`, `AccountsStayAlive` | pass (429,540 distinct states, about 70 s) |
| `escrow` | `MC_Escrow.cfg` | 2 accounts, 2 game ids each, balance 4, paid games only at price 1 | `EscrowMatchesOrders`, `OrderOwnedExclusive`, `FulfillPaysDeposit` | pass (797,312 states, about 130 s) |
| `bijection` | `MC_Bijection.cfg` | 3 accounts, balance 3, deposits 2 | `OrderIndexBijection` | **violation** in 5 states |
| `notifications` | `MC_Notifications.cfg` | 3 accounts, 1 game id each, balance 4, prices 2, four game inputs, `deposit_set` takes 2 only | `ObserverInSync`, `GameAccessRefined` (`GA!AccessSpec`) | pass (56,233 states, about 45 s) |
| `benchmarks` | `MC_Benchmarks.cfg` | the 8 benchmark setups; accounts `caller` and `account0`; prefund 4, prices 2 | `BenchmarksRun` | pass (3,349 states, seconds) |
| `bench_fulfill` | `MC_BenchFulfill.cfg` | as `benchmarks` | `FulfillPaysDeposit` | **violation** in 2 states |
| `ledger_env` | `MC_LedgerEnv.cfg` | 3 accounts, balance 4, ED 2, paid games at price 1 (below ED), user transfers of 1 or 3, deposits 2 | `OrdersFulfillable` | pass (389,733 states, about 60 s) |
| `unfulfillable` | `MC_Unfulfillable.cfg` | as `ledger_env`, deposits 0 | `OrdersFulfillable` | **violation** in 6 states |
| `buy_doc` | `MC_BuyDoc.cfg` | as `escrow` | `BuyPaysPublisher` | **violation** in 4 states (register, list Individual, buy) |
| `test_isolation` | `MC_TestIsolation.cfg` | the five `GameDetails` unit tests | `TestsIsolateTheirCheck` | **violation** (`tags_are_invalid`) |

Why the bounds are enough:

- Three accounts allow two buyers and a publisher on the same game, which is
  the smallest case of the index overwrite. They also allow a publisher to buy
  from another publisher.
- In `marketplace`, a balance of 4 with prices of 2 lets a buyer register
  (bond 1) and still afford one paid purchase, or make two paid purchases with
  no bond. It reaches both the failing-transfer boundary and the ED boundary.
- `escrow` exists because `marketplace` rarely gives one buyer two open
  orders. With price 1 and two games per publisher, a buyer holds up to three
  orders, and after fulfilment it can afford to buy the same game again.

What the runs show:

- `EscrowMatchesOrders` and `AccountsStayAlive` hold: the GamePayment hold
  of each buyer is exactly the sum of its open orders' deposits, and no call
  of the pallets reaps an account. The best-effort shortfall the spec worries about
  cannot arise from these pallets, because nothing else touches the
  GamePayment hold.
- `OrderDepositIsPrice` and the refinement hold: listings are never replaced
  and ownership is never lost.
- `PublisherOrdersBacked` holds: the publisher index never names a buyer
  without an open order.
- The reverse direction fails (`bijection` run, finding in `PROJECT.json`).
  `PublisherOrders` has one slot per game. A second buyer's order overwrites
  the slot, and any cancel or fulfil of that game removes it. An open order
  can then be invisible from the publisher side. This contradicts spec §3
  invariant 2 and the design note in §9.
- The doc comment of `game_buy` (`games/src/lib.rs:252-256`) says that for
  delayed distribution "the payment is sent to the publisher".
  `BuyPaysPublisher` states that, and it fails (`buy_doc`, finding in
  `PROJECT.json`): the code holds the price from the buyer, which is what
  `EscrowMatchesOrders` certifies and what spec §4 describes
  (hold-now/settle-later). The doc comment is wrong, not the code.
- `deposit_set(0)` would let an account register with no bond. The
  `notifications` run excludes it only to stay within the time limit; the
  refinement does not depend on the bond.
- `ObserverInSync` holds. Every storage change of every dispatchable is
  announced by the event it deposits, so an indexer reading the events in
  order knows the publishers, listings, open orders and ownership exactly.
  This includes the `PublisherOrders` overwrite, which no event reports but
  which also changes nothing an event describes.
- `FulfillPaysDeposit` holds in `escrow`: whenever `order_fulfill` settles
  another buyer's order, the publisher's free balance grows by exactly the
  deposit. This depends on the aggregated GamePayment hold never running
  short, since `transfer_on_hold` is BestEffort and would silently pay less.
  Its mutant releases the buyer's whole hold on one cancel. A later fulfil
  of the buyer's other order then pays nothing.
- `BenchmarksRun` holds: from each benchmark's setup, the benchmarked call
  succeeds and its assertions hold. The property fails if `order_fulfill`
  used `Precision::Exact` (the mutant). The `order_cancel` and
  `order_fulfill` benchmarks write order rows without holding the deposit,
  so they run only thanks to BestEffort.
- `FulfillPaysDeposit` fails from those setups (`bench_fulfill`, finding in
  `PROJECT.json`). `order_fulfill` succeeds and pays the publisher 0. The
  benchmarked fulfil therefore moves no currency, a path the runtime never
  takes.

- `OrdersFulfillable` holds in `ledger_env`: even with users moving money,
  and accounts reaped between the pallets' steps, every open order can be
  fulfilled. Its deposit is below ED, so this works only because a
  registered publisher's bond is a hold, and a hold keeps the account
  alive. The mutant lets any account list a game; an emptied, unregistered
  "publisher" then cannot be paid.
- It fails with `deposit_set(0)` (`unfulfillable`): register with no bond,
  list, take an order, then empty the account with `transfer_allow_death`.
  The dust is burned, and `order_fulfill` fails with BelowMinimum until
  someone credits the publisher at least ED. The buyer can still cancel.

- `TestsIsolateTheirCheck` fails (`test_isolation`, finding in
  `PROJECT.json`). `test_game_details_tags_are_invalid` and
  `test_game_details_distribution_is_invalid` build their details with an
  empty name, so `is_valid` already rejects on the name. With the tag check
  or the price check deleted from `is_valid`, both tests still pass.

Each property of a passing run has a mutant in `PROJECT.json`: a plausible bug
in the modelled code (a dropped check, a missing removal, a wrong amount)
that TLC must catch under the run's own configuration.

## 4. Fairness and liveness

Every step is an extrinsic that some account chooses to submit. Nothing in
the code obliges a publisher to fulfil, or a buyer to cancel, so no fairness
is assumed and no liveness property is claimed. The specifications are
`Init /\ [][Next]_vars`. Deadlock is checked: in every reachable state some
extrinsic can still succeed (`deposit_set` always can).

## 5. Not modelled

- The event log as a sequence, and block boundaries. `Notifications` feeds
  each event straight to the observer, in deposit order, which is the order
  an indexer reads them. The event fields abstract away (the CID is carried
  but not checked).
- The test genesis of both pallets (`mock.rs` `new_test_ext`). The publish
  pallet's only funds accounts; the games pallet's also registers the
  publisher through `insert_publisher`, with no bond, as a test shortcut.
  No question about the system starts from either. The
  `PublisherDetails` tests (a name and a URL check, both external parsers)
  and the `validate.rs` tests, which test those parsers. The weight
  figures the benchmarks produce, and `runtime/src/benchmarks.rs`, which only
  lists the pallets to benchmark.
- Byte-level validation: CID, URL and UTF-8 parsing in external crates.
- Weights, fees, the node, and root's `force_set_balance`. User transfers
  appear only in `LedgerEnv`, where reaping burns dust.
- Properties that would only restate a guard: the bond of a publisher is
  touched by `publisher_register` alone, so "the bond never changes" and
  "every publisher is bonded" say no more than its `PublisherAlreadyExists`
  check and its hold. No property checks total issuance: every ledger
  operator of `Fungible` moves value between cells by construction.

## 6. Plan

Done in the first sitting: the `Fungible`, `Publish` and `Games` modules,
their composition `Liganite`, the escrow and index invariants, the abstract
`GameAccess` with its refinement, and the bijection finding.

Done in the second sitting: `insert_publisher`, and the events with their
observer (`Notifications`, `ObserverInSync`).

Done in the third sitting: the benchmarks (`Benchmarks`, `BenchmarksRun`,
`bench_fulfill` finding), `FulfillPaysDeposit`, the ledger's rule on
crediting empty accounts, and the users' transfers (`LedgerEnv`,
`OrdersFulfillable`, `unfulfillable` finding).

Done in the fourth sitting: `Validation` with the recursive tag check, the
`GameDetails` unit tests (`TypesTests`, `test_isolation` finding). The
refinement check moved into the `notifications` run.

Done in the fifth sitting, after a review against the source:
- the listings keep their tags as a sequence, checked by the recursive
  `AllAccepted` as the code does;
- `CanDeposit` and `Hold` follow `pallet_balances` more closely;
- properties that held by the shape of the model or restated a single guard
  or TODO were removed (`Conservation`, `BondStable`, `PublishersBonded`,
  `OwnedGamesDelivered`, `TagCheckAbstraction`), with their runs;
  `TestsAgree` went with the `TagCheckAbstraction` run, since the five
  tests alone give TLC too few states for a passing run;
- the doc comment of `game_buy` is checked (`buy_doc` finding).

Next sittings:

1. **Ledger environment, continued.** Add root's `force_set_balance`, and
   check `EscrowMatchesOrders` and a dust-aware conservation in `LedgerEnv`.
2. **Events, continued.** `OrderPlaced` and `OrderCancelled` or
   `OrderFulfilled` alternate per order key. This could be stated as a
   property over the observer's history.
3. **Hold shortfall (what-if).** Add a run with an external slash action on
   GamePayment holds. It would show what BestEffort buys: orders stay
   removable (`ENABLED OrderCancel`), and `EscrowMatchesOrders` degrades to
   `<=`.
4. **Registry abstraction.** Add an abstract `Registry` (a set of bonded
   publishers) that `Publish` refines.
