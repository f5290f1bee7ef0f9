----------------------------- MODULE Benchmarks -----------------------------
(***************************************************************************)
(* The benchmarks of both pallets (games/src/benchmarking.rs,             *)
(* publish/src/benchmarking.rs).  Each benchmark writes storage directly   *)
(* (set_balance, insert_publisher, PublishedGames/BuyerOrders/            *)
(* PublisherOrders::insert), then calls one extrinsic and asserts on the   *)
(* storage it leaves.  A setup is an initial state of the marketplace,    *)
(* the benchmarked call together with its assertions is BenchCall, and    *)
(* from the setup the runtime may go on with any extrinsic.               *)
(*                                                                         *)
(* Caller is whitelisted_caller(), Account0 is account("account", 0, 0).  *)
(***************************************************************************)
EXTENDS Liganite

CONSTANTS
    Caller, Account0,  \* the two accounts the benchmarks use
    BenchGameId,       \* game_id 10 (game_add uses 1; only one id matters)
    BenchPrice,        \* the price of every benchmark game
    BenchDeposit,      \* deposit_set's new deposit (1_234)
    Prefund,           \* prefund_account: set_balance(max_value / 2)
    BenchName,         \* a non-empty name
    BenchCid,          \* a valid CID
    BenchDetails       \* valid publisher details

ASSUME /\ Accounts = {Caller, Account0}
       /\ BenchDeposit # GenesisDeposit

VARIABLE bench   \* which benchmark the run started from

benchVars == <<vars, bench>>

BenchNames == {"deposit_set", "publisher_register", "game_add", "buy_free",
               "buy_instant", "order_place", "order_cancel", "order_fulfill"}

(* prefund_account: set_balance to Prefund for the given accounts.        *)
Prefunded(accounts) == [a \in Accounts |-> IF a \in accounts THEN Prefund ELSE 0]

BenchGame(dist) == [name |-> BenchName, tags |-> <<0>>, distribution |-> dist]

(* What every setup starts from: only prefunded balances, no hold, the    *)
(* genesis deposit.                                                       *)
BaseState(funded) ==
    /\ free = Prefunded(funded)
    /\ held = NoHolds
    /\ publisherDeposit = GenesisDeposit

(* buy_free, buy_instant, order_place: a game of Account0 is written into *)
(* PublishedGames (Account0 is not a registered publisher) and the caller *)
(* is prefunded.                                                           *)
SetupBuy(dist) ==
    /\ BaseState({Caller})
    /\ publishers = {}
    /\ publishedGames = <<Account0, BenchGameId>> :> BenchGame(dist)
    /\ publisherOrders = <<>>
    /\ buyerOrders = <<>>
    /\ ownedGames = {}

(* order_cancel: as order_place, with the order written into both indexes *)
(* and no hold placed.                                                    *)
SetupOrderCancel ==
    /\ BaseState({Caller})
    /\ publishers = {}
    /\ publishedGames = <<Account0, BenchGameId>> :>
                           BenchGame([kind |-> "Individual", price |-> BenchPrice])
    /\ publisherOrders = <<Account0, BenchGameId>> :> Caller
    /\ buyerOrders = <<Caller, Account0, BenchGameId>> :> BenchPrice
    /\ ownedGames = {}

(* order_fulfill: the caller is the (unregistered, prefunded) publisher;  *)
(* Account0's order is written into both indexes and nothing is held.     *)
SetupOrderFulfill ==
    /\ BaseState({Caller})
    /\ publishers = {}
    /\ publishedGames = <<Caller, BenchGameId>> :>
                           BenchGame([kind |-> "Individual", price |-> BenchPrice])
    /\ publisherOrders = <<Caller, BenchGameId>> :> Account0
    /\ buyerOrders = <<Account0, Caller, BenchGameId>> :> BenchPrice
    /\ ownedGames = {}

(* The publish pallet's benchmarks: deposit_set from the bare state,      *)
(* publisher_register with the caller prefunded.                          *)
SetupPublish(b) ==
    /\ BaseState(IF b = "publisher_register" THEN {Caller} ELSE {})
    /\ publishers = {}
    /\ GamesInit

(* game_add: the tags are written to Tags (here the constant TagIds) and  *)
(* the caller is put into the registry with insert_publisher, unfunded.   *)
SetupGameAdd ==
    /\ BaseState({})
    /\ publishers = InsertPublisher({}, Caller)
    /\ GamesInit

Setup(b) ==
    CASE b \in {"deposit_set", "publisher_register"} -> SetupPublish(b)
      [] b = "game_add"      -> SetupGameAdd
      [] b = "buy_free"      -> SetupBuy([kind |-> "Free", cid |-> BenchCid])
      [] b = "buy_instant"   -> SetupBuy([kind |-> "Instant", price |-> BenchPrice, cid |-> BenchCid])
      [] b = "order_place"   -> SetupBuy([kind |-> "Individual", price |-> BenchPrice])
      [] b = "order_cancel"  -> SetupOrderCancel
      [] b = "order_fulfill" -> SetupOrderFulfill

(* The publish benchmarks' calls and verify blocks: deposit_set asserts   *)
(* the deposit really changed, publisher_register that the caller is      *)
(* registered.                                                            *)
BenchCallPublish(b) ==
    /\ UNCHANGED gamesVars
    /\ \/ b = "deposit_set" /\ publisherDeposit # BenchDeposit /\ DepositSet(BenchDeposit)
       \/ b = "publisher_register" /\ PublisherRegister(Caller, BenchDetails)
                                   /\ Caller \in publishers'

(* The benchmarked extrinsic and the assertions of its verify block.      *)
BenchCall(b) ==
    LET gk == <<Account0, BenchGameId>>
        order == <<Caller, Account0, BenchGameId>>
    IN
    CASE b \in {"deposit_set", "publisher_register"} -> BenchCallPublish(b)
      [] b = "game_add" ->
            LET d == BenchGame([kind |-> "Instant", price |-> BenchPrice, cid |-> BenchCid])
            IN  GameAdd(Caller, BenchGameId, d)
                /\ publishedGames'[<<Caller, BenchGameId>>] = d
      [] b \in {"buy_free", "buy_instant"} ->
            GameBuy(Caller, Account0, BenchGameId) /\ order \in ownedGames'
      [] b = "order_place" ->
            GameBuy(Caller, Account0, BenchGameId)
            /\ order \in DOMAIN buyerOrders' /\ buyerOrders'[order] = BenchPrice
            /\ gk \in DOMAIN publisherOrders' /\ publisherOrders'[gk] = Caller
      [] b = "order_cancel" ->
            OrderCancel(Caller, Account0, BenchGameId)
            /\ order \notin DOMAIN buyerOrders' /\ gk \notin DOMAIN publisherOrders'
      [] b = "order_fulfill" ->
            LET fk == <<Account0, Caller, BenchGameId>>
            IN  OrderFulfill(Caller, BenchGameId, Account0)
                /\ fk \notin DOMAIN buyerOrders'
                /\ <<Caller, BenchGameId>> \notin DOMAIN publisherOrders'
                /\ fk \in ownedGames'

BenchInit == bench \in BenchNames /\ Setup(bench)

BenchNext == Next /\ UNCHANGED bench

BenchSpec == BenchInit /\ [][BenchNext]_benchVars

-----------------------------------------------------------------------------
(* Properties.                                                            *)

(* Every benchmark runs: in its setup state the benchmarked extrinsic     *)
(* succeeds and the assertions of its verify block hold.  The setups of   *)
(* order_cancel and order_fulfill write an order without holding its      *)
(* deposit, so those two succeed only because release and                *)
(* transfer_on_hold run BestEffort.                                       *)
BenchmarksRun == Setup(bench) => ENABLED BenchCall(bench)

=============================================================================
