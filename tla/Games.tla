------------------------------- MODULE Games --------------------------------
(***************************************************************************)
(* The catalog and order engine, pallets/games/src/lib.rs.  The checks of *)
(* primitives/src/types.rs and validate.rs come from Validation.          *)
(*                                                                         *)
(* State (the pallet's storage):                                          *)
(*   publishedGames   PublishedGames: <<publisher, gameId>> -> details    *)
(*   publisherOrders  PublisherOrders: <<publisher, gameId>> -> buyer     *)
(*   buyerOrders      BuyerOrders: <<buyer, publisher, gameId>> -> deposit*)
(*                    (OrderDetails is the single field deposit)           *)
(*   ownedGames       OwnedGames: the set of <<buyer, publisher, gameId>> *)
(* The Tags map is written once at genesis and only read for membership:  *)
(* it is the constant TagIds.  The publisher registry is the one the      *)
(* runtime wires in as PublisherManager, so Games extends Publish.        *)
(***************************************************************************)
EXTENDS Publish, Validation, TLC

CONSTANTS
    GamePayment,        \* HoldReason::GamePayment
    GameIds,            \* GameId values (u16, only ever used as keys)
    GameDetailsInputs   \* details a publisher may pass to game_add

ASSUME GamePayment \in HoldReasons /\ GamePayment # PublisherDepositReason

VARIABLES
    publishedGames,
    publisherOrders,
    buyerOrders,
    ownedGames

gamesVars == <<publishedGames, publisherOrders, buyerOrders, ownedGames>>

GameKeys == Accounts \X GameIds            \* GlobalGameId
OrderKeys == Accounts \X Accounts \X GameIds  \* <<buyer, publisher, gameId>>

GamesTypeOK ==
    /\ DOMAIN publishedGames \subseteq GameKeys
    /\ \A k \in DOMAIN publishedGames : publishedGames[k] \in GameDetailsInputs
    /\ DOMAIN publisherOrders \subseteq GameKeys
    /\ \A k \in DOMAIN publisherOrders : publisherOrders[k] \in Accounts
    /\ DOMAIN buyerOrders \subseteq OrderKeys
    /\ \A k \in DOMAIN buyerOrders : buyerOrders[k] \in Nat
    /\ ownedGames \subseteq OrderKeys

-----------------------------------------------------------------------------
(* Storage helpers.                                                       *)

(* StorageDoubleMap::insert: adds or overwrites the entry at key.         *)
Insert(map, key, value) == (key :> value) @@ map

(* StorageDoubleMap::remove: removing an absent key changes nothing.      *)
RemoveKey(map, key) == Restrict(map, DOMAIN map \ {key})

GamesInit ==
    /\ publishedGames = <<>>
    /\ publisherOrders = <<>>
    /\ buyerOrders = <<>>
    /\ ownedGames = {}

-----------------------------------------------------------------------------
(* Variant without the is_valid_publisher check: any account may list.  *)
GameAddAnyCaller(publisher, gameId, details) ==
    /\ <<publisher, gameId>> \notin DOMAIN publishedGames
    /\ IsValidGameDetailsWith(details, TagIds)
    /\ publishedGames' = Insert(publishedGames, <<publisher, gameId>>, details)
    /\ UNCHANGED <<publisherOrders, buyerOrders, ownedGames, ledgerVars, publishVars>>

(* Variant without the GameAlreadyExists check: re-listing overwrites.   *)
GameAddOverwrite(publisher, gameId, details) ==
    /\ IsValidPublisher(publisher)
    /\ IsValidGameDetailsWith(details, TagIds)
    /\ publishedGames' = Insert(publishedGames, <<publisher, gameId>>, details)
    /\ UNCHANGED <<publisherOrders, buyerOrders, ownedGames, ledgerVars, publishVars>>

(* game_add: the caller must be a registered publisher, the game id must  *)
(* be new for that publisher and the details valid.  No funds move.       *)
GameAdd(publisher, gameId, details) ==
    /\ IsValidPublisher(publisher)
    /\ <<publisher, gameId>> \notin DOMAIN publishedGames
    /\ IsValidGameDetailsWith(details, TagIds)
    /\ publishedGames' = Insert(publishedGames, <<publisher, gameId>>, details)
    /\ UNCHANGED <<publisherOrders, buyerOrders, ownedGames, ledgerVars, publishVars>>

(* game_buy, Free arm: ownership only.                                    *)
BuyFree(buyer, publisher, gameId, dist) ==
    /\ dist.kind = "Free"
    /\ ownedGames' = ownedGames \cup {<<buyer, publisher, gameId>>}
    /\ UNCHANGED <<publisherOrders, buyerOrders, ledgerVars>>

(* Variant of the Instant arm passing Preservation::Expendable.           *)
BuyInstantExpendable(buyer, publisher, gameId, dist) ==
    /\ dist.kind = "Instant"
    /\ TransferExpendable(buyer, publisher, dist.price)
    /\ ownedGames' = ownedGames \cup {<<buyer, publisher, gameId>>}
    /\ UNCHANGED <<publisherOrders, buyerOrders>>

(* game_buy, Instant arm: pay the publisher, then record ownership.       *)
BuyInstant(buyer, publisher, gameId, dist) ==
    /\ dist.kind = "Instant"
    /\ TransferPreserve(buyer, publisher, dist.price)
    /\ ownedGames' = ownedGames \cup {<<buyer, publisher, gameId>>}
    /\ UNCHANGED <<publisherOrders, buyerOrders>>

(* game_buy, Individual arm: hold the price, record the order under both  *)
(* indexes.  PublisherOrders has one slot per game, so this insert         *)
(* replaces any other buyer's entry for the same game.                     *)
BuyIndividual(buyer, publisher, gameId, dist) ==
    /\ dist.kind = "Individual"
    /\ Hold(GamePayment, buyer, dist.price)
    /\ buyerOrders' = Insert(buyerOrders, <<buyer, publisher, gameId>>, dist.price)
    /\ publisherOrders' = Insert(publisherOrders, <<publisher, gameId>>, buyer)
    /\ UNCHANGED ownedGames

(* Variant without the check that the buyer does not own the game yet.   *)
GameBuyNoOwnedCheck(buyer, publisher, gameId) ==
    /\ <<buyer, publisher, gameId>> \notin DOMAIN buyerOrders
    /\ <<publisher, gameId>> \in DOMAIN publishedGames
    /\ LET dist == publishedGames[<<publisher, gameId>>].distribution
       IN  \/ BuyFree(buyer, publisher, gameId, dist)
           \/ BuyInstant(buyer, publisher, gameId, dist)
           \/ BuyIndividual(buyer, publisher, gameId, dist)
    /\ UNCHANGED <<publishedGames, publishVars>>

(* game_buy: reject an order already placed, a game already owned and an  *)
(* unknown game, in that order; then dispatch on the distribution.        *)
GameBuy(buyer, publisher, gameId) ==
    /\ <<buyer, publisher, gameId>> \notin DOMAIN buyerOrders
    /\ <<buyer, publisher, gameId>> \notin ownedGames
    /\ <<publisher, gameId>> \in DOMAIN publishedGames
    /\ LET dist == publishedGames[<<publisher, gameId>>].distribution
       IN  \/ BuyFree(buyer, publisher, gameId, dist)
           \/ BuyInstant(buyer, publisher, gameId, dist)
           \/ BuyIndividual(buyer, publisher, gameId, dist)
    /\ UNCHANGED <<publishedGames, publishVars>>

(* Variants of order_cancel: the release left out; the game's            *)
(* PublisherOrders slot left behind; the buyer's whole GamePayment hold   *)
(* released instead of the order's deposit.                               *)
OrderCancelNoRelease(buyer, publisher, gameId) ==
    LET key == <<buyer, publisher, gameId>>
    IN  /\ key \in DOMAIN buyerOrders
        /\ buyerOrders' = RemoveKey(buyerOrders, key)
        /\ publisherOrders' = RemoveKey(publisherOrders, <<publisher, gameId>>)
        /\ UNCHANGED <<publishedGames, ownedGames, publishVars, ledgerVars>>

OrderCancelKeepsIndex(buyer, publisher, gameId) ==
    LET key == <<buyer, publisher, gameId>>
    IN  /\ key \in DOMAIN buyerOrders
        /\ ReleaseBestEffort(GamePayment, buyer, buyerOrders[key])
        /\ buyerOrders' = RemoveKey(buyerOrders, key)
        /\ UNCHANGED <<publisherOrders, publishedGames, ownedGames, publishVars>>

OrderCancelReleaseAll(buyer, publisher, gameId) ==
    LET key == <<buyer, publisher, gameId>>
    IN  /\ key \in DOMAIN buyerOrders
        /\ ReleaseBestEffort(GamePayment, buyer, held[buyer][GamePayment])
        /\ buyerOrders' = RemoveKey(buyerOrders, key)
        /\ publisherOrders' = RemoveKey(publisherOrders, <<publisher, gameId>>)
        /\ UNCHANGED <<publishedGames, ownedGames, publishVars>>

(* order_cancel, called by the buyer: release the deposit best-effort and *)
(* remove the order from both indexes.                                    *)
OrderCancel(buyer, publisher, gameId) ==
    LET key == <<buyer, publisher, gameId>>
    IN  /\ key \in DOMAIN buyerOrders
        /\ ReleaseBestEffort(GamePayment, buyer, buyerOrders[key])
        /\ buyerOrders' = RemoveKey(buyerOrders, key)
        /\ publisherOrders' = RemoveKey(publisherOrders, <<publisher, gameId>>)
        /\ UNCHANGED <<publishedGames, ownedGames, publishVars>>

(* Variant of order_fulfill leaving the order in BuyerOrders.           *)
OrderFulfillKeepsOrder(publisher, gameId, buyer) ==
    LET key == <<buyer, publisher, gameId>>
    IN  /\ key \in DOMAIN buyerOrders
        /\ TransferOnHoldBestEffort(GamePayment, buyer, publisher, buyerOrders[key])
        /\ publisherOrders' = RemoveKey(publisherOrders, <<publisher, gameId>>)
        /\ ownedGames' = ownedGames \cup {key}
        /\ UNCHANGED <<buyerOrders, publishedGames, publishVars>>

(* Variant of order_fulfill passing Precision::Exact: the hold must cover *)
(* the whole deposit.                                                     *)
OrderFulfillExact(publisher, gameId, buyer) ==
    LET key == <<buyer, publisher, gameId>>
    IN  /\ key \in DOMAIN buyerOrders
        /\ held[buyer][GamePayment] >= buyerOrders[key]
        /\ TransferOnHoldBestEffort(GamePayment, buyer, publisher, buyerOrders[key])
        /\ buyerOrders' = RemoveKey(buyerOrders, key)
        /\ publisherOrders' = RemoveKey(publisherOrders, <<publisher, gameId>>)
        /\ ownedGames' = ownedGames \cup {key}
        /\ UNCHANGED <<publishedGames, publishVars>>

(* order_fulfill, called by the publisher: move the held deposit to the   *)
(* publisher best-effort, remove the order, record ownership.             *)
OrderFulfill(publisher, gameId, buyer) ==
    LET key == <<buyer, publisher, gameId>>
    IN  /\ key \in DOMAIN buyerOrders
        /\ TransferOnHoldBestEffort(GamePayment, buyer, publisher, buyerOrders[key])
        /\ buyerOrders' = RemoveKey(buyerOrders, key)
        /\ publisherOrders' = RemoveKey(publisherOrders, <<publisher, gameId>>)
        /\ ownedGames' = ownedGames \cup {key}
        /\ UNCHANGED <<publishedGames, publishVars>>

GamesNext ==
    \/ \E p \in Accounts, g \in GameIds, d \in GameDetailsInputs : GameAdd(p, g, d)
    \/ \E b, p \in Accounts, g \in GameIds : GameBuy(b, p, g)
    \/ \E b, p \in Accounts, g \in GameIds : OrderCancel(b, p, g)
    \/ \E b, p \in Accounts, g \in GameIds : OrderFulfill(p, g, b)

=============================================================================
