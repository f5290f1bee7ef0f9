---------------------------- MODULE Notifications ---------------------------
(***************************************************************************)
(* The events the two pallets deposit, and an external observer that      *)
(* rebuilds the marketplace from them (spec section 6: an append-only     *)
(* event log consumed by external observers, exactly one event per         *)
(* successful extrinsic).                                                 *)
(*                                                                         *)
(* Each action here is a dispatchable of Liganite together with the event *)
(* it deposits.  The observer is not code of this repository: it applies  *)
(* each event in the order the runtime deposits it, the way an indexer    *)
(* reading System::Events would.                                          *)
(***************************************************************************)
EXTENDS Liganite

VARIABLES
    seenPublishers,  \* publishers announced by PublisherAdded
    seenGames,       \* <<publisher, gameId>> announced by GameAdded
    seenOrders,      \* open orders according to the events
    seenOwned        \* ownership according to the events

observerVars == <<seenPublishers, seenGames, seenOrders, seenOwned>>

allVars == <<vars, observerVars>>

-----------------------------------------------------------------------------
(* Events (Event<T> of each pallet).                                      *)

PublisherDepositUpdated(deposit) ==
    [kind |-> "PublisherDepositUpdated", deposit |-> deposit]

PublisherAdded(publisher) == [kind |-> "PublisherAdded", publisher |-> publisher]

OrderEvent(kind, buyer, publisher, gameId) ==
    [kind |-> kind, buyer |-> buyer, publisher |-> publisher, game_id |-> gameId]

(* game_buy: GamePurchased with the content id for Free and Instant,      *)
(* OrderPlaced for Individual.                                            *)
BuyEvent(buyer, publisher, gameId) ==
    LET dist == publishedGames[<<publisher, gameId>>].distribution
    IN  IF dist.kind = "Individual"
        THEN OrderEvent("OrderPlaced", buyer, publisher, gameId)
        ELSE [OrderEvent("GamePurchased", buyer, publisher, gameId) EXCEPT !.cid = dist.cid]

(* Variant of order_fulfill depositing the cancellation event.            *)
FulfillEventAsCancel(buyer, publisher, gameId) ==
    OrderEvent("OrderCancelled", buyer, publisher, gameId)

(* order_fulfill deposits OrderFulfilled only (the GamePurchased event is *)
(* a TODO in the code).                                                   *)
FulfillEvent(buyer, publisher, gameId) ==
    OrderEvent("OrderFulfilled", buyer, publisher, gameId)

-----------------------------------------------------------------------------
(* The observer.                                                          *)

OrderKeyOf(e) == <<e.buyer, e.publisher, e.game_id>>

(* The key of e when e is one of kinds, as a set.                         *)
KeyIf(e, kinds) == IF e.kind \in kinds THEN {OrderKeyOf(e)} ELSE {}

Observe(e) ==
    /\ seenPublishers' = seenPublishers \cup
          (IF e.kind = "PublisherAdded" THEN {e.publisher} ELSE {})
    /\ seenGames' = seenGames \cup
          (IF e.kind = "GameAdded" THEN {<<e.publisher, e.game_id>>} ELSE {})
    /\ seenOrders' = (seenOrders \cup KeyIf(e, {"OrderPlaced"}))
                        \ KeyIf(e, {"OrderCancelled", "OrderFulfilled"})
    /\ seenOwned' = seenOwned \cup KeyIf(e, {"GamePurchased", "OrderFulfilled"})

ObserverInit ==
    /\ seenPublishers = {}
    /\ seenGames = {}
    /\ seenOrders = {}
    /\ seenOwned = {}

-----------------------------------------------------------------------------
(* Dispatchables with their events.                                       *)

DepositSetN(deposit) ==
    /\ DepositSet(deposit) /\ UNCHANGED gamesVars
    /\ Observe(PublisherDepositUpdated(deposit))

PublisherRegisterN(publisher, details) ==
    /\ PublisherRegister(publisher, details) /\ UNCHANGED gamesVars
    /\ Observe(PublisherAdded(publisher))

GameAddN(publisher, gameId, details) ==
    /\ GameAdd(publisher, gameId, details)
    /\ Observe([kind |-> "GameAdded", publisher |-> publisher, game_id |-> gameId])

GameBuyN(buyer, publisher, gameId) ==
    /\ GameBuy(buyer, publisher, gameId)
    /\ Observe(BuyEvent(buyer, publisher, gameId))

OrderCancelN(buyer, publisher, gameId) ==
    /\ OrderCancel(buyer, publisher, gameId)
    /\ Observe(OrderEvent("OrderCancelled", buyer, publisher, gameId))

OrderFulfillN(publisher, gameId, buyer) ==
    /\ OrderFulfill(publisher, gameId, buyer)
    /\ Observe(FulfillEvent(buyer, publisher, gameId))

NotifInit == Init /\ ObserverInit

NotifNext ==
    \/ \E d \in DepositValues : DepositSetN(d)
    \/ \E a \in Accounts, details \in PublisherDetailsInputs : PublisherRegisterN(a, details)
    \/ \E p \in Accounts, g \in GameIds, d \in GameDetailsInputs : GameAddN(p, g, d)
    \/ \E b, p \in Accounts, g \in GameIds :
          GameBuyN(b, p, g) \/ OrderCancelN(b, p, g) \/ OrderFulfillN(p, g, b)

NotifSpec == NotifInit /\ [][NotifNext]_allVars

-----------------------------------------------------------------------------
(* Properties.                                                            *)

(* The event stream tells the whole story: an observer that applies the   *)
(* events in order knows exactly the registered publishers, the listed    *)
(* games, the open orders and the ownership records in storage.  Every    *)
(* state change of every dispatchable must be announced by the right      *)
(* event, and no event may announce a change that did not happen.        *)
ObserverInSync ==
    /\ seenPublishers = publishers
    /\ seenGames = DOMAIN publishedGames
    /\ seenOrders = DOMAIN buyerOrders
    /\ seenOwned = ownedGames

=============================================================================
