------------------------------ MODULE Liganite ------------------------------
(***************************************************************************)
(* The runtime's marketplace: the publish and games pallets over one      *)
(* pallet_balances ledger (runtime/src/configs/mod.rs wires Publish in as *)
(* the games pallet's PublisherManager and Balances as both Currency).    *)
(* The runtime applies extrinsics one at a time and each is transactional,*)
(* so a step of Next is one successful extrinsic of either pallet.        *)
(***************************************************************************)
EXTENDS Games

CONSTANT InitialBalance   \* genesis free balance of every account

ASSUME InitialBalance \in [Accounts -> Nat]

vars == <<ledgerVars, publishVars, gamesVars>>

Init ==
    /\ free = InitialBalance
    /\ held = NoHolds
    /\ PublishInit
    /\ GamesInit

Next == (PublishNext /\ UNCHANGED gamesVars) \/ GamesNext

Spec == Init /\ [][Next]_vars

-----------------------------------------------------------------------------
(* Properties.                                                            *)

TypeOK == LedgerTypeOK /\ PublishTypeOK /\ GamesTypeOK

OrdersOf(buyer) == {k \in DOMAIN buyerOrders : k[1] = buyer}

(* Escrow: what the ledger holds from a buyer under GamePayment is        *)
(* exactly the sum of the deposits of that buyer's open orders.  The      *)
(* ledger aggregates the holds of all a buyer's orders, and order_cancel /*)
(* order_fulfill give back or pay out the deposit read from the order     *)
(* record, so a wrong amount on any path leaves the two apart for good.   *)
EscrowMatchesOrders ==
    \A b \in Accounts :
        held[b][GamePayment] = SumFunctionOnSet(buyerOrders, OrdersOf(b))

(* An open order and an ownership record never exist for the same buyer   *)
(* and game (game_buy's OrderAlreadyPlaced / owned checks together with   *)
(* order_fulfill removing the order as it grants ownership).              *)
OrderOwnedExclusive == DOMAIN buyerOrders \cap ownedGames = {}

(* Every open order is for a listed Individual game and its deposit is    *)
(* that game's price: the catalog entry an order was placed against is    *)
(* never replaced while the order is open.                                *)
OrderDepositIsPrice ==
    \A k \in DOMAIN buyerOrders :
        /\ <<k[2], k[3]>> \in DOMAIN publishedGames
        /\ LET dist == publishedGames[<<k[2], k[3]>>].distribution
           IN  dist.kind = "Individual" /\ buyerOrders[k] = dist.price

(* The publisher index never names a buyer without an open order for that *)
(* game: whoever's order leaves BuyerOrders, order_cancel and             *)
(* order_fulfill drop the game's PublisherOrders slot with it.            *)
PublisherOrdersBacked ==
    \A k \in DOMAIN publisherOrders :
        <<publisherOrders[k], k[1], k[2]>> \in DOMAIN buyerOrders

(* The spec's index bijection (section 3, invariant 2): every open order  *)
(* is found from the publisher side too.  PublisherOrders keeps one buyer *)
(* per game, so this fails once two buyers order the same game.           *)
OrderIndexBijection ==
    /\ PublisherOrdersBacked
    /\ \A k \in DOMAIN buyerOrders :
          /\ <<k[2], k[3]>> \in DOMAIN publisherOrders
          /\ publisherOrders[<<k[2], k[3]>>] = k[1]

(* No account is reaped: the Preserve transfer of game_buy and the holds  *)
(* of game_buy and publisher_register always leave ED spendable.          *)
AccountsStayAlive == \A a \in Accounts : free[a] >= ED

(* Fulfilment pays in full (spec section 7, conservation of the          *)
(* Individual flow): when order_fulfill settles another buyer's order,    *)
(* the publisher's free balance grows by exactly the order's deposit.     *)
(* transfer_on_hold runs BestEffort, so a hold that fell short of the     *)
(* deposit would not fail the call but silently pay less.                 *)
FulfillPaysDeposit ==
    [][\A p, b \in Accounts, g \in GameIds :
          (p # b /\ OrderFulfill(p, g, b))
              => free'[p] = free[p] + buyerOrders[<<b, p, g>>]]_vars

(* The doc comment of game_buy (games lib.rs 249-256): for Instant and  *)
(* for delayed (Individual) distribution "the payment is sent to the      *)
(* publisher" by the purchase itself.  Stated as: a game_buy of a priced  *)
(* game of another account credits its publisher's free balance with the *)
(* price in the same step.                                                 *)
BuyPaysPublisher ==
    [][\A b, p \in Accounts, g \in GameIds :
          LET dist == publishedGames[<<p, g>>].distribution
          IN  (b # p /\ GameBuy(b, p, g) /\ dist.kind # "Free")
                  => free'[p] = free[p] + dist.price]_vars

(* Refinement: the pallets implement GameAccess.  A buyer's access to a   *)
(* game is Pending while BuyerOrders has the order and Owned once         *)
(* OwnedGames has it; the catalog is PublishedGames' distribution kinds.  *)
AccessOf(b, gk) ==
    LET t == <<b, gk[1], gk[2]>>
    IN  IF t \in DOMAIN buyerOrders THEN "Pending"
        ELSE IF t \in ownedGames THEN "Owned" ELSE "None"

GA == INSTANCE GameAccess WITH
        Buyers <- Accounts,
        Games <- GameKeys,
        catalog <- [k \in DOMAIN publishedGames |-> publishedGames[k].distribution.kind],
        access <- [x \in Accounts \X GameKeys |-> AccessOf(x[1], x[2])]

(* Every run of the two pallets is a run of GameAccess: listings are      *)
(* create-only, ownership is never lost, orders exist only for            *)
(* Individual games and end only by cancel (None) or fulfil (Owned).      *)
GameAccessRefined == GA!AccessSpec

=============================================================================
