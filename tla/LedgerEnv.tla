----------------------------- MODULE LedgerEnv ------------------------------
(***************************************************************************)
(* The marketplace inside its ledger: besides the two pallets, every       *)
(* account may call the balances pallet's own transfers at any time.      *)
(* transfer_keep_alive is TransferPreserve; transfer_allow_death may take *)
(* an account below ED, which reaps it: the rest is dust, and the runtime *)
(* burns it (DustRemoval = () in runtime/src/configs/mod.rs).  An account *)
(* with a hold has a consumer reference and cannot be reaped, so its      *)
(* transfer keeps ED back like Preserve.                                  *)
(***************************************************************************)
EXTENDS Liganite

CONSTANT TransferAmounts   \* amounts users transfer

(* transfer_allow_death(dest, amount), signed by source.                  *)
TransferAllowDeath(source, dest, amount) ==
    LET remaining == free[source] - amount
        reaped    == TotalHeld(source) = 0 /\ remaining < ED
    IN  /\ source # dest
        /\ IF TotalHeld(source) > 0 THEN amount <= ReducibleBalance(source)
                                    ELSE amount <= free[source]
        /\ CanDeposit(dest, amount)
        /\ free' = [free EXCEPT ![source] = IF reaped THEN 0 ELSE remaining,
                                ![dest] = @ + amount]
        /\ UNCHANGED held

UserTransfer ==
    /\ \E s, d \in Accounts, x \in TransferAmounts :
          TransferAllowDeath(s, d, x) \/ TransferPreserve(s, d, x)
    /\ UNCHANGED <<publishVars, gamesVars>>

EnvNext == Next \/ UserTransfer

EnvSpec == Init /\ [][EnvNext]_vars

-----------------------------------------------------------------------------
(* Properties.                                                            *)

(* Every open order can be fulfilled: order_fulfill pays the deposit into *)
(* the publisher's free balance, and crediting an account that no longer  *)
(* exists fails when the amount is below ED.  A registered publisher's    *)
(* bond is a hold that keeps its account alive; an account without one    *)
(* can be emptied by transfer_allow_death, and its Individual orders below *)
(* ED could then never be fulfilled, only cancelled.                      *)
OrdersFulfillable ==
    \A k \in DOMAIN buyerOrders : ENABLED OrderFulfill(k[2], k[3], k[1])

=============================================================================
