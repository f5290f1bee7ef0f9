------------------------------ MODULE Fungible ------------------------------
(***************************************************************************)
(* The ledger collaborator both pallets are configured with               *)
(* (Currency = pallet_balances, runtime/src/configs/mod.rs): the part of   *)
(* the fungible::Mutate and fungible::hold::Mutate contracts that the     *)
(* pallets call.  The ledger itself is not code of this repository; its    *)
(* operations are modelled from the contract the spec gives in section 6. *)
(*                                                                         *)
(* Every account has a spendable (free) balance and one held balance per   *)
(* hold reason.  Holds of the same reason on the same account are one      *)
(* aggregated number: the ledger does not know which order a hold is for. *)
(* Each operation is an action on free and held; it is only taken when    *)
(* the ledger call succeeds, because a failing call reverts the whole     *)
(* extrinsic.                                                              *)
(***************************************************************************)
EXTENDS Naturals, Functions

CONSTANTS
    Accounts,     \* account ids (model values)
    HoldReasons,  \* the RuntimeHoldReason variants
    ED            \* ExistentialDeposit of pallet_balances

ASSUME ED \in Nat \ {0}

VARIABLES
    free,   \* free[a]: spendable balance of account a
    held    \* held[a][r]: balance of a on hold for reason r

ledgerVars == <<free, held>>

LedgerTypeOK ==
    /\ free \in [Accounts -> Nat]
    /\ held \in [Accounts -> [HoldReasons -> Nat]]

TotalHeld(a) == SumFunction(held[a])

NoHolds == [a \in Accounts |-> [r \in HoldReasons |-> 0]]

MinOf(x, y) == IF x <= y THEN x ELSE y

(* What `who` may spend while staying alive (Preservation Preserve or     *)
(* Protect, Fortitude Polite): a live account keeps ED back.               *)
ReducibleBalance(who) == IF free[who] = 0 THEN 0
                         ELSE IF free[who] > ED THEN free[who] - ED ELSE 0

(* can_deposit: a zero credit always succeeds; otherwise the free        *)
(* balance after the credit must reach ED (BelowMinimum).                 *)
CanDeposit(who, amount) == amount = 0 \/ free[who] + amount >= ED

(* hold(reason, who, amount): moves amount from free to held; fails when  *)
(* the account cannot spend that much and stay alive, and when the       *)
(* account does not exist (hold_available: CannotCreateHold).             *)
Hold(reason, who, amount) ==
    /\ free[who] + TotalHeld(who) > 0
    /\ amount <= ReducibleBalance(who)
    /\ free' = [free EXCEPT ![who] = @ - amount]
    /\ held' = [held EXCEPT ![who][reason] = @ + amount]

(* release(reason, who, amount, BestEffort): returns at most what is held *)
(* for reason to the free balance; a shortfall is not an error.           *)
ReleaseBestEffort(reason, who, amount) ==
    LET moved == MinOf(amount, held[who][reason])
    IN  /\ free' = [free EXCEPT ![who] = @ + moved]
        /\ held' = [held EXCEPT ![who][reason] = @ - moved]

(* Variants of TransferPreserve: the balance check dropped, and          *)
(* Preservation::Expendable passed instead of Preserve.                  *)
TransferUnchecked(source, dest, amount) ==
    /\ free' = IF source = dest THEN free
               ELSE [free EXCEPT ![source] = @ - amount, ![dest] = @ + amount]
    /\ UNCHANGED held

TransferExpendable(source, dest, amount) ==
    /\ amount <= free[source]
    /\ free' = IF source = dest THEN free
               ELSE [free EXCEPT ![source] = @ - amount, ![dest] = @ + amount]
    /\ UNCHANGED held

(* transfer(source, dest, amount, Preserve): source must stay alive.      *)
(* A transfer to oneself passes the checks and moves nothing.             *)
TransferPreserve(source, dest, amount) ==
    /\ amount <= ReducibleBalance(source)
    /\ CanDeposit(dest, amount)
    /\ free' = IF source = dest THEN free
               ELSE [free EXCEPT ![source] = @ - amount, ![dest] = @ + amount]
    /\ UNCHANGED held

(* transfer_on_hold(reason, source, dest, amount, BestEffort, Free,       *)
(* Polite): at most the held amount leaves source's hold and lands in     *)
(* dest's free balance.                                                   *)
TransferOnHoldBestEffort(reason, source, dest, amount) ==
    LET moved == MinOf(amount, held[source][reason])
    IN  /\ CanDeposit(dest, moved)
        /\ held' = [held EXCEPT ![source][reason] = @ - moved]
        /\ free' = [free EXCEPT ![dest] = @ + moved]

=============================================================================
