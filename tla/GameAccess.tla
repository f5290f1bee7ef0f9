----------------------------- MODULE GameAccess -----------------------------
(***************************************************************************)
(* What the marketplace promises a buyer, without ledger or indexes.      *)
(*                                                                         *)
(* A game, once listed, keeps its distribution kind.  For each buyer and  *)
(* game the buyer's access moves None -> Owned directly for a Free or      *)
(* Instant game, and None -> Pending -> (None | Owned) for an Individual   *)
(* game; Owned is permanent.  Games (the pallet) refines this module      *)
(* under the mapping in Liganite.                                         *)
(***************************************************************************)
EXTENDS TLC

CONSTANTS Buyers, Games

Kinds == {"Free", "Instant", "Individual"}
Access == {"None", "Pending", "Owned"}

VARIABLES
    catalog,  \* listed game -> its distribution kind
    access    \* <<buyer, game>> -> Access

accessVars == <<catalog, access>>

AccessTypeOK ==
    /\ DOMAIN catalog \subseteq Games
    /\ \A g \in DOMAIN catalog : catalog[g] \in Kinds
    /\ access \in [Buyers \X Games -> Access]

AccessInit ==
    /\ catalog = <<>>
    /\ access = [x \in Buyers \X Games |-> "None"]

Step(b, g, from, to) ==
    /\ access[<<b, g>>] = from
    /\ access' = [access EXCEPT ![<<b, g>>] = to]
    /\ UNCHANGED catalog

List(g, kind) ==
    /\ g \notin DOMAIN catalog
    /\ catalog' = (g :> kind) @@ catalog
    /\ UNCHANGED access

Acquire(b, g) ==
    /\ g \in DOMAIN catalog
    /\ catalog[g] \in {"Free", "Instant"}
    /\ Step(b, g, "None", "Owned")

Order(b, g) ==
    /\ g \in DOMAIN catalog
    /\ catalog[g] = "Individual"
    /\ Step(b, g, "None", "Pending")

Cancel(b, g) == Step(b, g, "Pending", "None")

Fulfill(b, g) == Step(b, g, "Pending", "Owned")

AccessNext ==
    \/ \E g \in Games, k \in Kinds : List(g, k)
    \/ \E b \in Buyers, g \in Games :
          Acquire(b, g) \/ Order(b, g) \/ Cancel(b, g) \/ Fulfill(b, g)

AccessSpec == AccessInit /\ [][AccessNext]_accessVars

=============================================================================
