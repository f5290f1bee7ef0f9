---------------------------- MODULE MC_Liganite -----------------------------
EXTENDS Liganite

CONSTANTS a1, a2, a3, g1, g2, PD, GP, pdOk, pdBad

MCAccounts == {a1, a2, a3}
MCHoldReasons == {PD, GP}
MCGameIds == {g1}

(* Two accounts with two games each: a buyer holds several orders at once. *)
MCAccounts2 == {a1, a2}
MCGameIds2 == {g1, g2}
MCInitialBalance2 == [a \in MCAccounts2 |-> 4]
MCSymmetry2 == Permutations(MCAccounts2)

(* Three accounts that can each afford one paid purchase.               *)
MCInitialBalance3 == [a \in MCAccounts |-> 3]
MCDepositValues == {0, 2}
MCPublisherDetails == {pdOk, pdBad}
MCValidPublisherDetails == {pdOk}
MCTagIds == {0}
MCNonEmptyStrings == {"game"}
MCValidCids == {"Qm"}
MCInitialBalance == [a \in MCAccounts |-> 4]

Game(name, tags, dist) == [name |-> name, tags |-> tags, distribution |-> dist]

(* One valid game per distribution, plus one input failing each check of  *)
(* GameDetails::is_valid.                                                 *)
MCGameDetailsInputs ==
    { Game("game", <<0>>, [kind |-> "Free", cid |-> "Qm"]),
      Game("game", <<>>,  [kind |-> "Instant", price |-> 2, cid |-> "Qm"]),
      Game("game", <<0>>, [kind |-> "Individual", price |-> 2]),
      Game("",     <<0>>, [kind |-> "Individual", price |-> 2]),
      Game("game", <<0, 9>>, [kind |-> "Individual", price |-> 2]),
      Game("game", <<>>,  [kind |-> "Free", cid |-> "bad"]),
      Game("game", <<>>,  [kind |-> "Instant", price |-> 0, cid |-> "Qm"]),
      Game("game", <<>>,  [kind |-> "Individual", price |-> 0]) }

(* The paid distributions only, with one invalid input.                  *)
MCGameDetailsPaid ==
    { Game("game", <<0>>, [kind |-> "Instant", price |-> 1, cid |-> "Qm"]),
      Game("game", <<0>>, [kind |-> "Individual", price |-> 1]),
      Game("game", <<>>,  [kind |-> "Individual", price |-> 0]) }

MCSymmetry == Permutations(MCAccounts)

(* Deposits root may set, all positive.                                   *)
MCPositiveDeposits == {2}

=============================================================================
