------------------------- MODULE MC_Notifications ---------------------------
EXTENDS Notifications

CONSTANTS a1, a2, a3, g1, PD, GP, pdOk, pdBad

MCAccounts == {a1, a2, a3}
MCHoldReasons == {PD, GP}
MCGameIds == {g1}
MCInitialBalance == [a \in MCAccounts |-> 4]
MCPublisherDetails == {pdOk, pdBad}
MCValidPublisherDetails == {pdOk}
MCTagIds == {0}
MCNonEmptyStrings == {"game"}
MCValidCids == {"Qm"}

(* One valid game per distribution and one invalid input.                 *)
MCGameDetailsInputs ==
    { [name |-> "game", tags |-> <<0>>, distribution |-> [kind |-> "Free", cid |-> "Qm"]],
      [name |-> "game", tags |-> <<>>,  distribution |-> [kind |-> "Instant", price |-> 2, cid |-> "Qm"]],
      [name |-> "game", tags |-> <<0>>, distribution |-> [kind |-> "Individual", price |-> 2]],
      [name |-> "",     tags |-> <<0>>, distribution |-> [kind |-> "Individual", price |-> 2]] }

MCSymmetry == Permutations(MCAccounts)

=============================================================================
