-------------------------- MODULE MC_LedgerEnv ------------------------------
EXTENDS LedgerEnv

CONSTANTS a1, a2, a3, g1, PD, GP, pdOk, pdBad

MCAccounts == {a1, a2, a3}
MCHoldReasons == {PD, GP}
MCGameIds == {g1}
MCInitialBalance == [a \in MCAccounts |-> 4]
MCPublisherDetails == {pdOk, pdBad}
MCValidPublisherDetails == {pdOk}
MCTagIds == {0}
MCNonEmptyStrings == {"game"}
MCValidCids == {"Qm"}

(* Paid games priced below ED, and one invalid input.                    *)
MCGameDetailsInputs ==
    { [name |-> "game", tags |-> <<0>>, distribution |-> [kind |-> "Instant", price |-> 1, cid |-> "Qm"]],
      [name |-> "game", tags |-> <<0>>, distribution |-> [kind |-> "Individual", price |-> 1]],
      [name |-> "game", tags |-> <<>>,  distribution |-> [kind |-> "Individual", price |-> 0]] }

MCSymmetry == Permutations(MCAccounts)

=============================================================================
