-------------------------- MODULE MC_Benchmarks -----------------------------
EXTENDS Benchmarks

CONSTANTS caller, account0, g1, PD, GP, pdOk, pdBad

MCAccounts == {caller, account0}
MCHoldReasons == {PD, GP}
MCGameIds == {g1}
MCPublisherDetails == {pdOk, pdBad}
MCValidPublisherDetails == {pdOk}
MCTagIds == {0}
MCNonEmptyStrings == {"game"}
MCValidCids == {"Qm"}
MCInitialBalance == [a \in MCAccounts |-> 0]

(* The benchmark games, and one invalid input.                            *)
MCGameDetailsInputs ==
    { [name |-> "game", tags |-> <<0>>, distribution |-> [kind |-> "Free", cid |-> "Qm"]],
      [name |-> "game", tags |-> <<0>>, distribution |-> [kind |-> "Instant", price |-> 2, cid |-> "Qm"]],
      [name |-> "game", tags |-> <<0>>, distribution |-> [kind |-> "Individual", price |-> 2]],
      [name |-> "",     tags |-> <<0>>, distribution |-> [kind |-> "Individual", price |-> 2]] }

=============================================================================
