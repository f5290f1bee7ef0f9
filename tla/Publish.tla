------------------------------ MODULE Publish -------------------------------
(***************************************************************************)
(* The publisher registry, pallets/publish/src/lib.rs.                     *)
(*                                                                         *)
(* State: the PublisherDeposit storage value and the Publishers map.  A    *)
(* publisher's details are only ever read for existence                   *)
(* (is_valid_publisher), so the map is modelled by its key set; the       *)
(* details are abstracted to whether they pass PublisherDetails::is_valid.*)
(* Registration holds the current deposit under HoldReason                *)
(* PublisherDeposit on the shared ledger.                                 *)
(***************************************************************************)
EXTENDS Fungible

CONSTANTS
    PublisherDepositReason,  \* HoldReason::PublisherDeposit
    DepositValues,           \* amounts root may pass to deposit_set
    GenesisDeposit,          \* GenesisConfig::publisher_deposit
    PublisherDetailsInputs,  \* details a caller may pass to publisher_register
    ValidPublisherDetails    \* the inputs for which is_valid() is true

ASSUME PublisherDepositReason \in HoldReasons
ASSUME ValidPublisherDetails \subseteq PublisherDetailsInputs

VARIABLES
    publisherDeposit,  \* PublisherDeposit<T>
    publishers         \* DOMAIN of Publishers<T>

publishVars == <<publisherDeposit, publishers>>

PublishTypeOK ==
    /\ publisherDeposit \in Nat
    /\ publishers \subseteq Accounts

(* PublisherDetails::is_valid: non-empty UTF-8 name and a parseable URL.  *)
IsValidPublisherDetails(details) == details \in ValidPublisherDetails

(* PublisherManager::is_valid_publisher                                   *)
IsValidPublisher(publisher) == publisher \in publishers

(* GenesisConfig::build puts the configured deposit; no publisher exists. *)
PublishInit ==
    /\ publisherDeposit = GenesisDeposit
    /\ publishers = {}

(* deposit_set: root overwrites the deposit.  Publishers already          *)
(* registered keep the bond they paid.                                    *)
DepositSet(deposit) ==
    /\ publisherDeposit' = deposit
    /\ UNCHANGED <<publishers, free, held>>

(* publisher_register: reject an existing publisher and invalid details,  *)
(* hold the current deposit (fails on insufficient funds), then store.    *)
PublisherRegister(publisher, details) ==
    /\ publisher \notin publishers
    /\ IsValidPublisherDetails(details)
    /\ Hold(PublisherDepositReason, publisher, publisherDeposit)
    /\ publishers' = publishers \cup {publisher}
    /\ UNCHANGED publisherDeposit

(* PublisherManager::insert_publisher: stores a publisher with no check  *)
(* and no hold.  No dispatchable reaches it; the games pallet's test      *)
(* genesis and the game_add benchmark use it (see Benchmarks).           *)
InsertPublisher(registry, publisher) == registry \cup {publisher}

PublishNext ==
    \/ \E d \in DepositValues : DepositSet(d)
    \/ \E a \in Accounts, details \in PublisherDetailsInputs :
          PublisherRegister(a, details)

=============================================================================
