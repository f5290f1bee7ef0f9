CONSTANTS
    caller = caller
    account0 = account0
    g1 = g1
    PD = PD
    GP = GP
    pdOk = pdOk
    pdBad = pdBad
    Accounts <- MCAccounts
    HoldReasons <- MCHoldReasons
    ED = 1
    PublisherDepositReason = PD
    DepositValues = {0, 2}
    GenesisDeposit = 1
    PublisherDetailsInputs <- MCPublisherDetails
    ValidPublisherDetails <- MCValidPublisherDetails
    GamePayment = GP
    GameIds <- MCGameIds
    TagIds <- MCTagIds
    NonEmptyStrings <- MCNonEmptyStrings
    ValidCids <- MCValidCids
    GameDetailsInputs <- MCGameDetailsInputs
    InitialBalance <- MCInitialBalance
    Caller <- caller
    Account0 <- account0
    BenchGameId <- g1
    BenchPrice = 2
    BenchDeposit = 2
    Prefund = 4
    BenchName = "game"
    BenchCid = "Qm"
    BenchDetails <- pdOk
SPECIFICATION BenchSpec
PROPERTIES
    FulfillPaysDeposit
