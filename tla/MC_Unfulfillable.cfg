CONSTANTS
    a1 = a1
    a2 = a2
    a3 = a3
    g1 = g1
    PD = PD
    GP = GP
    pdOk = pdOk
    pdBad = pdBad
    Accounts <- MCAccounts
    HoldReasons <- MCHoldReasons
    ED = 2
    PublisherDepositReason = PD
    DepositValues = {0}
    GenesisDeposit = 1
    PublisherDetailsInputs <- MCPublisherDetails
    ValidPublisherDetails <- MCValidPublisherDetails
    GamePayment = GP
    GameIds <- MCGameIds
    TagIds <- MCTagIds
    NonEmptyStrings <- MCNonEmptyStrings
    ValidCids <- MCValidCids
    GameDetailsInputs <- MCGameDetailsInputs
    InitialBalance <- MCInitialBalance
    TransferAmounts = {1, 3}
SPECIFICATION EnvSpec
SYMMETRY MCSymmetry
INVARIANT
    OrdersFulfillable
