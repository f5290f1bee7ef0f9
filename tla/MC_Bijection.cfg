CONSTANTS
    a1 = a1
    a2 = a2
    a3 = a3
    g2 = g2
    g1 = g1
    PD = PD
    GP = GP
    pdOk = pdOk
    pdBad = pdBad
    Accounts <- MCAccounts
    HoldReasons <- MCHoldReasons
    ED = 1
    PublisherDepositReason = PD
    DepositValues <- MCPositiveDeposits
    GenesisDeposit = 1
    PublisherDetailsInputs <- MCPublisherDetails
    ValidPublisherDetails <- MCValidPublisherDetails
    GamePayment = GP
    GameIds <- MCGameIds
    TagIds <- MCTagIds
    NonEmptyStrings <- MCNonEmptyStrings
    ValidCids <- MCValidCids
    GameDetailsInputs <- MCGameDetailsInputs
    InitialBalance <- MCInitialBalance3
SPECIFICATION Spec
SYMMETRY MCSymmetry
INVARIANT
    OrderIndexBijection
