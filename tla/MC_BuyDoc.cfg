CONSTANTS
    a1 = a1
    a2 = a2
    a3 = a3
    g2 = g2
    g1 = g1
    PD = PD
    GP = GP
    pdOk = pdOk
    pdBad = pdBad
    Accounts <- MCAccounts2
    HoldReasons <- MCHoldReasons
    ED = 1
    PublisherDepositReason = PD
    DepositValues <- MCDepositValues
    GenesisDeposit = 1
    PublisherDetailsInputs <- MCPublisherDetails
    ValidPublisherDetails <- MCValidPublisherDetails
    GamePayment = GP
    GameIds <- MCGameIds2
    TagIds <- MCTagIds
    NonEmptyStrings <- MCNonEmptyStrings
    ValidCids <- MCValidCids
    GameDetailsInputs <- MCGameDetailsPaid
    InitialBalance <- MCInitialBalance2
SPECIFICATION Spec
SYMMETRY MCSymmetry2
PROPERTY
    BuyPaysPublisher
