SPECIFICATION FairSpec
CONSTANTS
    Addr = {1, 2, 3}
    NextToWrite <- MCNextToWrite
    JoinAccepted = FALSE
    Blocks = {}
    Me = 3
    Tasks = {t1, t2}
    Amounts = {1}
    Careful = TRUE
    Reliable = TRUE
    Messages <- HonestMessages
    Confirmations <- HonestConfirmations
    Settlements <- TrioSettled
    FirstFork = 0
    P2pTime = 1
    AgreementTime = 0
    ChainFallbackTime = 2
    TolerancePast = 0
    ToleranceFuture = 0
    MaxTime = 1
    MaxFork = 0
    MaxNumber = 3
    MaxPosted = 0
PROPERTIES
    EarlyConfirmationsCount
CHECK_DEADLOCK FALSE
