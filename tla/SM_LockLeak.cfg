SPECIFICATION Spec
CONSTANTS
    Addr = {1, 2}
    NextToWrite <- MCNextToWrite
    JoinAccepted = FALSE
    Blocks = {}
    Me = 2
    Tasks = {t1, t2}
    Amounts = {1}
    Careful = TRUE
    Reliable = TRUE
    Messages <- HostileMessages
    Confirmations <- OwnConfirmed
    Settlements <- PairSettled
    FirstFork = 0
    P2pTime = 1
    AgreementTime = 0
    ChainFallbackTime = 2
    TolerancePast = 0
    ToleranceFuture = 0
    MaxTime = 1
    MaxFork = 0
    MaxNumber = 3
    MaxPosted = 0
INVARIANTS
    LockIsHeld
CHECK_DEADLOCK FALSE
