SPECIFICATION Spec
CONSTANTS
    Addr = {1, 2}
    NextToWrite <- MCNextToWrite
    JoinAccepted = FALSE
    Blocks = {}
    Me = 2
    Tasks = {t1, t2}
    Amounts = {1}
    Careful = FALSE
    Reliable = FALSE
    Messages <- ForkMessages
    Confirmations <- OwnConfirmed
    Settlements <- PairSettled
    FirstFork = 0
    P2pTime = 1
    AgreementTime = 0
    ChainFallbackTime = 0
    TolerancePast = 0
    ToleranceFuture = 0
    MaxTime = 1
    MaxFork = 1
    MaxNumber = 2
    MaxPosted = 1
SYMMETRY TaskSymmetry
INVARIANTS
    ChainInOrder
    TimeoutsAreDue
PROPERTIES
    ImplementsLedger
CHECK_DEADLOCK FALSE
