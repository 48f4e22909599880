SPECIFICATION Spec
CONSTANTS
    Addr = {1, 2}
    NextToWrite <- MCNextToWrite
    JoinAccepted = FALSE
    Blocks = {}
    Me = 2
    Tasks = {t1, t2, t3}
    Amounts = {1}
    Careful = FALSE
    Reliable = FALSE
    Messages <- HostileMessages
    Confirmations <- OwnConfirmed
    Settlements <- PairSettled
    FirstFork = 0
    P2pTime = 1
    AgreementTime = 0
    ChainFallbackTime = 2
    TolerancePast = 0
    ToleranceFuture = 0
    MaxTime = 1
    MaxFork = 0
    MaxNumber = 3
    MaxPosted = 1
SYMMETRY TaskSymmetry
INVARIANTS
    TypeOK
    LockDiscipline
    AgreedBlocksExecute
    NeverDoubleSigns
    StandsByItsBlocks
CHECK_DEADLOCK FALSE
