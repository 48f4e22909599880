SPECIFICATION Spec
CONSTANTS
    Addr = {1, 2, 3}
    NextToWrite <- MCNextToWrite
    JoinAccepted = FALSE
    Blocks <- TrioBlocks
    Founders = {{1, 2, 3}}
    Honest = {2}
    Punctual = FALSE
    StopsSigning = FALSE
    ProofKinds = {"FoldRechallenge", "DoubleSign", "IncorrectData", "NewerState", "BlockTooFarInFuture"}
    ClaimedStates <- WithoutOne
    P2pTime = 1
    AgreementTime = 0
    ChainFallbackTime = 0
    ChallengeTime = 1
    ThisAddress = 99
    MaxFork = 3
    MaxTime = 3
    MaxVotes = 2
    MaxProofs = 1
    MaxSignatures = 3
    MaxPosted = 1
INVARIANTS
    LatestForkIsSettlement
    ForksInOrder
    ChallengesArePaidFor
PROPERTIES
    ForksAreImmutable
    SlashedForCause
CHECK_DEADLOCK FALSE
