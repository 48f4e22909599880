SPECIFICATION Spec
CONSTANTS
    Addr = {1, 2, 3}
    NextToWrite <- MCNextToWrite
    JoinAccepted = TRUE
    Blocks <- PairBlocks
    Founders = {{1, 2}, {1, 2, 3}}
    Honest = {}
    Punctual = TRUE
    StopsSigning = TRUE
    ProofKinds = {"JoinChannel", "DoubleSign", "FoldPriorBlock", "NewerState"}
    ClaimedStates <- WithoutTwo
    P2pTime = 1
    AgreementTime = 0
    ChainFallbackTime = 0
    ChallengeTime = 1
    ThisAddress = 99
    MaxFork = 3
    MaxTime = 2
    MaxVotes = 1
    MaxProofs = 2
    MaxSignatures = 3
    MaxPosted = 0
INVARIANTS
    TypeOK
    ForkAccounting
    ExpelledStayOut
    ClaimantNotSlashed
    JoinersTakePart
    SettlementLosesNobody
PROPERTIES
    DisputeRunsItsCourse
CHECK_DEADLOCK FALSE
