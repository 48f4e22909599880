SPECIFICATION Spec
CONSTANTS
    Addr = {1, 2, 3}
    NextToWrite <- MCNextToWrite
    JoinAccepted = FALSE
    Blocks <- FourBlocks
    Founders = {{1, 2, 3}}
    Honest = {2}
    Punctual = FALSE
    StopsSigning = FALSE
    ProofKinds = {"DoubleSign", "BlockTooFarInFuture"}
    ClaimedStates = {}
    P2pTime = 1
    AgreementTime = 0
    ChainFallbackTime = 0
    ChallengeTime = 1
    ThisAddress = 99
    MaxFork = 3
    MaxTime = 1
    MaxVotes = 2
    MaxProofs = 1
    MaxSignatures = 4
    MaxPosted = 1
    ToleranceFuture = 0
    Calls = {1}
    Forgeries <- MCForgeries
    Postable <- MCPostable
PROPERTIES
    ChallengesHitTheirTarget
CHECK_DEADLOCK FALSE
