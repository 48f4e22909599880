SPECIFICATION Spec
CONSTANTS
    Addr = {1, 2}
    NextToWrite <- MCNextToWrite
    JoinAccepted = FALSE
    Blocks <- ChainBlocks
    Founders = {{1, 2}}
    Honest = {1}
    Punctual = TRUE
    StopsSigning = TRUE
    ProofKinds = {"NewerState"}
    ClaimedStates = {}
    P2pTime = 1
    AgreementTime = 0
    ChainFallbackTime = 0
    ChallengeTime = 1
    ThisAddress = 99
    MaxFork = 3
    MaxTime = 2
    MaxVotes = 2
    MaxProofs = 1
    MaxSignatures = 4
    MaxPosted = 0
INVARIANTS
    HonestNotSlashed
CHECK_DEADLOCK FALSE
