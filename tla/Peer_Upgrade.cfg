SPECIFICATION FairSpec
CONSTANTS
    Clients <- MCClients
    Dials <- MCDials
    Preferred = {2}
    Trickling = {1}
    Late = TRUE
    MaxUpgrades <- TwoByFirst
    MaxBreaks = 1
    Leavers = {2}
INVARIANTS
    TypeOK
    OneTransportPerPeer
PROPERTIES
    NeverReplacesItself
    EndedGoes
CHECK_DEADLOCK FALSE
