SPECIFICATION MuxSpec
CONSTANTS
    openclaw = openclaw
    unyolo = unyolo
    r1 = r1
    r2 = r2
    Client <- OneClient
    MaxId = 3
    PageLimit = 2
    SafetyWindow = 0
    Configs <- OneConfigs
    StreamId = {1, 2}
    Unparsable = {}
    MaxSent = 0
    Request <- TwoRequests
    NoRequest = NoRequest
    Limits = {1}
    Negatives <- LastAndSmallest
INVARIANTS
    MuxTypeOK
    MuxInv
    NoLoss
    NoLostWakeup
    PageHasNoGap
SYMMETRY RequestSymmetry
PROPERTIES
    NegativeKeepsLast
