SPECIFICATION FairPollerSpec
CONSTANTS
    openclaw = openclaw
    unyolo = unyolo
    Client <- TwoClients
    MaxId = 4
    PageLimit = 2
    SafetyWindow = 0
    Configs <- TightConfigs
    StreamId = {1, 2, 3}
    Unparsable = {}
    MaxSent = 1
PROPERTIES
    PauseEnds
