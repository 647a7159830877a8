SPECIFICATION ToolsSpec
CONSTANTS
    openclaw = openclaw
    unyolo = unyolo
    Client <- TwoClients
    MaxId = 3
    PageLimit = 2
    SafetyWindow = 1
    Configs <- EditedConfigs
    StreamId = {0, 1, 3}
    Unparsable = {}
    MaxSent = 1
INVARIANTS
    RestartApplies
