SPECIFICATION ToolsSpec
CONSTANTS
    openclaw = openclaw
    unyolo = unyolo
    Client <- TwoClients
    MaxId = 4
    PageLimit = 2
    SafetyWindow = 0
    Configs <- SafetyConfigs
    StreamId = {0, 1, 2, 3, 4}
    Unparsable = {2}
    MaxSent = 2
INVARIANTS
    PollerInv
    ConfirmedDurable
    UnparsedIsHeld
PROPERTIES
    RoutedOnceInOrder
