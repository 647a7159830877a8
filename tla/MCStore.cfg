SPECIFICATION StoreSpec
CONSTANTS
    openclaw = openclaw
    unyolo = unyolo
    Client <- TwoClients
    MaxId = 4
    PageLimit = 2
    SafetyWindow = 1
    Configs <- MCConfigs
INVARIANTS
    StoreTypeOK
    StoreInv
PROPERTIES
    RoutedOnceInWindow
    AcksAreIndependent
    BacklogBound
