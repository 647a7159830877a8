SPECIFICATION FairRecoverySpec
CONSTANTS
    openclaw = openclaw
    Client <- OneClient
    MaxId = 3
    PageLimit = 1
    SafetyWindow = 1
    Configs <- RoomyConfigs
    StreamId = {0, 1, 2}
    Unparsable = {}
    MaxSent = 1
    MaxRestores = 1
INVARIANTS
    OnlyRestoresLose
    RestoredIsSound
PROPERTIES
    EventuallyAccounted
