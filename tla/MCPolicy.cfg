SPECIFICATION Spec
CONSTANTS
    Id = {"openclaw", "unyolo", "gone", "Bad Id"}
    GoodId = {"openclaw", "unyolo", "gone"}
    String <- Strings
    Token = {"t0", "t1", "t2"}
    Files <- AllFiles
    Raws <- SomeRaws
INVARIANTS
    TargetsFit
    PrefixesNeedData
    OwnedByFirst
    TokensTell
    FitToRun
CHECK_DEADLOCK FALSE
