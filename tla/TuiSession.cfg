SPECIFICATION FairSpec
CONSTANTS
    Ids = {r1, r2}
    r1 = r1
    r2 = r2
    NoRun = NoRun
INVARIANTS
    TypeOK
    ConfirmIsSelected
    NeverStuck
PROPERTIES
    DestroyWasAsked
    TargetWasShown
    LiveCloses
