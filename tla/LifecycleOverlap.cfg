SPECIFICATION FairSpec
CONSTANTS
    Operators = {op1, op2}
    Runs = {r1}
    Pids = {p1}
    op1 = op1
    op2 = op2
    r1 = r1
    p1 = p1
    NoRun = NoRun
    NoPid = NoPid
    Commands = {"create", "stop", "destroy", "list"}
    Overlap = TRUE
    MaxCuts = 1
INVARIANTS
    RunningIffPid
    SeedIsReal
PROPERTIES
    CommandsEnd
    StopKills
