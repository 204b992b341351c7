SPECIFICATION Spec
CONSTANTS
    Operators = {op1, op2}
    Runs = {r1, r2}
    Pids = {p1, p2, p3}
    op1 = op1
    op2 = op2
    r1 = r1
    r2 = r2
    p1 = p1
    p2 = p2
    p3 = p3
    NoRun = NoRun
    NoPid = NoPid
    Commands = {"create", "start", "stop", "destroy", "status", "list"}
    Overlap = FALSE
    MaxCuts = 1
SYMMETRY Symmetry
INVARIANTS
    TypeOK
    PidBelongsToRun
    Accounted
    AtMostOneActive
    Listed
    DestroyOnlyDead
    DestroyIsFinal
PROPERTIES
    ImplementsService
