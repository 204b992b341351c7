SPECIFICATION Spec
CONSTANTS
    Operators = {op1, op2}
    Runs = {r1}
    Pids = {p1}
    op1 = op1
    op2 = op2
    r1 = r1
    p1 = p1
    NoRun = NoRun
    NoPid = NoPid
    Commands = {"create", "destroy", "status"}
    Overlap = TRUE
    MaxCuts = 0
SYMMETRY Symmetry
INVARIANTS
    DestroyIsFinal
