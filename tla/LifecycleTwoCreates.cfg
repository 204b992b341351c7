SPECIFICATION Spec
CONSTANTS
    Operators = {op1, op2}
    Runs = {r1, r2}
    Pids = {p1, p2}
    op1 = op1
    op2 = op2
    r1 = r1
    r2 = r2
    p1 = p1
    p2 = p2
    NoRun = NoRun
    NoPid = NoPid
    Commands = {"create"}
    Overlap = TRUE
    MaxCuts = 0
SYMMETRY Symmetry
INVARIANTS
    OneVm
