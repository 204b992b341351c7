SPECIFICATION Spec
CONSTANTS
    Ids = {r1, r2}
    r1 = r1
    r2 = r2
    NoRun = NoRun
INVARIANT ErrorsAreReported
