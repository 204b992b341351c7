SPECIFICATION Spec
CONSTANTS
    Scripts = {s1, s2}
    s1 = s1
    s2 = s2
    gw1 = gw1
    gw2 = gw2
    Gateways = {gw1, gw2}
    NoGateway = NoGateway
    Networks <- MCNetworks
    Confs <- MCConfs
SYMMETRY Symmetry
INVARIANTS
    TypeOK
    NoDuplicates
    PassedIsSetUp
    PassedIsAccepted
PROPERTIES
    PingsBridge
