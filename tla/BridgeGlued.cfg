SPECIFICATION Spec
CONSTANTS
    Scripts = {s1}
    s1 = s1
    gw1 = gw1
    gw2 = gw2
    Gateways = {gw1, gw2}
    NoGateway = NoGateway
    Networks <- MCNetworks
    Confs <- UnterminatedConfs
INVARIANT PassedIsSetUp
