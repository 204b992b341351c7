SPECIFICATION Spec
CONSTANTS
    Ips = {ip1}
    ip1 = ip1
    Printable = {"panic"}
    MaxPolls = 1
    MaxBoots = 2
    NoIp = NoIp
    NoReason = NoReason
INVARIANT ReadyIsObserved
