SPECIFICATION FairSpec
CONSTANTS
    Ips = {ip1}
    ip1 = ip1
    Printable = {"panic", "sshd"}
    MaxPolls = 1
    MaxBoots = 2
    NoIp = NoIp
    NoReason = NoReason
INVARIANTS
    TypeOK
    VerdictsFit
    NotMissed
    ExitNoticed
    StaysReady
PROPERTY CommandsEnd
