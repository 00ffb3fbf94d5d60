CONSTANTS
    Tasks = {t1}
    LeaseIds = {l1, l2, l3}
    Procs = {p1, p2}
    TTL = 2
    MaxLeft = 6
    MaxFaults = 0
    None = None
SPECIFICATION UnattendedSpec
PROPERTY HeartbeatNeverShortens
SYMMETRY Symmetry
