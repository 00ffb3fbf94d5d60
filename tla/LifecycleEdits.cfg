CONSTANTS
    Tasks = {t1}
    LeaseIds = {l1, l2, l3}
    Procs = {p1, p2}
    TTL = 1
    MaxLeft = 2
    MaxFaults = 0
    None = None
SPECIFICATION Spec
INVARIANT StatusesAgree
SYMMETRY Symmetry
