CONSTANTS
    Tasks = {t1}
    LeaseIds = {l1, l2, l3}
    Procs = {p1, p2}
    TTL = 2
    MaxLeft = 4
    MaxFaults = 1
    None = None
SPECIFICATION UnattendedSpec
INVARIANT TypeOK
INVARIANT UniqueLease
INVARIANT FinishedClosesRun
INVARIANT HalfRequeuedIsPending
PROPERTY FinishedStaysFinished
PROPERTY LeasesImplementLock
SYMMETRY Symmetry
