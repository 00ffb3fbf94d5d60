CONSTANTS
    Tasks = {t1}
    LeaseIds = {l1, l2}
    Procs = {p1}
    TTL = 1
    MaxLeft = 2
    MaxFaults = 0
    None = None
SPECIFICATION ServerSpec
PROPERTY ReleasedTaskIsRequeued
