CONSTANTS
    Tasks = {t1}
    LeaseIds = {l1, l2}
    Procs = {p1}
    TTL = 1
    MaxLeft = 2
    MaxFaults = 1
    None = None
SPECIFICATION PolledSpec
PROPERTY ExpiredLeaseGoes
PROPERTY HalfRequeuedSettles
PROPERTY ClaimableIsTaken
