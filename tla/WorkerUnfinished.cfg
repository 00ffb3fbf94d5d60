SPECIFICATION Spec
CONSTANTS
    Workers = {w1}
    Tasks = {t1}
    Contracted = {t1}
    Ttl = 2
    MaxLeft = 3
    MaxFailures = 2
INVARIANT ExecutedIsFinished
CHECK_DEADLOCK FALSE
