CONSTANTS
    Rules = {r1}
    Workers = {w1}
    MaxFailures = 1
    Cooldown = 1
    None = None
    Limit <- MCLimit
    Span <- MCSpan
SPECIFICATION FairSpec
PROPERTY HalfOpenSettles
