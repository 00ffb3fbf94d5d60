SPECIFICATION Spec
CONSTANTS
    MaxTasks = 2
    Workable = {1, 2}
    MaxLinks = 2
    Clients = {c1}
PROPERTY ClaimsAwaitDependencies
CHECK_DEADLOCK FALSE
