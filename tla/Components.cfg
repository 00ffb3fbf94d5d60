SPECIFICATION AllSpec
CONSTANTS
    Clients = {c1, c2}
    Buffer = 1
    MaxChanges = 3
    MaxTasks = 3
    Workable = {1}
    MaxLinks = 3
    MaxEvents = 3
    Streams = {s1}
    Limit = 2
    MaxRows = 2
    Jobs = {"plan", "modify"}
    Contracted = {"modify"}
    Ttl = 2
    MaxLeft = 3
    MaxFailures = 1
    Registered = {"agent"}
    Named = {"worker"}
    Threshold = 2
    Editors = {"edit"}
    Contents = {"text", "other"}
    MaxVersions = 4
    MaxVersion = 3
    Repeatable = {1, 3}
    MaxRollbacks = 2
    Summaries = {"summary"}
    Errors = {"error"}
    UserKeys <- MCUserKeys
    MaxMemories = 4
    MaxItems = 1
INVARIANTS
    AllTypes
    AcyclicUnlessLoose
    ChainIsTheAncestry
    SubscribersAreOpen
    NothingElseMissed
    StaleViewsAreDue
    NoWorkIsWasted
    ListsTellSilence
    OneActive
    RecordedIsDone
    TwinsOverlapped
    MandatoryGoLast
PROPERTIES
    MirrorsTasks
    NoInheritedDependencies
\* Every part has an end: its tasks, changes, versions and time are bounded.
CHECK_DEADLOCK FALSE
