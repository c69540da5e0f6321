CONSTANTS
    Chains <- MCChains
    TestQueries = {"q"}
    Forms <- MCForms
    FirstForm <- Like
    Samplers = {"p1", "p2"}
    RecordIDs = {"", "x"}
    MaxReceipts = 2
    MaxBytes = 7
    MaxEdits = 1
    MaxRecords = 2
    Marks = {"x", "nl", "sq", "dq", ";", "-", "/", "*"}
    MaxText = 5
    Scripts <- MCScripts
    Structured <- MCStructured
    Edited <- MCEdited
    MaxFileEdits = 1
    MaxReviews = 1
    MaxClock = 2
    Versions = {1, 2, 3}
    DesiredLists <- MCDesired
    MaxMoves = 7
    a1 = a1
    a2 = a2
    h1 = h1
    h2 = h2
    low = low
    high = high
    bad = bad
    owned = owned
    None = None
    Attempts <- MCAttempts
    Handles <- MCHandles
    Materials <- MCMaterials
    Blocked <- MCBlocked
    Risky <- MCRisky
    Owned <- MCOwned
    MaxTime = 1
SPECIFICATION Spec
SYMMETRY Symmetry
INVARIANT
    DangerousAlwaysApproved
CHECK_DEADLOCK FALSE
