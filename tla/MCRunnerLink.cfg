SPECIFICATION LinkSpec
CONSTANTS
    Sessions = {s1}
    MaxConns = 2
    MaxStarts = 1
    Capacity = 1
    MaxStops = 1
    Cancellable = {s1}
    RtWorkers = {"w1", "w2"}
    StaleCleanup = FALSE
    MaxInstances = 3
    MaxCompFaults = 2
    Managers = {"m1", "m2"}
    MaxDials = 2
    MaxTransfers = 4
    MaxCuts = 3
    Bootstrappers = {1, 2}
    MaxRevision = 3
    MaxBootFaults = 2
    Approvers = {p, q}
    RvIssues = {i, j}
    MaxReviews = 3
    MaxMishaps = 2
CHECK_DEADLOCK FALSE
INVARIANTS
    
    
    
    TransferSafe
PROPERTIES
    BootstrapSafe
    ReviewsSafe
    
