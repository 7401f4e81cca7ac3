SPECIFICATION OutputSpec
CONSTANTS
    MaxInput = 3
    MaxChunks = 2
    StdinCap = 1
    BufLimit = 1
    OutCap = 1
    MaxLinkCuts = 1
    Loads <- OutLoads
    UpDepth = 1
    DownDepth = 1
    MaxAttempts = 2
    Processes = {1, 2}
    MaxOutput <- OutChunks
    MaxStoreFaults = 2
CHECK_DEADLOCK FALSE
INVARIANTS
    StreamsSafe
    TunnelSafe
    

    
