CONSTANTS
    FramesInFlight = 2
    PassGroups <- MCPassGroups
    SwapchainGroup = "UI"
    AcquireResults = {"success", "out_of_date", "suboptimal"}
    MaxFrames = 5
SPECIFICATION FairSpec
CHECK_DEADLOCK FALSE
INVARIANTS
    AcquireClean
