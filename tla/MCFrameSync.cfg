CONSTANTS
    FramesInFlight = 3
    PassGroups <- MCPassGroups
    SwapchainGroup = "UI"
    AcquireResults = {"success", "out_of_date", "suboptimal"}
    MaxFrames = 8
SPECIFICATION FairSpec
CHECK_DEADLOCK FALSE
INVARIANTS
    ReusedWhenDone
    HeldOnce
    SignalsIncrease
    FrameSignaled
PROPERTIES
    LoopGoesOn
