CONSTANTS
    Main = Main
    Loader = Loader
    MaxRequests = 2
SPECIFICATION FairSpec
CHECK_DEADLOCK FALSE
PROPERTIES
    ShutdownWakesLoop
