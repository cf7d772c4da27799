SPECIFICATION TFSpec
CONSTANTS
    MaxEntities = 3
    MaxMoves = 1
    DefaultCapacity = 1
INVARIANTS
    BufferHoldsMirror
    UploadInsideBuffer
    DescriptorOnLiveBuffer
PROPERTIES
    DirtyReachesGPU
CHECK_DEADLOCK FALSE
