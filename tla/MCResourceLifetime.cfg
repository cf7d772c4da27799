SPECIFICATION LTSpec
CONSTANTS
    Main = Main
    Loader = Loader
    MaxRequests = 3
    Textures <- MCTextures
    None = None
    MaxSlots = 3
    Keys <- MCKeys
    k1 = k1
    k2 = k2
    Meshes <- MCMeshes
    Shape <- MCShape
    MeshShapes <- MCMeshShapes
    MaxMeshes = 3
    BytesPerVertex = 3
    VertexPageBytes = 10
    IndexBytes = 2
INVARIANTS
    UploadsSerialized
    DrainedBeforeStop
    SlicesDisjoint
    SlicesInside
    GeometryIntact
    MapsAgree
    SlotsAccounted
    GpuReadsLive
    UploadsTargetLive
    OnlyLostSlotsStay
PROPERTIES
    ServesInOrder
    QueuedIsProcessed
CHECK_DEADLOCK FALSE
