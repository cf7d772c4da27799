SPECIFICATION TUSpec
CONSTANTS
    Textures = {t1, t2, t3}
    None = None
    MaxSlots = 3
    Keys = {wood}
    Targets = {screen}
    Callers = {loader, main}
    TargetCallers = {main}
    GPU = gpu
    MaxCalls = 2
    ArraySize = 3
INVARIANTS
    SlotsNotShared
    HandlesAgree
    UploadedOnce
PROPERTIES
    BindingKept
    RegistryContract
    EventuallyShown
