SPECIFICATION TUSpec
CONSTANTS
    Textures = {t1, t2, t3, t4}
    None = None
    MaxSlots = 4
    Keys = {wood}
    Targets = {screen}
    Callers = {loader}
    TargetCallers = {}
    GPU = gpu
    MaxCalls = 2
    ArraySize = 4
INVARIANT
    RenderableIsFlushed
