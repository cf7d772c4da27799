SPECIFICATION PMSpec
CONSTANTS
    lit = lit
    shadow = shadow
    none = none
    phong = phong
    blur = blur
    Keys = {lit, shadow, none}
    Unresolved = none
    Shaders <- MCShaders
    Drawn = {lit}
    Targets = {shadow}
    ComputeTargets = {blur}
    Workers = {w1, w2}
    Render = render
    Loader = loader
INVARIANTS
    CompiledOnce
    LayoutsInUseLive
    NothingLeaks
    TasksInOnePlace
    PendingIsServed
PROPERTIES
    EventuallyCompiled
CHECK_DEADLOCK FALSE
