SPECIFICATION RLSpec
CONSTANTS
    e1 = e1
    e2 = e2
    e3 = e3
    Entities = {e1, e2, e3}
    Bounded = {e1, e2}
    None = None
    Cells = 2
    CullThreads = {render, w1}
    Render = render
    Passes <- MCPasses
    MaxEntities = 2
    UIPass = "ui"
    Accepts <- MCAccepts
INVARIANTS
    CullExact
    QueuesFromOneCull
PROPERTIES
    CompletionReported
CHECK_DEADLOCK FALSE
