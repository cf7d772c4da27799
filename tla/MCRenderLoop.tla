---- MODULE MCRenderLoop ----
EXTENDS RenderLoop

CONSTANTS e1, e2, e3

MCPasses == <<"shadow", "ui">>

MCAccepts == [shadow |-> {e1}, ui |-> Entities]
====
