----------------------------- MODULE RenderLoop -----------------------------
(***************************************************************************)
(* RenderTask's frame around an AsyncLoader: the loader builds a scene on a*)
(* worker while the render thread shows its progress, completes on the     *)
(* render thread, and from then on the scene is culled, its components are *)
(* updated and every render pass is filled and recorded each frame.        *)
(*                                                                         *)
(* The render thread reads whether the loader's task is complete three     *)
(* times a frame: to run the complete callback, before the cull and before *)
(* the recording; each read is a step. begin_frame and the submission are  *)
(* FrameSync, the compile tasks PipelineManager, what update_per_frame     *)
(* does is MaterialUpdates and TextureUploads; draw_render_queues draws    *)
(* those items of the queues whose pipeline, mesh and material are ready   *)
(* and changes nothing here. The queues of one pass, one per pipeline, are *)
(* cleared and filled together and are one sequence. A custom render       *)
(* callback, which replaces the recording, is not modelled.                *)
(***************************************************************************)
EXTENDS PrimitiveCull

CONSTANTS Passes,      \* the render passes in the order of their groups
          UIPass,      \* the one of PassGroupId::UI, the last group
          Accepts,     \* pass -> entities: render_pass_primitive_filter_
          Render,      \* the render thread, one of CullThreads
          MaxEntities  \* bound: the entities the loader emplaces

ASSUME RLPasses == /\ Passes \in Seq(DOMAIN Accepts) \ {<<>>} /\ UIPass = Last(Passes)
                   /\ Render \in CullThreads /\ MaxEntities \in Nat

VARIABLES loader,      \* the loader's task: "loading" or "complete"
          task_set,    \* async_loader_task_ is not null
          completed,   \* how often async_complete_fn_ was called
          scene_set,   \* scene_ is not null
          pc,          \* where the render thread is in its loop
          loading,     \* the flag it read last
          to_record,   \* the passes it still has to record this frame
          queues,      \* pass -> draw_call_items
          stopping,    \* GetIsShutdownRequested
          initialized, \* history: the entities whose RenderComponent was set up
          filled_from  \* history: pass -> the visible entities it was last filled from

control == <<loader, task_set, completed, scene_set, stopping>>
frame == <<pc, loading, to_record>>
drawing == <<queues, initialized, filled_from>>
rlVars == <<pcVars, control, frame, drawing>>

PassSet == ToSet(Passes)

\* Some programs set the scene before the loader fills it, others in the
\* complete callback.
RLInit ==
    /\ PCInit
    /\ loader = "loading" /\ task_set = TRUE /\ completed = 0
    /\ scene_set \in BOOLEAN /\ stopping = FALSE
    /\ pc = "poll" /\ loading = TRUE /\ to_record = <<>>
    /\ queues = [p \in PassSet |-> <<>>]
    /\ initialized = {} /\ filled_from = [p \in PassSet |-> {}]

-----------------------------------------------------------------------------
(* The loader.                                                             *)

load_entity(e) ==
    /\ loader = "loading"
    /\ e \notin ToSet(entity_indices) /\ Len(entity_indices) < MaxEntities
    /\ emplace_primitive(e)
    /\ UNCHANGED <<met, results, visible_count, visible, tasks, control, frame, drawing>>

load_grid ==
    /\ loader = "loading" /\ entity_indices # <<>>
    /\ \E cell_of \in [DOMAIN entity_indices -> 1 .. Cells] : build_grid(cell_of)
    /\ UNCHANGED <<met, results, visible_count, visible, tasks, control, frame, drawing>>

\* load() returns at any point: a file may fail, a scene have no grid.
load_complete ==
    /\ loader = "loading" /\ loader' = "complete"
    /\ UNCHANGED <<pcVars, task_set, completed, scene_set, stopping, frame, drawing>>

-----------------------------------------------------------------------------
(* The render thread.                                                      *)

Goto(s) == pc' = s

is_async_loading == task_set /\ loader # "complete"

\* The test at the head of RenderTask::Execute.
leave_loop ==
    /\ pc = "poll" /\ stopping
    /\ Goto("ended")
    /\ UNCHANGED <<pcVars, control, loading, to_record, drawing>>

\* Mutant: the task and the callback stay set.
poll_async_loader_completion_Keeps ==
    /\ pc = "poll" /\ ~stopping
    /\ IF task_set /\ loader = "complete"
       THEN /\ completed' = IF completed = 2 THEN 2 ELSE completed + 1
            /\ scene_set' = TRUE /\ UNCHANGED task_set
       ELSE UNCHANGED <<task_set, completed, scene_set>>
    /\ Goto("test_loading")
    /\ UNCHANGED <<pcVars, loader, stopping, loading, to_record, drawing>>

poll_async_loader_completion ==
    /\ pc = "poll" /\ ~stopping
    /\ IF task_set /\ loader = "complete"
       THEN task_set' = FALSE /\ completed' = completed + 1 /\ scene_set' = TRUE
       ELSE UNCHANGED <<task_set, completed, scene_set>>
    /\ Goto("test_loading")
    /\ UNCHANGED <<pcVars, loader, stopping, loading, to_record, drawing>>

test_loading ==
    /\ pc = "test_loading"
    /\ loading' = is_async_loading
    /\ Goto(IF loading' THEN "begin" ELSE "cull")
    /\ UNCHANGED <<pcVars, control, to_record, drawing>>

\* The ends of cull_scene that do not start the task: no scene; everything is
\* visible, culling being off or the scene having no grid; no cell is visible.
cull_without_task ==
    /\ pc = "cull"
    /\ \/ ~scene_set /\ UNCHANGED visible
       \/ scene_set /\ visible' = entity_indices
       \/ /\ scene_set /\ has_grid
          /\ \E m \in SUBSET Bounded : cull_grids(m, {})
          /\ visible' = <<>>
    /\ Goto("update")
    /\ UNCHANGED <<scene, met, results, visible_count, tasks, control, loading,
                   to_record, drawing>>

cull_visible_primitives_parallel ==
    /\ pc = "cull" /\ scene_set /\ has_grid
    /\ \E m \in SUBSET Bounded, c \in SUBSET DOMAIN grid_cells :
           c # {} /\ cull_grids(m, c) /\ start_cull(m, c)
    /\ Goto("culling")
    /\ UNCHANGED <<control, loading, to_record, drawing>>

cull_wait ==
    /\ pc = "culling"
    /\ commit_visible_results
    /\ Goto("committed")
    /\ UNCHANGED <<control, loading, to_record, drawing>>

\* update_visible_render_components.
update_visible_render_components ==
    /\ pc \in {"update", "committed"}
    /\ initialized' = IF scene_set THEN initialized \cup ToSet(visible) ELSE initialized
    /\ met' = {}
    /\ Goto("begin")
    /\ UNCHANGED <<scene, results, visible_count, visible, tasks, control, loading,
                   to_record, queues, filled_from>>

\* execute_default_render_path: begin_frame, the frame ending here when no
\* image was acquired, and the second read of is_async_loading.
begin_frame ==
    /\ pc = "begin"
    /\ loading' = is_async_loading
    /\ \/ Goto("poll") /\ UNCHANGED to_record
       \/ Goto("record") /\ to_record' = IF loading' THEN <<UIPass>> ELSE Passes
    /\ UNCHANGED <<pcVars, control, drawing>>

\* The loop over the visible entities; the filter decides on each.
Accepted(p) ==
    LET items[n \in 0 .. Len(visible)] ==
            IF n = 0 THEN <<>>
            ELSE IF visible[n] \in Accepts[p] THEN Append(items[n - 1], visible[n])
            ELSE items[n - 1]
    IN  items[Len(visible)]

\* populate_render_pass_queues; the recording of the pass follows. Entities
\* without a material, which clear a queue and are not added, are left out.
\* Mutant: the items of the last frame stay.
populate_render_pass_queues_NotCleared(p) ==
    IF ~scene_set \/ Accepted(p) = <<>>
    THEN UNCHANGED <<queues, filled_from>>
    ELSE /\ queues' = [queues EXCEPT ![p] = IF Len(@) > Cardinality(Entities) THEN @
                                            ELSE @ \o Accepted(p)]
         /\ filled_from' = [filled_from EXCEPT ![p] = ToSet(visible)]

populate_render_pass_queues(p) ==
    IF ~scene_set \/ Accepted(p) = <<>>
    THEN UNCHANGED <<queues, filled_from>>
    ELSE /\ queues' = [queues EXCEPT ![p] = Accepted(p)]
         /\ filled_from' = [filled_from EXCEPT ![p] = ToSet(visible)]

record_pass ==
    /\ pc = "record" /\ to_record # <<>>
    /\ populate_render_pass_queues(Head(to_record))
    /\ to_record' = Tail(to_record)
    /\ UNCHANGED <<pcVars, control, pc, loading, initialized>>

end_frame ==
    /\ pc = "record" /\ to_record = <<>>
    /\ Goto("poll")
    /\ UNCHANGED <<pcVars, control, loading, to_record, drawing>>

\* Renderer::shutdown on the main thread.
request_shutdown ==
    /\ ~stopping /\ stopping' = TRUE
    /\ UNCHANGED <<pcVars, loader, task_set, completed, scene_set, frame, drawing>>

CullStep(w) ==
    /\ pc = "culling" /\ ExecuteRange(w)
    /\ UNCHANGED <<control, frame, drawing>>

LoaderStep == load_grid \/ load_complete \/ \E e \in Entities : load_entity(e)

RenderStep ==
    \/ leave_loop \/ poll_async_loader_completion \/ test_loading
    \/ cull_without_task \/ cull_visible_primitives_parallel \/ cull_wait
    \/ update_visible_render_components
    \/ begin_frame \/ record_pass \/ end_frame

RLNext ==
    \/ LoaderStep \/ RenderStep \/ request_shutdown
    \/ \E w \in CullThreads : CullStep(w)

RLSpec == /\ RLInit /\ [][RLNext]_rlVars
          /\ WF_rlVars(LoaderStep) /\ WF_rlVars(RenderStep)
          /\ \A w \in CullThreads : WF_rlVars(CullStep(w))

-----------------------------------------------------------------------------
(* Properties.                                                             *)

\* A cull loses nothing and reports nothing twice, however the tasks
\* interleave: every entity with bounds is in visible_entity_indices exactly
\* when the frustum meets its box, and no entity is there more than once.
CullExact ==
    pc = "committed" =>
        /\ \A i, j \in DOMAIN visible : visible[i] = visible[j] => i = j
        /\ ToSet(visible) \cap Bounded = met \cap ToSet(entity_indices)

\* The items of a pass are the accepted ones of one cull, each once: a frame
\* never draws an entity twice in a pass nor mixes two culls, even where no
\* visible entity is accepted and the queues are left as they were. And what is
\* queued has had its RenderComponent, whose mesh and push constants
\* draw_render_queues reads, set up, although some frames skip the update.
QueuesFromOneCull ==
    \A p \in PassSet :
        /\ \A i, j \in DOMAIN queues[p] : queues[p][i] = queues[p][j] => i = j
        /\ ToSet(queues[p]) = filled_from[p] \cap Accepts[p]
        /\ ToSet(queues[p]) \subseteq initialized

\* Once the loader is done the complete callback runs, unless the program ends;
\* it is never called again.
CompletionReported == loader = "complete" ~> [](completed = 1 \/ pc = "ended")
=============================================================================
