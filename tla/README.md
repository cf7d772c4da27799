# Ocarina's Vulkan renderer in TLA+

This directory models the concurrent core of the renderer in this repository:
TLA+ modules translated from the C++ source, TLC configurations that check them
on small instances, and TLAPS proofs of what holds for every instance.
`PROJECT.json` lists components, runs, mutants, the source lines behind every
definition, findings, hazards and theorems; this file explains them.

Contents: 1 the system, 2 the modules and the code, 3 the runs, 4 the proofs,
5 what the code does not keep, 6 what is not modelled, 7 the plan.

    tlc -workers 2 -config MCFrameSync.cfg MCFrameSync      # one run
    tlapm ResourceLifetimeProofs.tla                        # one module's proofs

## 1. The system

`src/src` holds a Vulkan renderer (`framework`, `rhi`, `backends/vulkan`, `core`,
about 27,000 lines) and an older embedded shading language (`dsl`, `ast`,
`generator`, `pyexporter`, `math`) that the renderer does not call. `ext` is
vendored.

### Threads

| thread | runs | started by |
|---|---|---|
| main (0) | window events; `Renderer` constructor, `run`, `shutdown` | the program |
| Render, pinned 1 | `RenderTask::Execute`: one frame after the other | `Renderer::run` |
| GPUResource, pinned 2 | `GPUResourceThread::Execute`: uploads, one at a time | `Renderer` constructor |
| workers | `AsyncLoader`, `PipelineCompileTask`, culling, recording of a pass | enkiTS |

The GPU is one more actor: it executes submissions in order, signals a timeline
semaphore and consumes binary semaphores.

### Components

| component | state | operations | shared with | hard part | what makes it correct |
|---|---|---|---|---|---|
| GPU resource thread | request queue, condition variable, shutdown flag | `enqueue`, `start`, `Execute`, `request_shutdown`, `shutdown` | every creator of GPU objects | lost and spurious wake-ups; inline uploads beside the queue; ordering of shutdown | uploads are serialized, FIFO, drained before the thread ends |
| Mesh buffer allocator | pages, ranges, used units | `initialize`, `upload`, `cleanup` | GPU resource thread | first fit at a page's end; units against bytes | no two meshes share a place; geometry stays as written |
| Frame pacing | `frame_number`, timeline, slot semaphores, command buffer pools | `begin_frame`, `get/execute/release_command_buffer(s)`, `end_frame`, `recreate_swapchain` | render thread, GPU | reuse of buffers the GPU reads; skipped frames; waits without a limit | nothing pending is reset; the timeline grows; the loop goes on |
| Bindless registry | slot vector, map, free list | `allocate_slot`, `allocate_index`, `bind_texture`, `release_*` | all threads | two views of one assignment | the views agree; no slot is lost or given twice |
| Texture cache and uploads | `textures_`, request queue, bindless updates, descriptors | `create_texture`, `create_render_target_texture`, `process`, flush | loader, GPU resource thread, render thread | check-then-insert; slots before textures; updates before the set exists | one slot per key; one upload; every cached texture is shown |
| Pipeline manager | pipeline cache, layout cache, pending set, pool of tasks | `enqueue`, `update`, `compile_targets`, compile task, `shutdown` | render thread, loader, workers | duplicate work; recycled task objects; two threads on one layout | compiled once; layouts in use are alive; marks are taken back |
| Material updates | staged and uploaded bytes, `dirty`, `in_update_queue_`, bindings | `set_property`, `process_material_update`, `is_renderable` | loader, render thread | plain flags on two threads; a batch that feeds itself | drawn only with ready textures; bindings reach the GPU |
| Render loop, loading, draw queues | async task, scene pointer, visible set, draw queues | `render_one_frame`, `poll_async_loader_completion`, `cull_scene`, `populate_render_pass_queues`, `run`, `shutdown` | loader, workers | the loader ends in the middle of a frame; stale queues | the scene is used when loaded; a queue comes from one cull |
| Scene grid, parallel culling | `entity_indices_`, cells, results, atomic counter | `build_grid`, `cull_grids`, `ExecuteRange`, commit | loader, workers | an array filled by all threads | nothing lost, nothing twice |
| Entities and transforms | component vectors, versions, dirty flag | `emplace_primitive`, `set_position`..., `sync_gpu_transforms` | loader, render thread | versions against a flag; vectors that grow | the GPU ends with the latest transforms |
| Frame buffers, descriptor sets | uniform, transform, material buffers; global sets | growth, upload, binding | render thread, GPU | buffers replaced while frames are in flight | frames read live buffers |
| glTF loader | parsed model, caches | `load` | all of the above | identity of meshes and materials by keys | each primitive gets its own geometry and material |
| Mesh and material registry | maps by key and id | `create_*`, `register_mesh`, `cleanup` | loader, main | unlocked maps; raw pointers in queued requests | lookups agree; nothing queued outlives its target |
| Loading progress | counters, texts | `begin`, `step`, `complete` | workers, loading GUI | none beyond its mutex | - |
| Vulkan objects, descriptor writers, shaders, swapchain, RHI, core library | handles | creation, recording | render thread, GPU resource thread | call order of the API | - |
| Shading language and Python bindings; third-party libraries | - | - | - | - | - |

### How they interact

The loader compiles pipelines through `PipelineManager::compile_targets`, then
creates materials, meshes and textures. Creating a mesh or texture pushes a
request to `GPUResourceThread`; before that thread runs and after it ended,
`enqueue` processes it on the caller. `process` uploads a mesh into the pages of
`GlobalGPUStorage`, or a texture, binds its slot in `BindlessTextureRegistry` and
queues a bindless update for the render thread. Materials queue updates for the
render thread too. Every frame the render thread dispatches compile tasks, polls
the loader, culls, applies both queues (`FrameResources::update_per_frame`),
acquires an image, fills and records every pass, submits and presents.

## 2. The modules and the code

Modules that compose others do so with EXTENDS (shared state) or INSTANCE.

    ResourceLifetime --extends-> GPUResourceThread --refines-> SerialUploads
                     --extends-> MeshBufferAllocator --twice-> PageAllocator
                     --extends-> BindlessTextureRegistry
    TextureUploads   --extends-> BindlessTextureRegistry (and keeps to its contract)
                     --refines-> TextureBinding
    RenderLoop       --extends-> PrimitiveCull
    FrameSync     PipelineManager     MaterialUpdates     TransformUploads

Definitions keep the source's names (`create_texture_miss`, `WaitTimeline`,
`try_queue_mark`). Where the code releases a lock or touches unprotected memory
between two accesses, each access is an action and `pc` says where the thread
is; what runs under one mutex, or on data one thread owns, is one action.

**GPUResourceThread** (`gpu_resource_thread.cpp`, `thread_safe_queue.h`). The pinned
thread's loop is split at every access to shared state: predicate, block, wake,
pop, begin and end of `process`. `notify` wakes a thread only if it is blocked;
spurious wake-ups are an action. Main is the program's life: constructor, uploads
before the thread is there, `run`, `request_shutdown` (store, notify), the wait,
`shutdown`. **SerialUploads** is what it promises: requests are served in the
order they were taken in, one after the other. That is about requests given to
`enqueue`: `create_render_target_texture` calls `process` of its own request on the
caller (`resource_manager.cpp:384`), which is in TextureUploads.

**PageAllocator, MeshBufferAllocator** (`mesh_buffer_allocator.cpp`,
`global_gpu_storage.cpp`). Pages are sizes with used bytes; a range is a page, an
offset and a count. The composing module uses it once for vertices and once for
indices, and remembers in `written` which mesh wrote each place.

**FrameSync** (`vulkan_driver.cpp`, `render_task.cpp`). One frame from the test of the
swapchain to the present. The GPU takes submissions from a queue in order; an
acquire, a present or a recreation may have any of its results. The wait for the
timeline is an action that is enabled when the wait would return. Pass groups
are recorded in order, only the UI's while loading.

**BindlessTextureRegistry** (`bindless_texture_registry.cpp`). One action per locked
operation. Its clients are those that keep to the header's contract. Slots count
from 1 in the model, 0 is "none".

**TextureUploads** (`resource_manager.cpp`, `gpu_resource_thread.cpp`,
`frame_resources.cpp`). `create_texture` is split where it drops the mutex: look-up,
slot, insertion, request. `process`, the queue of bindless updates, and the flush
with its two branches (no descriptor set yet: put everything back) follow.
**TextureBinding** says what a key's slot does: unset, then set for good.

**PipelineManager** (`pipeline_manager.cpp`, `pipeline_compile_task.cpp`). The render
thread's and the loader's requests, the mark in the pending set, the pool of task
objects, the scheduler's pipe (external), and the task's steps with both looks
into each cache. The release of a task object from inside its own execution is
its own step, as is the reuse once it is complete.

**MaterialUpdates** (`material.cpp`, `frame_resources.cpp`). A material's bytes are the
number of writes made to them. Test, mark and push of `in_update_queue_` are
actions; so are copy and reset in the batch. The batch takes what it queues for
itself. Drawing asks `is_renderable`, split at the store of `textures_ready_`.

**ResourceLifetime** (`renderer.cpp`, `global_gpu_storage.cpp`,
`resource_manager.cpp`, `gpu_resource_thread.cpp`). The composition: a request of
GPUResourceThread is a mesh or a texture; the end of its `process` is an `upload`
of MeshBufferAllocator or a `bind_texture` of BindlessTextureRegistry in the same
step. `create_texture` is the look-up that misses, with the slot it reserves, and
the insertion; the caller that finds the key inserted meanwhile returns, and its
slot is remembered in `lost`. The render task takes what is GPU_Ready into the
frames it submits (`gpuReads`) until the GPU has read them.
`Teardown` is `Renderer::shutdown` after the join: wait for the device, release of
the pages, deletion of the meshes, then slot by slot of the texture cache. What
the three components promise alone is checked here in the order in which the
program really calls them, with what only the composition can say.

**TransformUploads** (`entity_component_system.cpp`, `transform_component.h`,
`frame_resources.cpp`). A matrix is named by the number of moves it reflects. The
mutex covers `emplace_primitive` and `sync_gpu_transforms`; setters, the dirty flag,
the count and the upload are steps of their own, as is each part of
`get_world_matrix`, which two threads call on the same component: the upload for
the mirror, and the loader for the bounds of the grid (`Scene::build_grid`).
`DirtyReachesGPU` compares matrices with versions: both are numbers of moves. The
buffer has an identity (`buffer_id`), so that a descriptor
on a destroyed one can be told; a slot nobody wrote is `Unset`.

**PrimitiveCull, RenderLoop** (`scene.cpp`, `renderer_primitive_cull_task.h`,
`renderer.cpp`, `render_task.cpp`, `async_loader.cpp`, `renderpass.cpp`). The grid is its
prefix sums over a chosen assignment of entities to cells; the frustum is a
chosen set of boxes it meets, and a cell is met when one of its boxes is. Each
thread tests an entity together with `fetch_add` and writes it in a later step.
The frame reads three times whether the loader is complete.

## 3. The runs

Every property has a mutant: a definition with a plausible bug, under which TLC
finds the property violated in the same configuration (`PROJECT.json`, "mutants").

| run | states | bounds | shows |
|---|---|---|---|
| resource_lifetime | 273,000 | 3 meshes of main and a loader, 2 textures of 2 keys, one of them asked for by both; 3 slots; 3 vertices and an odd byte per page | uploads are serial, in order, drained and never missed; slices disjoint, inside, intact; slots accounted for; frames, uploads and teardown never meet a dead resource; the cleanup leaves the slots of calls that lost a race and no other |
| frame_sync | 4,500 | 3 slots, 8 frames, 2 groups | buffers are reused when done and held once, signals increase, the last frame is signaled, the loop goes on |
| texture_uploads | 18,000 | 3 textures and slots, 1 key, 1 target, 2 callers of 2 calls | slots, handles, uploads, the binding of a key and the registry's contract; a cached texture is shown |
| pipelines | 289,000 | 3 keys sharing shaders, 2 workers | compiled once, layouts live, no leaks, tasks in one place, marks served, the drawn key compiles |
| material_updates | 252,000 | 2 materials (global, own buffer), 2 textures, 3 writes | the flag is served, drawn means ready, bindings reach the GPU, textures settle |
| transforms | 177,000 | 3 entities, 1 move, first capacity 1 | the buffer holds the mirror, copies fit, the descriptor is live, the matrix of what was marked dirty arrives |
| render_loop | 150,000 | 2 of 3 entities, one without bounds, 2 cells, 2 threads, 2 passes | a cull is exact, a queue is one cull's, completion happens once |
| gpu_thread_lost_wakeup, frame_sync_suboptimal, texture_early_draw, material_lost_value, transforms_skipped | | | section 5 |

Why the bounds are enough for what they are used for:

- *resource_lifetime*: five requests of two callers let one be inside `process`
  while others wait and a third comes before the start, during the shutdown or
  after the loop's end. Three meshes are made in every order the threads allow;
  a page of 10 bytes and vertices of 3 leave a byte that no unit fits (as 32 MiB
  is no multiple of 48), so a page exactly full, one too short, one used again
  later and indices that exceed a page all occur. Both callers
  ask for `k1`, so either may lose the race for it; the loader may try again with
  another key, and a slot more than there are textures lets the lost one stay
  next to those in use and those reserved and never bound. Slots are released at
  the end only, as nothing in the program releases one earlier but the loser of
  a race for a render target.
- *frame_sync*: with eight frames every one of three slots is used at least twice
  after skipped and failed frames. `frame_number` is bounded only to make the
  state space finite: when it is reached the loop stops, which is why
  deadlock is not checked.
- *texture_uploads*: one key and two callers give the race for a key; the second
  call finds the entry in every state. A render target and a texture compete for
  slots. Only `main` creates render targets, as in the repository, because
  BindingKept needs it (section 5). The descriptor array holds all slots: the
  texture of a slot past it is never shown.
- No run gives a released slot out again. That is proved instead, for any number
  of slots: of the registry under any calls that keep its contract (LookupsAgree,
  EverySlotAccounted), and of TextureUploads with any callers of render targets
  (NoSharedSlots, UploadsKeepTheContract, RacingLookupsAgree), whose losers release
  slots that others take.
- *pipelines*: two keys of one shader pair meet in the layout cache, on two
  workers; a compute target uses the empty key as the code does. The render
  thread draws `lit` each frame. Drawing the empty key as well would allow a
  livelock in which the scheduler keeps preferring its tasks.
- *material_updates*: three writes of the loader let a value, a texture and
  another texture or value overtake each other.
- *transforms*: from a capacity of one, three entities make the mirror and the
  buffer grow twice, at different moments; the move may come anywhere in either
  call of `get_world_matrix`. The invariants also hold with two moves (1,125,000
  states), DirtyReachesGPU with two moves of two entities (130,000). The proofs
  cover any number of entities.
- *render_loop*: two entities in one cell, in two cells and without a grid; one
  of the three has no bounds; `MaxEntities` is 2. Frames are not counted: the run
  covers every number of them.

### Fairness

Weak fairness only, and only for what the code keeps running: each pinned loop
(it never waits but for a lock, a condition or the GPU), calls that have begun,
threads of the scheduler with work to do, the GPU's queue. Nothing forces a new
call, an end of a load that is not stated, a shutdown, or a success of the
window system. In PipelineManager each worker is fair on its own, as a thread of
the operating system is. `texture_uploads` assumes the flush is called every
frame. `resource_lifetime` assumes that calls of `create_texture` end, that main, having begun the shutdown, goes on,
and that the render task leaves its loop; `transforms` that the render thread
keeps calling `update_per_frame` and the loader leaves `emplace_primitive`.

Runs with CHECK_DEADLOCK FALSE are those whose program ends, after the shutdown
(resource_lifetime, pipelines, render_loop) or at the bound of frames
(frame_sync), and transforms, where a frame that has nothing to upload changes
nothing.

## 4. The proofs

TLAPS proves, for every value of the constants that satisfies the named
assumptions:

| module | theorem | property |
|---|---|---|
| ResourceLifetimeProofs | RequestTypesCorrect, UploadsAreSerialized, DrainsBeforeStop, UploadsInOrder | of GPUResourceThread: TypeOK, UploadsSerialized, DrainedBeforeStop, ServesInOrder |
| | MeshTypesCorrect, MeshesDoNotOverlap, MeshesFitTheirPages, GeometryStaysIntact | of MeshBufferAllocator: MBATypeOK, SlicesDisjoint, SlicesInside, GeometryIntact |
| | LifetimeSerialized, LifetimeDrains, LifetimeInOrder, LifetimeSlices, LifetimeGeometry | the same of the composition |
| | UploadsHaveTargets, FramesReadLiveData, CleanupLeavesLostSlots | UploadsTargetLive, GpuReadsLive, OnlyLostSlotsStay |
| | LifetimeKeepsContract | the composition implements BTRSpec |
| PageAllocatorProofs | AllocatedRangesDisjoint | ranges of one allocator are disjoint |
| TextureUploadsProofs | TypeCorrect, LookupsAgree, EverySlotAccounted, NeverHandsOutTwice | of BindlessTextureRegistry: BTRTypeOK, MapsAgree, SlotsAccounted, HandsOutFreeSlots |
| | TUTypeCorrect, NoSharedSlots, EveryHandleAgrees, UploadsHappenOnce | TUTypeOK, SlotsNotShared, HandlesAgree, UploadedOnce |
| | BindingsHold | BindingKept: TextureUploads implements TextureBinding |
| | UploadsKeepTheContract, RacingLookupsAgree | RegistryContract: TextureUploads implements BTRSpec; so MapsAgree, SlotsAccounted |
| PipelineManagerProofs | PipelinesCompiledOnce, LayoutsLive, NoLeaks | CompiledOnce, LayoutsInUseLive, NothingLeaks |
| | MarksAreServed, TasksPlaced | PendingIsServed, TasksInOnePlace |
| RenderLoopProofs | CullsAreExact, QueuesComeFromOneCull | CullExact, QueuesFromOneCull |
| MaterialUpdatesProofs | MaterialsTypeCorrect, FlagAlwaysServed, GateHolds, BindingsReachTheGPU | MUTypeOK, FlagIsServed, ReadyMeansReady, BindingsUploaded |
| TransformUploadsProofs | UploadsFit, BufferFollowsMirror, DescriptorFollowsBuffer | UploadInsideBuffer, BufferHoldsMirror, DescriptorOnLiveBuffer |
| FrameSyncProofs | FrameReusedWhenDone, FrameHeldOnce, FrameSignalsIncrease, EveryFrameSignaled | ReusedWhenDone, HeldOnce, SignalsIncrease, FrameSignaled |

So every safety property of a passing run is a theorem. The type invariants of
the table, HandsOutFreeSlots and what PageAllocatorProofs says of one allocator
are proved and in no run.

Assumptions on constants: threads are different from each other and from "none"
(GRTAssumption, ThreadsDiffer, MURender, PMThreads); bounds are naturals
(CallsBounded, MURender); at least one frame in flight (FSAssumption); units
have a positive size (MBAAssumption; PAParameters, which the instantiating
module shows); keys of textures and of targets differ (KeysDiffer); "none" is no
texture and no entity (NoneIsNoTexture, PCEntities); the first capacity is
positive (CapacitiesPositive); meshes and textures are different requests
(AssetsAreRequests); the empty key is a key without shaders, and compute targets
are none of the keys (PMKeys); a material with the global buffer is a material
(MUGlobals); the UI pass is the last of at least one, and the render thread
takes part in culling (RLPasses). TLC evaluates all of them in the runs.

Two theorems have a hypothesis more, because without it they are false:

- *EveryFrameSignaled*: a frame records a group, while the scene loads and
  afterwards. A renderer without a UI group records nothing during a load, and
  a load of as many frames as there are slots leaves the next one waiting for ever
  (section 5).
- *BindingsHold*: one thread makes render targets, as in the repository. With two,
  the loser of a race releases its slot while its update is queued, or put back
  by the flush; the slot's next owner is shown, and then overwritten by the stale
  update. TLC finds this with two such callers and four textures.

None of the properties is inductive; the arguments:

- **Serialized uploads.** An upload may run on main or on the pinned thread. The
  invariant (`TypeInv`: types, `Calling`, `Phases`) gives each path its phase of the
  Renderer's life: main uploads inline only before the thread is started, the
  loader only after the thread's loop has ended. `Calling` says what a thread in
  the middle of `enqueue` has already decided from the flag it read.
- **Order of uploads.** A client's requests pass through its call, the queue, the
  loop's hand and `done`, one behind the other: `Order` compares every two of these
  places. A request that is left in the queue when the loop ends may be overtaken
  by an inline one; it is never served, so the order of what is served stands.
- **Geometry.** `PAInv` keeps used bytes whole units (`PagesWhole`), every range within
  what is used (`RangesUsed`), and the ranges of a page in order (`RangesOrdered`);
  disjointness follows from the order. A new mesh writes only its own slices, so
  what earlier ones wrote stays.
- **The composition.** A step of ResourceLifetime is a step, or a stutter, of
  GPUResourceThread and of MeshBufferAllocator (`LTQueueStep` and its like), so what
  was proved of them holds. On top: `Life`, an asset's way from `none` over
  `CPU_Loaded`, once through `process`, to `GPU_Ready`, tied to the place of its
  request; `TakenDown`, how far the teardown is and who is gone by then (no thread after
  the join, no frame's reads when it begins); `Drawn`, that frames read only what is
  ready, which lies in pages that exist. `Entries` ties a cache entry to the request
  of the call that inserted it; `Registered` says that the registry knows a texture
  by the slot of its entry, or not yet, and that entries and calls have slots of
  their own, so every step is one of BTRSpec too. `Owned`: every slot given out is
  an entry's, where the cleanup finds it, a call's that is still inside
  `create_texture`, or lost. After the join there are no calls, after the cleanup no
  entries.
- **The registry.** `IInv` is a partition: every slot is taken or on the free list,
  which has no duplicates, and the map is the inverse of the vector on slots
  that are taken.
- **Texture slots.** A slot has an owner before it has a key: the caller that
  reserved it. `TUInv` adds to the partition who owns what (`CallersHold`), that every
  filed job carries its key's slot (`JobsFiled`, `JobsSorted`, `CacheHolds`), so the
  insertion cannot give two keys one slot and the loser of a race returns the
  winner's.
- **Bindings.** `InOnePlace`: the upload a key waits for is with the caller that
  inserted the key, in the queue or on the GPU thread, and in one of them, hence
  once. `Fresh`, for the refinement: with one maker of targets none loses a race
  and gives a slot back (`TargetsAlone`); a slot is empty until its texture is
  bound (`Unbound`); and what waits for the flush names the texture that the
  slot holds (`UpdatesCurrent`), so a descriptor once right stays right.
  `NewTextures`: what is bound is a texture no slot has, which is all that
  BTRSpec asks.
- **Pipelines.** `Marks`: a key with shaders has at most one carrier, the requester
  that marked it, a task in the pipe or the worker that runs it. While a worker
  builds, its key is not cached, so `Counted` can equate the pipelines the device
  holds with the cached one and the one about to be inserted. `Layered`: the thread
  that makes a layout is not the one whose layout is cached, so a loser destroys
  its own. `Served` keeps a carrier for every mark. `Placed`: a task object is free,
  being released, with a requester, in the pipe or with a worker; the release
  from inside the execution makes two of these overlap, and it says which.
- **Culling.** `build_grid` permutes the entities into one range per cell (`Grid`).
  During a cull (`Threads`) a position belongs to an unclaimed cell, to one thread,
  or to nobody any more; a slot counted by `fetch_add` is one thread's until it is
  written. `Found` says what written slots hold and that every visible entity
  behind a closed position has one. When all threads are idle nothing is open and
  everything is written. What a pass accepts is a recursive function over the
  visible entities; its facts come from induction over sets of naturals, as a
  statement about the set of counterexamples.
- **Materials.** `is_renderable` stores what it evaluated earlier, and the loader may
  clear the flag in between. `Gate` carries the evaluation to the store: bindings
  change only on the render thread, which is the one that evaluates. `Jobs` says
  which request a thread in the middle of a call holds, `Uploads` that a binding
  not yet uploaded has a request on its way, possibly another thread's.
- **Transforms.** `Sized`: who holds the mutex, that the mirror covers the entities
  except inside `emplace_primitive`, and that the count the upload read was not
  larger than the buffer. `Synced`: every slot that was filled lies below the count,
  the mirror's size and, once read, the upload's count, although all of them
  move. `Arrived`: the buffer holds what was filled, or the flag is dirty, except
  between growth and refill and during the copy. Each is inductive with the ones
  before it. The theorems speak of what was synchronised: that everything gets
  synchronised is what the code does not keep (section 5).
- **Frames.** `Ordered` says what the timeline tells: a submission is in the queue
  only if its frame is greater than the timeline's value, because only the last
  one of a frame signals and the GPU takes them in order; and while a frame is
  recorded the timeline is at most the number of slots behind. `Pending`: a
  buffer that is pooled and pending waits in the slot of its frame. So one that
  is taken too early would be of an earlier frame of the same slot, less than a
  round of slots ago (`SameSlot`: there is none). `Held`, which keeps a new buffer
  greater than all and every other one in one place, is what `Pending` needs when
  a buffer is submitted. `AllSignaled` follows the frame's number from the acquire,
  which makes it the current one, to the submission of the last group that will
  signal it, and from the queue into the timeline.

Only model-checked:

- The liveness properties (QueuedIsProcessed, LoopGoesOn, EventuallyShown,
  EventuallyCompiled, SettlesOnLastTexture, DirtyReachesGPU, CompletionReported):
  fairness and ENABLED are out of TLAPS's reach.
- The five counterexamples of section 5 are facts about the instances they are
  found in.
- MapsAgree and SlotsAccounted in ResourceLifetime are checked by its run; for
  every instance they follow from LifetimeKeepsContract with LookupsAgree and
  EverySlotAccounted, which are theorems about BTRSpec in another module.

## 5. What the code does not keep

Five runs end in a counterexample on purpose.

- **gpu_thread_lost_wakeup** (`gpu_resource_thread.cpp:123`). "Wake the loop so it can
  exit on scheduler shutdown": the flag is stored and the condition notified
  without the queue's mutex, so both may fall between the predicate and the
  blocking of the pinned thread. It sleeps for ever and the program hangs in
  `WaitforAllAndShutdown`.
- **frame_sync_suboptimal** (`vulkan_driver.cpp:565`). "Next frame will acquire
  cleanly": VK_SUBOPTIMAL_KHR has signaled the slot's semaphore; the frame is
  skipped, and the next acquire is given the same semaphore, still signaled.
- **texture_early_draw** (`gpu_resource_thread.cpp:58`). README.md:151 says draws are
  skipped until upload and bindless flush; `is_renderable` looks at GPU_Ready,
  which precedes the flush, so a material may be drawn with a slot whose
  descriptor is still the default.
- **material_lost_value** (`frame_resources.cpp:313`). `in_update_queue_` is reset after
  the copy; a value set in between finds the flag set, queues nothing and is
  never uploaded.
- **transforms_skipped** (`frame_resources.cpp:466`). "Avoid scanning/copying when
  transforms are known to be unchanged": the flag behind it does not know. The
  property asks for the matrices: after the load, a frame that skips has those of
  all moves. The run ends with a mark that is lost: the flag is reset after the
  copy without the mutex under which it is set, and the mark of an entity added
  since the sync goes with it; the entity is drawn without a transform until
  another one is added. Kept apart in variants of the model, two more causes
  violate the property alone, and with all three repaired it holds:
  - the setters (`transform_component.h:10-27`) do not set the flag, so an entity
    that is moved after the frame that followed its creation keeps its old
    transform;
  - `get_world_matrix` (:33-40) composes, resets `transform_dirty_` and stores in three
    steps. A second caller between the reset and the store (the frame's sync
    while the loader bounds the grid), or a setter between the values and the
    reset, leaves an old matrix, or none, in the mirror under the current
    version.

Weaknesses met while reading and modelling that no run states:

- `renderer.cpp:230` clears a pass's queues only when an entity is added: looking
  away from everything draws the last visible entities again. RenderLoop shows
  it; what holds, and is checked, is that a queue is never a mixture.
- `render_task.cpp:46,48,80` read the loader's state three times. A loader that ends
  between them has its scene culled, its passes recorded and the final GUI shown
  in a frame whose complete callback has not run, against the comment "Finish
  async load on the render thread before scene/GUI work for this frame" (:45).
  The next frame runs it.
- `frame_resources.cpp:451`: at a capacity boundary the upload may read the new
  count and the mirror that has not grown yet, and copies past its end.
- `frame_resources.cpp:395` destroys the transform buffer as soon as a larger one is
  needed, and every upload writes the one buffer; up to three frames in flight
  read it meanwhile. After `release_gpu_buffers` and a second `initialize` the new
  buffer is not filled while the flag is clean.
- `get_or_create_descriptor_set` registers the names of the first layout it sees
  for a set; `initialize_render_component` (primitive.cpp:53-91) does nothing the
  second time, also after mesh or material changed.
- `test_culling.cpp:198-206` deletes its scene in the callback at the end of the
  render task; README.md:153 speaks of a timeline semaphore for uploads that the
  code does not have (it waits for a fence).
- `scene.cpp:257` culls a cell by the boxes of the entities that have one; an entity
  without bounds, "conservatively visible" by itself, goes with its cell.
- The loser of two equal `create_texture` calls keeps its slot reserved until the
  program ends (`resource_manager.cpp:320`; OnlyLostSlotsStay says that nothing else
  stays); the loser of two equal render targets releases
  slot and texture while a queued update names both (:393), and that update may
  be put back behind the one of the slot's next owner.
- `resource_manager.cpp:384` processes a render target on its caller while the pinned
  thread may process another request: registry and update queue have locks for
  it, the device's copy commands are outside the models.
- `render_task.cpp:88`: during a load only the UI group is recorded. A renderer that
  draws to the swapchain in another group (`find_swapchain_render_pass` provides for
  it) acquires, counts the frame and submits nothing. When a load lasts for as
  many frames as there are slots, the next one waits at `vulkan_driver.cpp:528` for
  the number of the first, for ever.
- The bindless array has 1024 descriptors; a slot past it is skipped silently.
- `enqueue` after the pinned thread ended, but before the shutdown is complete, may
  leave a request in the queue that nobody takes.
- Component vectors, the material staging bytes, and the maps of meshes and
  materials are read on one thread while another may grow them; so are the
  scratch members of descriptor layouts.
- `thread_pool` counts an index as done before it has run; the renderer uses
  enkiTS instead.

## 6. What is not modelled, and why

- Third-party code (enkiTS, SDL, ImGui, tinygltf, DXC, the Vulkan driver) appears
  as the choices `src` must be ready for.
- Parsing, geometry, image decoding, shader reflection, hashing: data, not
  control. Frustum tests and cell numbers are choices in PrimitiveCull.
- The shading language, its AST, code generator and Python bindings: separate from
  the renderer, single-threaded text generation.
- Data races without a defined outcome (growing vectors): a model would have one
  step that allows everything. They are listed as hazards.
- Within the modelled components: samplers, the material buffer's growth and the
  staging resize (MaterialUpdates), pixel data (TextureUploads), what the Vulkan
  objects do (PipelineManager), the custom render callback, entities without a
  material, and drawing itself (RenderLoop); the lookups of ResourceManager by
  name and id, `replace_mesh` and materials (ResourceLifetime: the first are single
  steps on one thread, materials are deleted when nobody runs any more);
  `resize_*`, lights, inverse matrices and global uniforms (TransformUploads:
  nobody calls the first, the uniforms are written whole every frame).
- Most of `src` by lines is vendored (`ext`) or the older shading language; the
  modelled share is of `framework`, `core`, `rhi` and `backends/vulkan`.

## 7. Plan

Done, in this order: GPUResourceThread, the mesh buffers, FrameSync, the bindless
registry and texture uploads, PipelineManager, MaterialUpdates, RenderLoop,
TransformUploads, ResourceLifetime.

To model, most important first:

1. *FrameSync with buffers*: the growth of the transform and material buffers
   against the frames in flight that read them; as the code destroys a buffer at
   once, this will end in a run of section 5.
2. *The copy queue*: one-shot submissions of the GPU resource thread beside the
   render thread's, when both families are one queue.
3. *RenderLoop*: entities without materials; the complete callback against the
   frame's work.
4. *PipelineManager*: more than one loader and shader pairs that differ.

To prove: with each of these its safety properties, in the module of the component
it belongs to; and the contract of the page allocators' client as an
implementation, as it is for the registry, so that the composition can cite
SlicesDisjoint instead of its invariant.
