--------------------------- MODULE ResourceLifetime ---------------------------
(***************************************************************************)
(* The life of meshes and textures across the components that handle them: *)
(* GPUResourceThread, whose requests they are here, MeshBufferAllocator and*)
(* BindlessTextureRegistry, which process() and create_texture call, the   *)
(* frames that read them, and Renderer::shutdown, which takes everything   *)
(* down: src/src/framework/renderer.cpp, global_gpu_storage.cpp,           *)
(* resource_manager.cpp.                                                   *)
(*                                                                         *)
(* A request is the mesh or the texture it is for. Which key of the cache a*)
(* texture has is up to the call: the same texture may be asked for twice, *)
(* and only the call that inserts the key makes a request. Meshes are those*)
(* of ResourceManager; the loader's own are deleted after the shutdown.    *)
(* Frames are what the GPU still has to read (their pacing is FrameSync).  *)
(***************************************************************************)
EXTENDS GPUResourceThread, MeshBufferAllocator, BindlessTextureRegistry

CONSTANTS Meshes,           \* the requests that upload a mesh
          Shape,            \* mesh -> <<vertex_count, index_count>>
          Keys              \* client -> the keys of the textures it asks for

ASSUME AssetsAreRequests ==
    /\ Meshes \cup Textures \subseteq Request
    /\ Meshes \cap Textures = {}
    /\ Shape \in [Meshes -> MeshShapes]

VARIABLES slice,       \* mesh -> which upload of the allocator its geometry_slice_ is
          textures,    \* textures_: the request of each entry -> bindless_index_
          cache_key,   \* request -> the key of its entry
          creating,    \* client inside create_texture -> its key and reserved slot
          lost,        \* history: the slots of calls that lost the race for a key
          state,       \* gpu_resource_state_ of both, and whether they exist
          rendering,   \* the render task
          gpuReads,    \* what the submitted frames read
          teardown     \* how far the end of Renderer::shutdown has come

cache == <<textures, cache_key, creating, lost>>
resources == <<mbaVars, btrVars, slice, cache, state>>
frames == <<rendering, gpuReads>>
ltVars == <<vars, resources, frames, teardown>>

\* Renderer::Renderer has called GlobalGPUStorage::initialize.
LTInit ==
    /\ Init
    /\ device = TRUE /\ Vertices!PAInit /\ Indices!PAInit /\ written = << >>
    /\ BTRInit
    /\ slice = << >> /\ state = [r \in Request |-> "none"]
    /\ textures = << >> /\ cache_key = << >> /\ creating = << >> /\ lost = {}
    /\ rendering = "none" /\ gpuReads = {} /\ teardown = "none"

Put(f, x, v) == [y \in DOMAIN f \cup {x} |-> IF y = x THEN v ELSE f[y]]
Drop(f, x) == [y \in DOMAIN f \ {x} |-> f[y]]

Creating(c) == c \in DOMAIN creating
Cached(k) == \E t \in DOMAIN textures : cache_key[t] = k

-----------------------------------------------------------------------------
(* The calls that make requests.                                            *)

\* The call has its asset, which the request waits to upload, and enters enqueue.
Ask(c) ==
    /\ BeginEnqueue(c)
    /\ state' = [state EXCEPT ![Current(c)'] = "CPU_Loaded"]
    /\ UNCHANGED <<mbaVars, slice, frames, teardown>>

\* Mesh::Mesh and upload_mesh.
upload_mesh(c) ==
    /\ ~Creating(c) /\ Ask(c) /\ Current(c)' \in Meshes
    /\ UNCHANGED <<btrVars, cache>>

\* create_texture does not find its key and reserves a slot: what other threads
\* do between these two changes neither. A call that finds its key returns and
\* has changed nothing.
create_texture_miss(c, k) ==
    /\ ~Creating(c) /\ pc[c] = "idle" /\ MayCall(c) /\ <<c, made[c] + 1>> \in Textures
    /\ ~Cached(k)
    /\ \E i \in Slots : /\ allocate_slot(i)
                        /\ taken' = taken \cup {i}
                        /\ creating' = Put(creating, c, [key |-> k, index |-> i])
    /\ UNCHANGED <<vars, mbaVars, slice, textures, cache_key, lost, state, frames, teardown>>

\* emplace finds that another call inserted the key meanwhile: the call returns
\* that one's handle, and nobody knows its slot any more.
insert_lost(c) ==
    /\ Creating(c) /\ Cached(creating[c].key)
    /\ lost' = lost \cup {creating[c].index}
    /\ creating' = Drop(creating, c)
    /\ UNCHANGED <<vars, mbaVars, btrVars, slice, textures, cache_key, state, frames, teardown>>

\* emplace inserts: the call makes the request.
insert(c) ==
    /\ Creating(c) /\ ~Cached(creating[c].key) /\ Ask(c)
    /\ textures' = Put(textures, Current(c)', creating[c].index)
    /\ cache_key' = Put(cache_key, Current(c)', creating[c].key)
    /\ creating' = Drop(creating, c)
    /\ UNCHANGED <<btrVars, lost>>

Create ==
    \/ \E c \in Clients : upload_mesh(c) \/ insert_lost(c) \/ insert(c)
    \/ \E c \in Clients : \E k \in Keys[c] : create_texture_miss(c, k)

-----------------------------------------------------------------------------
(* process(), and the queue.                                                *)

\* MeshGPUResourceRequest::process and TextureGPUResourceRequest::process.
process(r) ==
    /\ state' = [state EXCEPT ![r] = "GPU_Ready"]
    /\ IF r \in Meshes
       THEN /\ upload(Shape[r])
            /\ slice' = Put(slice, r, Len(vertexRanges'))
            /\ UNCHANGED btrVars
       ELSE /\ bind_texture(textures[r], r)
            /\ UNCHANGED <<mbaVars, taken, slice>>
    /\ UNCHANGED cache

Process ==
    /\ \/ \E c \in Clients : FinishInline(c) /\ process(Current(c))
       \/ FinishProcess /\ process(item)
    /\ UNCHANGED <<frames, teardown>>

\* The steps of the callers and of Execute that touch no resource. The main
\* thread goes on when it is in no call.
Queue ==
    /\ \/ \E c \in Clients : ReadRunning(c) \/ push(c) \/ PushNotify(c)
       \/ wait_and_pop \/ try_pop \/ ExecuteReturn \/ SpuriousWakeup
       \/ ~Creating(Main) /\ (start \/ request_shutdown \/ WaitforAllCalled)
    /\ UNCHANGED <<resources, frames, teardown>>

-----------------------------------------------------------------------------
(* Frames.                                                                 *)

\* Renderer::run adds the pinned task.
run ==
    /\ mainPc = "run" /\ pc[Main] = "idle" /\ ~Creating(Main)
    /\ rendering = "none" /\ rendering' = "running"
    /\ UNCHANGED <<vars, resources, gpuReads, teardown>>

\* draw_render_queues binds what is GPU_Ready; the frame is submitted.
render_one_frame ==
    /\ rendering = "running"
    /\ gpuReads' = gpuReads \cup {r \in Request : state[r] = "GPU_Ready"}
    /\ UNCHANGED <<vars, resources, rendering, teardown>>

FramesComplete ==
    /\ gpuReads # {} /\ gpuReads' = {}
    /\ UNCHANGED <<vars, resources, rendering, teardown>>

\* RenderTask::Execute sees the shutdown between two frames.
RenderReturn ==
    /\ rendering = "running" /\ schedulerShutdown /\ rendering' = "stopped"
    /\ UNCHANGED <<vars, resources, gpuReads, teardown>>

-----------------------------------------------------------------------------
(* Renderer::shutdown, after the threads have been asked to end.           *)

\* WaitforAllAndShutdown waits for the render task too, and for the loader's,
\* whatever call that is in.
JoinTasks ==
    /\ WaitforAllReturns /\ rendering # "running" /\ ~Creating(Loader)
    /\ UNCHANGED <<resources, frames, teardown>>

\* Mutant: the teardown does not wait for the tasks.
shutdown_device_Early ==
    /\ mainPc \in {"joining", "joined"} /\ teardown = "none" /\ gpuReads = {}
    /\ teardown' = "device"
    /\ UNCHANGED <<vars, resources, frames>>

\* Mutant: the device is not waited for.
shutdown_device_NoWait ==
    /\ mainPc = "joined" /\ teardown = "none" /\ teardown' = "device"
    /\ UNCHANGED <<vars, resources, frames>>

\* GPUResourceThread::shutdown: wait_idle.
shutdown_device ==
    /\ mainPc = "joined" /\ teardown = "none" /\ gpuReads = {} /\ teardown' = "device"
    /\ UNCHANGED <<vars, resources, frames>>

\* GlobalGPUStorage::cleanup.
cleanup_storage ==
    /\ teardown = "device" /\ teardown' = "storage" /\ cleanup
    /\ UNCHANGED <<vars, btrVars, slice, cache, state, frames>>

\* ResourceManager::cleanup deletes the meshes, ...
cleanup_meshes ==
    /\ teardown = "storage" /\ teardown' = "textures"
    /\ state' = [r \in Request |-> IF r \in Meshes THEN "deleted" ELSE state[r]]
    /\ UNCHANGED <<vars, mbaVars, btrVars, slice, cache, frames>>

Destroy(t) ==
    /\ textures' = Drop(textures, t)
    /\ state' = [state EXCEPT ![t] = "deleted"]
    /\ UNCHANGED <<cache_key, creating, lost>>

\* Mutant: an entry whose texture was never made is dropped with its slot.
cleanup_texture_Made(t) ==
    /\ teardown = "textures" /\ t \in DOMAIN textures
    /\ IF state[t] = "GPU_Ready"
       THEN release_index(textures[t]) /\ taken' = taken \ {textures[t]}
       ELSE UNCHANGED btrVars
    /\ Destroy(t)
    /\ UNCHANGED <<vars, mbaVars, slice, frames, teardown>>

\* ... then releases the slot of every entry of the cache and destroys the texture.
cleanup_texture(t) ==
    /\ teardown = "textures" /\ t \in DOMAIN textures
    /\ release_index(textures[t]) /\ taken' = taken \ {textures[t]}
    /\ Destroy(t)
    /\ UNCHANGED <<vars, mbaVars, slice, frames, teardown>>

cleanup_done ==
    /\ teardown = "textures" /\ textures = << >> /\ teardown' = "cleaned"
    /\ UNCHANGED <<vars, resources, frames>>

Teardown ==
    \/ JoinTasks \/ shutdown_device \/ cleanup_storage \/ cleanup_meshes
    \/ (\E t \in Textures : cleanup_texture(t)) \/ cleanup_done

LTNext ==
    \/ Create \/ Process \/ Queue
    \/ run \/ render_one_frame \/ FramesComplete \/ RenderReturn
    \/ Teardown

\* GPUResourceThread's fairness, of the same threads, which end their calls of
\* create_texture too; the render task leaves its loop.
LTSpec ==
    /\ LTInit /\ [][LTNext]_ltVars
    /\ Fairness /\ WF_ltVars(RenderReturn)
    /\ \A c \in Clients : WF_ltVars(insert(c) \/ insert_lost(c))

-----------------------------------------------------------------------------
(* Properties, with those of GPUResourceThread (UploadsSerialized,          *)
(* DrainedBeforeStop, ServesInOrder, QueuedIsProcessed), of                 *)
(* MeshBufferAllocator (SlicesDisjoint, SlicesInside, GeometryIntact) and   *)
(* of BindlessTextureRegistry (MapsAgree, SlotsAccounted).                  *)

Places(r) ==
    Units("vertex", vertexRanges[slice[r]])
        \cup Units("index", indexRanges[slice[r]])

\* What a submitted frame reads exists until the GPU has read it: no texture is
\* destroyed and no page released or written over before, in any order of
\* uploads, frames and shutdown.
GpuReadsLive ==
    \A r \in gpuReads :
        /\ state[r] = "GPU_Ready"
        /\ r \in Meshes =>
               /\ slice[r] \in DOMAIN vertexRanges
               /\ \A p \in Places(r) : p \in DOMAIN written /\ written[p] = slice[r]

\* A request keeps a pointer to its mesh: nothing is uploaded into a deleted
\* mesh or without a device.
UploadsTargetLive == \A r \in InProcess : state[r] = "CPU_Loaded" /\ device

\* After the cleanup the slots still taken are those of the calls that lost the
\* race for a key and no others: the slot of every entry is given back, also of a
\* texture whose request nobody processed because the loop had ended, and a lost
\* slot is neither given back nor given to anybody else.
OnlyLostSlotsStay == teardown = "cleaned" => taken = lost
=============================================================================
