--------------------------- MODULE TransformUploads ---------------------------
(***************************************************************************)
(* The transforms of the scene's entities, from the loader that makes and  *)
(* moves them to the buffer the shaders read:                              *)
(*   src/src/framework/entity_component_system.{h,cpp}                     *)
(*   src/src/framework/transform_component.h                               *)
(*   FrameResources::upload_transform_buffer (frame_resources.cpp)         *)
(*   Scene::build_grid (scene.cpp), for its calls of get_world_matrix      *)
(*                                                                         *)
(* components_mutex_ orders emplace_primitive and sync_gpu_transforms only.*)
(* Setters, the dirty flag, the entity count and the upload itself use no  *)
(* lock, so each of their accesses is a step; nor does get_world_matrix,   *)
(* which the upload calls for the mirror and the loader for the bounds of  *)
(* the grid. A matrix is named by the number of moves it reflects. Slots   *)
(* count from 1, and a slot of the mirror or of the buffer that nobody     *)
(* wrote holds Unset. Each vector and each matrix is read and written in   *)
(* one step.                                                               *)
(***************************************************************************)
EXTENDS Integers

CONSTANTS MaxEntities,       \* bound: entities the loader makes
          MaxMoves,          \* bound: calls of set_position, set_rotation, set_scale
          DefaultCapacity    \* kDefaultGpuTransformCapacity

ASSUME CapacitiesPositive ==
    MaxEntities \in Nat /\ MaxMoves \in Nat /\ DefaultCapacity \in Nat \ {0}

VARIABLES
    transforms,   \* transform_components_: the component of every entity
    count,        \* and its size
    mirror,       \* gpu_transforms_ with gpu_transform_versions_
    mirror_size,  \* their size
    dirty,        \* gpu_transforms_dirty_
    lock,         \* who holds components_mutex_
    loader, visited,     \* where the loader is; the entity it moves or bounds
    moves, loading,      \* moves made; whether the load goes on
    render, cursor,      \* where the upload is; the entity sync looks at
    seen,                \* the version it read
    stage,               \* where the loader and the upload are in get_world_matrix
    upload_count,        \* transform_count in upload_transform_buffer
    set_exists,          \* the scene's descriptor set was created
    buffer,              \* transform_buffer_: what its slots hold
    buffer_size,         \* its elements
    buffer_id,           \* which of the buffers created it is
    bound,               \* transform_storage_descriptor_bound_
    descriptor           \* the buffer the descriptor points at, 0 for none

ecs == <<transforms, count, mirror, mirror_size, dirty, lock>>
loaderVars == <<loader, visited, moves, loading>>
scanVars == <<cursor, seen, stage>>
gpu == <<buffer, buffer_size, buffer_id, bound, descriptor>>
tfVars == <<ecs, loaderVars, render, scanVars, upload_count, set_exists, gpu>>

Slots == 1 .. MaxEntities
Entities == {i \in Slots : i <= count}
Unset == -1         \* no matrix; also InvalidUI32, the version of no transform

MaxOf(a, b) == IF a > b THEN a ELSE b
MinOf(a, b) == IF a < b THEN a ELSE b

Readers == {"loader", "render"}

\* position is the value of the three setters together; transform, the identity
\* at first, is what get_world_matrix composes.
NewTransform == [position |-> 0, transform |-> 0, transform_dirty |-> TRUE,
                 world_matrix |-> Unset, version |-> 0]
Unsynced == [matrix |-> Unset, version |-> Unset]

\* EntityComponentSystem's constructor and create_default_gpu_buffers.
TFInit ==
    /\ transforms = [i \in Slots |-> NewTransform] /\ count = 0
    /\ mirror = [i \in Slots |-> Unsynced] /\ mirror_size = DefaultCapacity
    /\ dirty = TRUE /\ lock = "free"
    /\ loader = "idle" /\ visited = 0 /\ moves = 0 /\ loading = TRUE
    /\ render = "idle" /\ cursor = 0 /\ seen = Unset
    /\ stage = [r \in Readers |-> "returned"]
    /\ upload_count = 0 /\ set_exists = FALSE
    /\ buffer = [i \in Slots |-> Unset] /\ buffer_size = DefaultCapacity
    /\ buffer_id = 1 /\ bound = FALSE /\ descriptor = 0

-----------------------------------------------------------------------------
(* The loader: emplace_primitive under the mutex, then the setters.         *)

\* Doubled until it holds the entities; a larger mirror has to be uploaded.
ensure_gpu_transform_capacity(n) ==
    IF n <= mirror_size
    THEN UNCHANGED <<mirror_size, dirty>>
    ELSE /\ mirror_size' \in {c \in n .. 2 * n - 1 : \E k \in 1 .. n : c = mirror_size * 2 ^ k}
         /\ dirty' = TRUE

emplace_primitive ==
    /\ loader = "idle" /\ loading /\ lock = "free" /\ count < MaxEntities
    /\ lock' = "loader" /\ count' = count + 1 /\ loader' = "pushed"
    /\ UNCHANGED <<transforms, mirror, mirror_size, dirty, visited, moves, loading,
                   render, scanVars, upload_count, set_exists, gpu>>

emplace_capacity ==
    /\ loader = "pushed" /\ ensure_gpu_transform_capacity(count)
    /\ loader' = "sized"
    /\ UNCHANGED <<transforms, count, mirror, lock, visited, moves, loading,
                   render, scanVars, upload_count, set_exists, gpu>>

mark_gpu_transforms_dirty ==
    /\ loader = "sized" /\ dirty' = TRUE
    /\ lock' = "free" /\ loader' = "idle"
    /\ UNCHANGED <<transforms, count, mirror, mirror_size, visited, moves, loading,
                   render, scanVars, upload_count, set_exists, gpu>>

\* set_position, set_rotation and set_scale: the value, transform_dirty_ and the
\* version, without a lock. set_position also writes its translation into
\* transform_, which is the whole move when transform_ has all earlier ones.
set_value(i) ==
    /\ loader = "idle" /\ loading /\ moves < MaxMoves
    /\ visited' = i /\ moves' = moves + 1 /\ loader' \in {"placing", "written"}
    /\ transforms' = [transforms EXCEPT ![i].position = @ + 1]
    /\ UNCHANGED <<count, mirror, mirror_size, dirty, lock, loading,
                   render, scanVars, upload_count, set_exists, gpu>>

set_position ==
    /\ loader = "placing" /\ loader' = "written"
    /\ transforms' = [transforms EXCEPT ![visited].transform =
                         IF @ + 1 = transforms[visited].position THEN @ + 1 ELSE @]
    /\ UNCHANGED <<count, mirror, mirror_size, dirty, lock, visited, moves, loading,
                   render, scanVars, upload_count, set_exists, gpu>>

set_transform_dirty ==
    /\ loader = "written" /\ loader' = "flagged"
    /\ transforms' = [transforms EXCEPT ![visited].transform_dirty = TRUE]
    /\ UNCHANGED <<count, mirror, mirror_size, dirty, lock, visited, moves, loading,
                   render, scanVars, upload_count, set_exists, gpu>>

advance_version ==
    /\ loader = "flagged" /\ loader' = "idle" /\ visited' = 0
    /\ transforms' = [transforms EXCEPT ![visited].version = @ + 1]
    /\ UNCHANGED <<count, mirror, mirror_size, dirty, lock, moves, loading,
                   render, scanVars, upload_count, set_exists, gpu>>

\* The grid at the end of the load: over every entity, whose mesh has bounds or
\* not. The second pass finds the flags as the first one left them.
build_grid ==
    /\ loader = "idle" /\ loading /\ loader' = "grid" /\ visited' = 1
    /\ UNCHANGED <<ecs, moves, loading, render, scanVars, upload_count, set_exists, gpu>>

get_primitive_world_bounds ==
    /\ loader = "grid" /\ visited <= count
    /\ \/ visited' = visited + 1 /\ UNCHANGED <<loader, stage>>
       \/ /\ loader' = "bounds" /\ stage' = [stage EXCEPT !["loader"] = "test"]
          /\ UNCHANGED visited
    /\ UNCHANGED <<ecs, moves, loading, render, cursor, seen, upload_count, set_exists, gpu>>

compute_entity_bounds ==
    /\ loader = "bounds" /\ stage["loader"] = "returned"
    /\ loader' = "grid" /\ visited' = visited + 1
    /\ UNCHANGED <<ecs, moves, loading, render, scanVars, upload_count, set_exists, gpu>>

finish_load ==
    /\ loader = "grid" /\ visited > count
    /\ loader' = "idle" /\ visited' = 0 /\ loading' = FALSE
    /\ UNCHANGED <<ecs, moves, render, scanVars, upload_count, set_exists, gpu>>

-----------------------------------------------------------------------------
(* get_world_matrix, of the loader and of sync_gpu_transforms.              *)

At(r) == IF r = "loader" THEN visited ELSE cursor

\* A step of r inside the call: it may write transforms and nothing else.
Inside(r, from, to) ==
    /\ stage[r] = from /\ stage' = [stage EXCEPT ![r] = to]
    /\ UNCHANGED <<count, mirror, mirror_size, dirty, lock, loaderVars, render, cursor,
                   seen, upload_count, set_exists, gpu>>

get_world_matrix(r) ==
    /\ Inside(r, "test", IF transforms[At(r)].transform_dirty THEN "compute" ELSE "returned")
    /\ UNCHANGED transforms

set_TRS(r) ==
    /\ Inside(r, "compute", "clean")
    /\ transforms' = [transforms EXCEPT ![At(r)].transform = transforms[At(r)].position]

clear_transform_dirty(r) ==
    /\ Inside(r, "clean", "cache")
    /\ transforms' = [transforms EXCEPT ![At(r)].transform_dirty = FALSE]

cache_matrix(r) ==
    /\ Inside(r, "cache", "returned")
    /\ transforms' = [transforms EXCEPT ![At(r)].world_matrix = transforms[At(r)].transform]

\* A pipeline layout with the scene's set is made (get_or_create_descriptor_set).
create_scene_set ==
    /\ ~set_exists /\ set_exists' = TRUE
    /\ UNCHANGED <<ecs, loaderVars, render, scanVars, upload_count, gpu>>

-----------------------------------------------------------------------------
(* The render thread: sync_gpu_transforms.                                  *)

\* The frame returns without a look at the transforms.
Skips == ~dirty /\ bound

upload_transform_buffer ==
    /\ render = "idle" /\ set_exists /\ ~Skips
    /\ render' = "lock"
    /\ UNCHANGED <<ecs, loaderVars, scanVars, upload_count, set_exists, gpu>>

sync_gpu_transforms ==
    /\ render = "lock" /\ lock = "free" /\ lock' = "render"
    /\ ensure_gpu_transform_capacity(count)
    /\ cursor' = 1 /\ render' = "scan"
    /\ UNCHANGED <<transforms, count, mirror, loaderVars, seen, stage, upload_count,
                   set_exists, gpu>>

\* Mutant: the scan ends at the first entity that did not change.
sync_compare_Stops ==
    /\ render = "scan" /\ cursor <= count
    /\ seen' = transforms[cursor].version
    /\ IF seen' = mirror[cursor].version
       THEN cursor' = count + 1 /\ UNCHANGED <<render, stage>>
       ELSE /\ render' = "cached" /\ stage' = [stage EXCEPT !["render"] = "test"]
            /\ UNCHANGED cursor
    /\ UNCHANGED <<ecs, loaderVars, upload_count, set_exists, gpu>>

sync_compare ==
    /\ render = "scan" /\ cursor <= count
    /\ seen' = transforms[cursor].version
    /\ IF seen' = mirror[cursor].version
       THEN cursor' = cursor + 1 /\ UNCHANGED <<render, stage>>
       ELSE /\ render' = "cached" /\ stage' = [stage EXCEPT !["render"] = "test"]
            /\ UNCHANGED cursor
    /\ UNCHANGED <<ecs, loaderVars, upload_count, set_exists, gpu>>

sync_store ==
    /\ render = "cached" /\ stage["render"] = "returned" /\ render' = "scan"
    /\ mirror' = [mirror EXCEPT ![cursor] =
                     [matrix |-> transforms[cursor].world_matrix, version |-> seen]]
    /\ dirty' = TRUE /\ cursor' = cursor + 1
    /\ UNCHANGED <<transforms, count, mirror_size, lock, loaderVars, seen, stage,
                   upload_count, set_exists, gpu>>

\* Mutant: the refreshed mirror is taken for the uploaded one.
sync_return_Cleans ==
    /\ render = "scan" /\ cursor > count
    /\ lock' = "free" /\ render' = "count" /\ dirty' = FALSE
    /\ UNCHANGED <<transforms, count, mirror, mirror_size, loaderVars, scanVars,
                   upload_count, set_exists, gpu>>

sync_return ==
    /\ render = "scan" /\ cursor > count
    /\ lock' = "free" /\ render' = "count"
    /\ UNCHANGED <<transforms, count, mirror, mirror_size, dirty, loaderVars, scanVars,
                   upload_count, set_exists, gpu>>

-----------------------------------------------------------------------------
(* The render thread: the buffer.                                           *)

\* A copy of the first n slots of the mirror. Past the mirror's end the copy
\* reads memory of nobody.
Copied(n) ==
    [i \in Slots |-> IF i > n THEN buffer[i]
                     ELSE IF i <= mirror_size THEN mirror[i].matrix ELSE Unset]

read_count ==
    /\ render = "count" /\ upload_count' = count
    /\ render' = IF count > buffer_size THEN "grow" ELSE "bind"
    /\ UNCHANGED <<ecs, loaderVars, scanVars, set_exists, gpu>>

\* Mutant: the descriptor is taken to follow the buffer.
grow_transform_gpu_buffer_Bound ==
    /\ render = "grow" /\ render' = "refill"
    /\ buffer_size' = MaxOf(MaxOf(upload_count, 1), 2 * buffer_size)
    /\ buffer' = [i \in Slots |-> Unset] /\ buffer_id' = buffer_id + 1
    /\ UNCHANGED <<ecs, loaderVars, scanVars, upload_count, set_exists, bound, descriptor>>

\* The old buffer is destroyed at once, a larger one is created.
grow_transform_gpu_buffer ==
    /\ render = "grow" /\ render' = "refill"
    /\ buffer_size' = MaxOf(MaxOf(upload_count, 1), 2 * buffer_size)
    /\ buffer' = [i \in Slots |-> Unset] /\ buffer_id' = buffer_id + 1
    /\ bound' = FALSE
    /\ UNCHANGED <<ecs, loaderVars, scanVars, upload_count, set_exists, descriptor>>

\* used_count is read again.
refill ==
    /\ render = "refill" /\ render' = "bind"
    /\ buffer' = Copied(MinOf(count, buffer_size))
    /\ UNCHANGED <<ecs, loaderVars, scanVars, upload_count, set_exists, buffer_size,
                   buffer_id, bound, descriptor>>

bind_transform_storage_buffer_if_needed ==
    /\ render = "bind"
    /\ descriptor' = IF bound THEN descriptor ELSE buffer_id
    /\ bound' = TRUE
    /\ render' = IF dirty THEN "copy" ELSE "idle"
    /\ UNCHANGED <<ecs, loaderVars, scanVars, upload_count, set_exists, buffer,
                   buffer_size, buffer_id>>

\* Mutant: the count is read again after the buffer was sized by the first.
UploadSize_Reread == MaxOf(count, 1)

\* upload_count, in elements.
UploadSize == MaxOf(upload_count, 1)

copy_from_immediately ==
    /\ render = "copy" /\ render' = "clear"
    /\ buffer' = Copied(UploadSize)
    /\ UNCHANGED <<ecs, loaderVars, scanVars, upload_count, set_exists, buffer_size,
                   buffer_id, bound, descriptor>>

clear_gpu_transforms_dirty ==
    /\ render = "clear" /\ render' = "idle"
    /\ dirty' = FALSE
    /\ UNCHANGED <<transforms, count, mirror, mirror_size, lock, loaderVars, scanVars,
                   upload_count, set_exists, gpu>>

-----------------------------------------------------------------------------
Emplacing == emplace_capacity \/ mark_gpu_transforms_dirty

WorldMatrix(r) == get_world_matrix(r) \/ set_TRS(r) \/ clear_transform_dirty(r) \/ cache_matrix(r)

Load ==
    \/ emplace_primitive \/ Emplacing
    \/ \E i \in Entities : set_value(i)
    \/ set_position \/ set_transform_dirty \/ advance_version
    \/ build_grid \/ get_primitive_world_bounds \/ compute_entity_bounds \/ finish_load
    \/ WorldMatrix("loader")

Sync ==
    \/ sync_gpu_transforms \/ sync_compare \/ WorldMatrix("render")
    \/ sync_store \/ sync_return

Upload ==
    \/ upload_transform_buffer \/ Sync \/ read_count \/ grow_transform_gpu_buffer
    \/ refill \/ bind_transform_storage_buffer_if_needed
    \/ copy_from_immediately \/ clear_gpu_transforms_dirty

TFNext == Load \/ create_scene_set \/ Upload

\* The render thread calls update_per_frame again and again; the loader goes on
\* inside emplace_primitive. It makes finitely many entities, so the mutex does
\* not have to be fair.
TFSpec == /\ TFInit /\ [][TFNext]_tfVars
          /\ WF_tfVars(Upload) /\ WF_tfVars(Emplacing)

-----------------------------------------------------------------------------
(* Properties.                                                             *)

\* What the mirror was given is on the GPU between two uploads: every way out
\* of upload_transform_buffer, the skip and the growth of the buffer included,
\* leaves each synchronised slot equal to the mirror's.
BufferHoldsMirror ==
    render = "idle" =>
        \A i \in Slots : mirror[i].version # Unset => buffer[i] = mirror[i].matrix

\* The copy stays inside the buffer that was sized before it, although entities
\* are added between the count and the copy.
UploadInsideBuffer == render = "copy" => UploadSize <= buffer_size

\* A frame is recorded with the descriptor on the buffer that exists: growth
\* destroys the one it pointed at.
DescriptorOnLiveBuffer ==
    render = "idle" /\ descriptor # 0 => descriptor = buffer_id

\* When a frame starts with the dirty flag set, every move that an entity's
\* version counts at that time reaches the buffer, in its matrix, unless the slot
\* is given a matrix older than its version, which UnchangedWhenSkipped will tell.
DirtyReachesGPU ==
    \A i \in Slots : \A n \in 0 .. MaxMoves :
        (render = "idle" /\ dirty /\ set_exists /\ i \in Entities /\ transforms[i].version >= n)
            ~> (buffer[i] >= n \/ mirror[i].matrix < mirror[i].version)

\* frame_resources.cpp:441, "Avoid scanning/copying when transforms are known to
\* be unchanged and the descriptor buffer is already bound": after the load, a
\* frame that skips has no transform the mirror does not have. Setters that do not
\* mark, a mark lost to the reset of another and an old matrix under a new version
\* all violate it.
UnchangedWhenSkipped ==
    ~loading /\ render = "idle" /\ Skips =>
        \A i \in Entities : mirror[i].matrix = transforms[i].position
=============================================================================
