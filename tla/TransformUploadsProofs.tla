------------------------ MODULE TransformUploadsProofs ------------------------
(***************************************************************************)
(* Proofs about the upload of transforms for any number of entities, moves *)
(* and any first capacity. Three invariants, each used by the next:        *)
(*   Sized    who holds the mutex, and what the two sizes cover,           *)
(*   Synced   the slots of the mirror that were filled lie inside both,    *)
(*   Arrived  where the buffer holds what was filled.                      *)
(***************************************************************************)
EXTENDS TransformUploads, TLAPS

Scanning == render = "cached"
Counted == render \in {"grow", "refill", "bind", "copy", "clear"}

Sized ==
    /\ count \in Nat /\ mirror_size \in Nat /\ cursor \in Nat
    /\ upload_count \in Nat /\ buffer_size \in Nat /\ buffer_size >= 1
    /\ lock = "render" <=> Scanning \/ render = "scan"
    /\ lock = "loader" <=> loader \in {"pushed", "sized"}
    /\ loader # "pushed" => count <= mirror_size
    /\ Scanning => cursor <= count
    /\ Counted => upload_count <= count
    /\ render \in {"refill", "bind", "copy"} => upload_count <= buffer_size

Descriptor ==
    /\ bound => descriptor = buffer_id
    /\ ~bound /\ descriptor # 0 => render \in {"refill", "bind"}

Filled(i) == mirror[i].version # Unset

Synced ==
    /\ mirror = [i \in Slots |-> mirror[i]]
    /\ \A i \in Slots : Filled(i) => i <= count /\ i <= mirror_size
    /\ Counted => \A i \in Slots : Filled(i) => i <= upload_count

Holds == \A i \in Slots : Filled(i) => buffer[i] = mirror[i].matrix

Arrived ==
    /\ render \in {"idle", "lock", "clear"} => Holds
    /\ render \notin {"refill", "copy"} => Holds \/ dirty

-----------------------------------------------------------------------------
(* The steps.                                                              *)

Setters == set_position \/ set_transform_dirty \/ advance_version
Grid == build_grid \/ get_primitive_world_bounds \/ compute_entity_bounds \/ finish_load

\* The actions, with the two readers of get_world_matrix as one.
LEMMA Steps ==
  ASSUME [TFNext]_tfVars
  PROVE  \/ emplace_primitive \/ Emplacing
         \/ \E i \in Entities : set_value(i)
         \/ Setters \/ Grid \/ create_scene_set
         \/ upload_transform_buffer \/ sync_gpu_transforms \/ sync_compare
         \/ \E r \in Readers : WorldMatrix(r)
         \/ sync_store \/ sync_return \/ read_count \/ grow_transform_gpu_buffer
         \/ refill \/ bind_transform_storage_buffer_if_needed
         \/ copy_from_immediately \/ clear_gpu_transforms_dirty
         \/ UNCHANGED tfVars
BY DEF TFNext, Load, Upload, Sync, Setters, Grid, Readers

\* get_world_matrix writes the component it is asked of, whoever calls it.
LEMMA OnlyTransforms ==
  ASSUME NEW r \in Readers, WorldMatrix(r)
  PROVE  UNCHANGED <<count, mirror, mirror_size, dirty, lock, loaderVars, render,
                     cursor, upload_count, set_exists, gpu>>
BY DEF WorldMatrix, get_world_matrix, set_TRS, clear_transform_dirty, cache_matrix, Inside

-----------------------------------------------------------------------------
(* The sizes.                                                              *)

LEMMA Capacity ==
  ASSUME Sized, ensure_gpu_transform_capacity(count)
  PROVE  /\ mirror_size' \in Nat
         /\ count <= mirror_size'
         /\ mirror_size <= mirror_size'
         /\ dirty => dirty'
BY DEF Sized, ensure_gpu_transform_capacity

LEMMA SizedInit == TFInit => Sized
BY CapacitiesPositive DEF TFInit, Sized, Scanning, Counted

LEMMA SizedStep == Sized /\ [TFNext]_tfVars => Sized'
<1> SUFFICES ASSUME Sized, [TFNext]_tfVars PROVE Sized'
  OBVIOUS
<1> USE DEF Sized, Scanning, Counted
<1>1. CASE emplace_primitive
  BY <1>1 DEF emplace_primitive, scanVars, gpu
<1>2. CASE emplace_capacity
  <2>1. mirror_size' \in Nat /\ count <= mirror_size'
    BY <1>2, Capacity DEF emplace_capacity
  <2> QED
    BY <1>2, <2>1 DEF emplace_capacity, scanVars, gpu
<1>3. CASE mark_gpu_transforms_dirty
  BY <1>3 DEF mark_gpu_transforms_dirty, scanVars, gpu
<1>4. ASSUME NEW i \in Entities, set_value(i) PROVE Sized'
  BY <1>4 DEF set_value, scanVars, gpu
<1>5. CASE Setters \/ create_scene_set
  BY <1>5 DEF Setters, set_position, set_transform_dirty, advance_version,
     create_scene_set, ecs, loaderVars, scanVars, gpu
<1>6. CASE Grid
  BY <1>6 DEF Grid, build_grid, get_primitive_world_bounds, compute_entity_bounds,
     finish_load, ecs, scanVars, gpu
<1>7. CASE upload_transform_buffer
  BY <1>7 DEF upload_transform_buffer, ecs, loaderVars, scanVars, gpu
<1>8. CASE sync_gpu_transforms
  <2>1. mirror_size' \in Nat /\ count <= mirror_size'
    BY <1>8, Capacity DEF sync_gpu_transforms
  <2> QED
    BY <1>8, <2>1 DEF sync_gpu_transforms, loaderVars, gpu
<1>9. CASE sync_compare
  BY <1>9 DEF sync_compare, ecs, loaderVars, gpu
<1>10. ASSUME NEW r \in Readers, WorldMatrix(r) PROVE Sized'
  BY <1>10, OnlyTransforms DEF loaderVars, gpu
<1>11. CASE sync_store
  BY <1>11 DEF sync_store, loaderVars, gpu
<1>12. CASE sync_return
  BY <1>12 DEF sync_return, loaderVars, scanVars, gpu
<1>13. CASE read_count
  BY <1>13 DEF read_count, ecs, loaderVars, scanVars, gpu
<1>14. CASE grow_transform_gpu_buffer
  BY <1>14 DEF grow_transform_gpu_buffer, ecs, loaderVars, scanVars, MaxOf
<1>15. CASE refill \/ bind_transform_storage_buffer_if_needed
  BY <1>15 DEF refill, bind_transform_storage_buffer_if_needed, ecs, loaderVars, scanVars
<1>16. CASE copy_from_immediately
  BY <1>16 DEF copy_from_immediately, ecs, loaderVars, scanVars
<1>17. CASE clear_gpu_transforms_dirty
  BY <1>17 DEF clear_gpu_transforms_dirty, loaderVars, scanVars, gpu
<1>18. CASE UNCHANGED tfVars
  BY <1>18 DEF tfVars, ecs, loaderVars, scanVars, gpu
<1> QED
  BY <1>1, <1>2, <1>3, <1>4, <1>5, <1>6, <1>7, <1>8, <1>9, <1>10, <1>11, <1>12,
     <1>13, <1>14, <1>15, <1>16, <1>17, <1>18, Steps DEF Emplacing

-----------------------------------------------------------------------------
(* The descriptor.                                                         *)

LEMMA DescriptorStep == Descriptor /\ [TFNext]_tfVars => Descriptor'
<1> SUFFICES ASSUME Descriptor, [TFNext]_tfVars PROVE Descriptor'
  OBVIOUS
<1> USE DEF Descriptor
<1>1. CASE emplace_primitive \/ Emplacing \/ Setters \/ Grid \/ create_scene_set
  BY <1>1 DEF Emplacing, emplace_primitive, emplace_capacity,
     mark_gpu_transforms_dirty, Setters, set_position, set_transform_dirty,
     advance_version, Grid, build_grid, get_primitive_world_bounds,
     compute_entity_bounds, finish_load, create_scene_set, gpu
<1>2. ASSUME NEW i \in Entities, set_value(i) PROVE Descriptor'
  BY <1>2 DEF set_value, gpu
<1>3. ASSUME NEW r \in Readers, WorldMatrix(r) PROVE Descriptor'
  BY <1>3, OnlyTransforms DEF gpu
<1>4. CASE upload_transform_buffer \/ sync_gpu_transforms \/ sync_compare
           \/ sync_store \/ sync_return \/ read_count
  BY <1>4 DEF upload_transform_buffer, sync_gpu_transforms, sync_compare,
     sync_store, sync_return, read_count, gpu
<1>5. CASE grow_transform_gpu_buffer
  BY <1>5 DEF grow_transform_gpu_buffer
<1>6. CASE refill
  BY <1>6 DEF refill
<1>7. CASE bind_transform_storage_buffer_if_needed
  BY <1>7 DEF bind_transform_storage_buffer_if_needed
<1>8. CASE copy_from_immediately \/ clear_gpu_transforms_dirty
  BY <1>8 DEF copy_from_immediately, clear_gpu_transforms_dirty, gpu
<1>9. CASE UNCHANGED tfVars
  BY <1>9 DEF tfVars, gpu
<1> QED
  BY <1>1, <1>2, <1>3, <1>4, <1>5, <1>6, <1>7, <1>8, <1>9, Steps

-----------------------------------------------------------------------------
(* The mirror.                                                             *)

LEMMA SyncedInit == TFInit => Synced
BY DEF TFInit, Synced, Filled, Unsynced, Counted

\* Steps that leave the mirror alone keep Synced when no size shrinks.
LEMMA SyncedKept ==
  ASSUME Synced, Sized, mirror' = mirror, count' \in Nat, count <= count',
         mirror_size' \in Nat, mirror_size <= mirror_size',
         upload_count' = upload_count, Counted' => Counted
  PROVE  Synced'
BY DEF Synced, Sized, Filled, Slots

LEMMA SyncedStep == Sized /\ Synced /\ [TFNext]_tfVars => Synced'
<1> SUFFICES ASSUME Sized, Synced, [TFNext]_tfVars PROVE Synced'
  OBVIOUS
<1>1. CASE emplace_primitive \/ mark_gpu_transforms_dirty
  BY <1>1, SyncedKept DEF emplace_primitive, mark_gpu_transforms_dirty, Sized, Counted
<1>2. CASE emplace_capacity
  BY <1>2, SyncedKept, Capacity DEF emplace_capacity, Sized, Counted
<1>3. ASSUME NEW i \in Entities, set_value(i) PROVE Synced'
  BY <1>3, SyncedKept DEF set_value, Sized, Counted
<1>4. CASE Setters \/ Grid \/ create_scene_set
  BY <1>4, SyncedKept DEF Setters, set_position, set_transform_dirty, advance_version,
     Grid, build_grid, get_primitive_world_bounds, compute_entity_bounds, finish_load,
     create_scene_set, ecs, Sized, Counted
<1>5. ASSUME NEW r \in Readers, WorldMatrix(r) PROVE Synced'
  BY <1>5, OnlyTransforms, SyncedKept DEF Sized, Counted
<1>6. CASE sync_gpu_transforms
  BY <1>6, SyncedKept, Capacity DEF sync_gpu_transforms, Sized, Counted
<1>7. CASE sync_store
  <2>1. cursor <= count /\ cursor <= mirror_size /\ cursor \in Nat
    BY <1>7 DEF sync_store, Sized, Scanning
  <2>2. /\ mirror' = [i \in Slots |-> mirror'[i]]
        /\ \A i \in Slots : i # cursor => mirror'[i] = mirror[i]
    BY <1>7 DEF sync_store, Synced
  <2>3. count' = count /\ mirror_size' = mirror_size /\ ~Counted'
    BY <1>7 DEF sync_store, Counted
  <2> QED
    BY <2>1, <2>2, <2>3 DEF Synced, Filled
<1>8. CASE read_count
  BY <1>8 DEF read_count, Synced, Filled, ecs
<1>9. CASE upload_transform_buffer \/ sync_compare \/ sync_return
  BY <1>9, SyncedKept DEF upload_transform_buffer, sync_compare, sync_return, ecs,
     Sized, Counted
<1>10. CASE grow_transform_gpu_buffer \/ refill \/ copy_from_immediately
           \/ clear_gpu_transforms_dirty \/ bind_transform_storage_buffer_if_needed
  BY <1>10, SyncedKept DEF grow_transform_gpu_buffer, refill, copy_from_immediately,
     clear_gpu_transforms_dirty, bind_transform_storage_buffer_if_needed, ecs,
     Sized, Counted
<1>11. CASE UNCHANGED tfVars
  BY <1>11, SyncedKept DEF tfVars, ecs, Sized, Counted
<1> QED
  BY <1>1, <1>2, <1>3, <1>4, <1>5, <1>6, <1>7, <1>8, <1>9, <1>10, <1>11, Steps
     DEF Emplacing

-----------------------------------------------------------------------------
(* The buffer.                                                             *)

\* A copy of n slots brings everything that was filled when it covers it.
LEMMA CopyHolds ==
  ASSUME Sized, Synced, NEW n \in Nat, buffer' = Copied(n), mirror' = mirror,
         \A i \in Slots : Filled(i) => i <= n
  PROVE  Holds'
<1> SUFFICES ASSUME NEW i \in Slots, Filled(i)'
             PROVE  buffer'[i] = mirror'[i].matrix
  BY DEF Holds
<1>1. Filled(i)
  BY DEF Filled
<1>2. i <= n /\ i <= mirror_size /\ i \in Int /\ mirror_size \in Int
  BY <1>1 DEF Synced, Sized, Slots
<1>3. ~(i > n)
  BY <1>2
<1> QED
  BY <1>2, <1>3 DEF Copied

\* Steps that touch neither mirror nor buffer.
LEMMA ArrivedKept ==
  ASSUME Arrived, mirror' = mirror, buffer' = buffer, dirty => dirty',
         render' \in {"idle", "lock", "clear"} => render \in {"idle", "lock", "clear"},
         render' \notin {"refill", "copy"} => render \notin {"refill", "copy"}
  PROVE  Arrived'
BY DEF Arrived, Holds, Filled

LEMMA ArrivedInit == TFInit => Arrived
BY DEF TFInit, Arrived, Holds, Filled, Unsynced

LEMMA ArrivedStep == Sized /\ Synced /\ Arrived /\ [TFNext]_tfVars => Arrived'
<1> SUFFICES ASSUME Sized, Synced, Arrived, [TFNext]_tfVars PROVE Arrived'
  OBVIOUS
<1>1. CASE emplace_primitive \/ mark_gpu_transforms_dirty
  BY <1>1, ArrivedKept DEF emplace_primitive, mark_gpu_transforms_dirty, gpu
<1>2. CASE emplace_capacity
  BY <1>2, ArrivedKept, Capacity DEF emplace_capacity, gpu
<1>3. ASSUME NEW i \in Entities, set_value(i) PROVE Arrived'
  BY <1>3, ArrivedKept DEF set_value, gpu
<1>4. CASE Setters \/ Grid \/ create_scene_set
  BY <1>4, ArrivedKept DEF Setters, set_position, set_transform_dirty, advance_version,
     Grid, build_grid, get_primitive_world_bounds, compute_entity_bounds, finish_load,
     create_scene_set, ecs, gpu
<1>5. ASSUME NEW r \in Readers, WorldMatrix(r) PROVE Arrived'
  BY <1>5, OnlyTransforms, ArrivedKept DEF gpu
<1>6. CASE sync_gpu_transforms
  BY <1>6, ArrivedKept, Capacity DEF sync_gpu_transforms, gpu
<1>7. CASE sync_store
  BY <1>7 DEF sync_store, Arrived
<1>8. CASE upload_transform_buffer \/ sync_compare \/ sync_return \/ read_count
  BY <1>8, ArrivedKept DEF upload_transform_buffer, sync_compare, sync_return,
     read_count, ecs, gpu
<1>9. CASE grow_transform_gpu_buffer
  BY <1>9 DEF grow_transform_gpu_buffer, Arrived
<1>10. CASE refill
  <2>1. /\ MinOf(count, buffer_size) \in Nat
        /\ \A i \in Slots : Filled(i) => i <= MinOf(count, buffer_size)
    BY <1>10 DEF refill, Synced, Sized, Counted, MinOf, Slots
  <2>2. Holds'
    BY <1>10, <2>1, CopyHolds DEF refill, ecs
  <2> QED
    BY <1>10, <2>2 DEF refill, Arrived
<1>11. CASE bind_transform_storage_buffer_if_needed
  BY <1>11 DEF bind_transform_storage_buffer_if_needed, Arrived, Holds, Filled, ecs
<1>12. CASE copy_from_immediately
  <2>1. /\ UploadSize \in Nat
        /\ \A i \in Slots : Filled(i) => i <= UploadSize
    BY <1>12 DEF copy_from_immediately, Synced, Sized, Counted, UploadSize, MaxOf, Slots
  <2>2. Holds'
    BY <1>12, <2>1, CopyHolds DEF copy_from_immediately, ecs
  <2> QED
    BY <1>12, <2>2 DEF copy_from_immediately, Arrived
<1>13. CASE clear_gpu_transforms_dirty
  BY <1>13 DEF clear_gpu_transforms_dirty, Arrived, Holds, Filled, gpu
<1>14. CASE UNCHANGED tfVars
  BY <1>14, ArrivedKept DEF tfVars, ecs, gpu
<1> QED
  BY <1>1, <1>2, <1>3, <1>4, <1>5, <1>6, <1>7, <1>8, <1>9, <1>10, <1>11, <1>12, <1>13,
     <1>14, Steps DEF Emplacing

-----------------------------------------------------------------------------
(* Theorems.                                                               *)

TFInv == Sized /\ Synced /\ Arrived /\ Descriptor

LEMMA Invariance == TFSpec => []TFInv
<1>1. TFInit => TFInv
  BY SizedInit, SyncedInit, ArrivedInit DEF TFInv, TFInit, Descriptor
<1>2. TFInv /\ [TFNext]_tfVars => TFInv'
  BY SizedStep, SyncedStep, ArrivedStep, DescriptorStep DEF TFInv
<1> QED
  BY <1>1, <1>2, PTL DEF TFSpec

\* The copy of upload_transform_buffer never writes past the buffer that was
\* sized before it, however many entities were added since the count.
THEOREM UploadsFit == TFSpec => []UploadInsideBuffer
<1>1. TFInv => UploadInsideBuffer
  BY DEF TFInv, Sized, UploadInsideBuffer, UploadSize, MaxOf
<1> QED
  BY <1>1, Invariance, PTL

\* Between two uploads the buffer holds every matrix sync_gpu_transforms stored,
\* whether the frame copied it, the growth refilled it or the frame skipped.
THEOREM BufferFollowsMirror == TFSpec => []BufferHoldsMirror
<1>1. TFInv => BufferHoldsMirror
  BY DEF TFInv, Arrived, Holds, Filled, BufferHoldsMirror
<1> QED
  BY <1>1, Invariance, PTL

\* bind_transform_storage_buffer_if_needed follows every growth before a frame
\* is recorded.
THEOREM DescriptorFollowsBuffer == TFSpec => []DescriptorOnLiveBuffer
<1>1. TFInv => DescriptorOnLiveBuffer
  BY DEF TFInv, Descriptor, DescriptorOnLiveBuffer
<1> QED
  BY <1>1, Invariance, PTL
=============================================================================
