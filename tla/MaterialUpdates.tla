---------------------------- MODULE MaterialUpdates ----------------------------
(***************************************************************************)
(* Material properties on their way to the GPU: Material::set_property for *)
(* values and for textures, the queue of FrameResources, the batch that    *)
(* process_material_update works off every frame, and Material's gate for  *)
(* drawing, is_renderable. The async loader sets properties on a worker    *)
(* while the render thread runs the batch; in_update_queue_, dirty and the *)
(* bytes themselves are plain memory that both threads touch, so every     *)
(* access is a step of its own.                                            *)
(*                                                                         *)
(* The bytes of a material are a version, the number of writes made to it. *)
(* Growing the buffers, and samplers (which only write a descriptor), are  *)
(* left out; so is the resize of the staging vector, whose race with the   *)
(* copy has no defined outcome.                                            *)
(***************************************************************************)
EXTENDS Naturals, Sequences, FiniteSets

CONSTANTS Materials,
          GlobalMaterials, \* those whose bytes live in g_materials; the others
                           \* own a uniform buffer and a descriptor set
          Names,           \* texture properties
          Textures,
          Writers,         \* threads that set properties, besides the render thread
          Render,
          None,
          MaxWrites        \* bound: set_property calls of each writer

ASSUME MUGlobals == GlobalMaterials \subseteq Materials /\ Materials # {}

ASSUME MURender == Render \notin Writers /\ None \notin Textures /\ MaxWrites \in Nat

VARIABLES staged,      \* version of the bytes on the CPU
          uploaded,    \* version of the bytes on the GPU
          dirty,       \* OwnedUniformBuffer::dirty
          in_update_queue,
          updates,     \* material_update_queue_
          handles,     \* texture_handles_: name -> texture
          textures_ready,
          gpu_ready,   \* the textures that are GPU_Ready
          pc, job,     \* where each thread is, with which request
          to_draw,     \* the materials the render thread still has to draw
          writes,      \* calls each writer has left
          last_set,    \* history: the texture last queued for a name
          bound        \* history: version when a texture was last bound

bytes == <<staged, uploaded, dirty, in_update_queue>>
drawing == <<handles, textures_ready, gpu_ready, to_draw>>
history == <<last_set, bound>>
muVars == <<bytes, updates, drawing, pc, job, writes, history>>

MUThreads == Writers \cup {Render}
UniformBuffer(m) == [kind |-> "uniform", material |-> m, name |-> None, texture |-> None]
TextureRequest(m, n, t) == [kind |-> "texture", material |-> m, name |-> n, texture |-> t]
Step(th, s) == pc' = [pc EXCEPT ![th] = s]
mat(th) == job[th].material
Unbound == [m \in Materials |-> [n \in Names |-> None]]

MUInit ==
    /\ staged = [m \in Materials |-> 0] /\ uploaded = staged
    /\ dirty = [m \in Materials |-> m \notin GlobalMaterials]
    /\ in_update_queue = [m \in Materials |-> FALSE]
    /\ updates = <<>>
    /\ handles = Unbound
    /\ textures_ready = [m \in Materials |-> TRUE]
    /\ gpu_ready = {}
    /\ pc = [th \in MUThreads |-> "idle"]
    /\ job = [th \in MUThreads |-> UniformBuffer(CHOOSE m \in Materials : TRUE)]
    /\ to_draw = {}
    /\ writes = [w \in Writers |-> MaxWrites]
    /\ last_set = Unbound
    /\ bound = [m \in Materials |-> 0]

-----------------------------------------------------------------------------
(* set_property with a value, on a writer and, for the index of a texture  *)
(* it has just bound, on the render thread.                                *)

\* Where a thread goes on when set_property returns.
Returned(th) == IF th = Render THEN "unready" ELSE "idle"

set_property(w, m) ==
    /\ pc[w] = "idle" /\ writes[w] > 0
    /\ writes' = [writes EXCEPT ![w] = @ - 1]
    /\ staged' = [staged EXCEPT ![m] = @ + 1]
    /\ job' = [job EXCEPT ![w] = UniformBuffer(m)]
    /\ Step(w, IF m \in GlobalMaterials THEN "test" ELSE "dirty")
    /\ UNCHANGED <<uploaded, dirty, in_update_queue, updates, drawing, history>>

mark_dirty(w) ==
    /\ pc[w] = "dirty"
    /\ dirty' = [dirty EXCEPT ![mat(w)] = TRUE]
    /\ Step(w, "test")
    /\ UNCHANGED <<staged, uploaded, in_update_queue, updates, drawing, job, writes, history>>

\* Mutant: inside the batch nothing is queued, the upload comes anyway.
try_queue_test_NotInBatch(th) ==
    /\ pc[th] = "test"
    /\ Step(th, IF th = Render \/ in_update_queue[mat(th)] THEN Returned(th) ELSE "mark")
    /\ UNCHANGED <<bytes, updates, drawing, job, writes, history>>

try_queue_test(th) ==
    /\ pc[th] = "test"
    /\ Step(th, IF in_update_queue[mat(th)] THEN Returned(th) ELSE "mark")
    /\ UNCHANGED <<bytes, updates, drawing, job, writes, history>>

try_queue_mark(th) ==
    /\ pc[th] = "mark"
    /\ in_update_queue' = [in_update_queue EXCEPT ![mat(th)] = TRUE]
    /\ Step(th, "push")
    /\ UNCHANGED <<staged, uploaded, dirty, updates, drawing, job, writes, history>>

try_queue_push(th) ==
    /\ pc[th] = "push"
    /\ updates' = Append(updates, UniformBuffer(mat(th)))
    /\ Step(th, Returned(th))
    /\ UNCHANGED <<bytes, drawing, job, writes, history>>

-----------------------------------------------------------------------------
(* set_property with a texture handle.                                     *)

set_texture(w, m, n, t) ==
    /\ pc[w] = "idle" /\ writes[w] > 0 /\ t # None
    /\ writes' = [writes EXCEPT ![w] = @ - 1]
    /\ textures_ready' = [textures_ready EXCEPT ![m] = FALSE]
    /\ job' = [job EXCEPT ![w] = TextureRequest(m, n, t)]
    /\ Step(w, "push_texture")
    /\ UNCHANGED <<bytes, updates, handles, gpu_ready, to_draw, history>>

push_texture(w) ==
    /\ pc[w] = "push_texture"
    /\ updates' = Append(updates, job[w])
    /\ last_set' = [last_set EXCEPT ![mat(w)][job[w].name] = job[w].texture]
    /\ Step(w, "idle")
    /\ UNCHANGED <<bytes, drawing, job, writes, bound>>

-----------------------------------------------------------------------------
(* process_material_update on the render thread.                           *)

update_per_frame ==
    /\ pc[Render] = "idle"
    /\ Step(Render, "batch")
    /\ UNCHANGED <<bytes, updates, drawing, job, writes, history>>

try_pop ==
    /\ pc[Render] = "batch" /\ updates # <<>>
    /\ job' = [job EXCEPT ![Render] = Head(updates)]
    /\ updates' = Tail(updates)
    /\ Step(Render, IF Head(updates).kind = "texture" THEN "bind" ELSE "copy")
    /\ UNCHANGED <<bytes, drawing, writes, history>>

\* Mutant: a texture that is not on the GPU yet is not bound.
bind_texture_OnlyReady ==
    /\ pc[Render] = "bind"
    /\ LET m == mat(Render) IN
       /\ handles' = [handles EXCEPT ![m][job[Render].name] =
                        IF job[Render].texture \in gpu_ready THEN job[Render].texture ELSE @]
       /\ staged' = [staged EXCEPT ![m] = IF m \in GlobalMaterials THEN @ + 1 ELSE @]
       /\ bound' = [bound EXCEPT ![m] = staged'[m]]
       /\ Step(Render, IF m \in GlobalMaterials THEN "test" ELSE "unready")
    /\ UNCHANGED <<uploaded, dirty, in_update_queue, updates, textures_ready, gpu_ready,
                   to_draw, job, writes, last_set>>

\* The handle, and for a global material its index into the staged bytes.
bind_texture ==
    /\ pc[Render] = "bind"
    /\ LET m == mat(Render) IN
       /\ handles' = [handles EXCEPT ![m][job[Render].name] = job[Render].texture]
       /\ staged' = [staged EXCEPT ![m] = IF m \in GlobalMaterials THEN @ + 1 ELSE @]
       /\ bound' = [bound EXCEPT ![m] = IF m \in GlobalMaterials THEN staged'[m] ELSE @]
       /\ Step(Render, IF m \in GlobalMaterials THEN "test" ELSE "unready")
    /\ UNCHANGED <<uploaded, dirty, in_update_queue, updates, textures_ready, gpu_ready,
                   to_draw, job, writes, last_set>>

\* Mutant: set_property has reset the flag already.
bind_texture_end_KeepsReady ==
    /\ pc[Render] = "unready"
    /\ Step(Render, "batch")
    /\ UNCHANGED <<bytes, updates, drawing, job, writes, history>>

bind_texture_end ==
    /\ pc[Render] = "unready"
    /\ textures_ready' = [textures_ready EXCEPT ![mat(Render)] = FALSE]
    /\ Step(Render, "batch")
    /\ UNCHANGED <<bytes, updates, handles, gpu_ready, to_draw, job, writes, history>>

\* A global material's slot is copied; an owned buffer when it is dirty, and
\* afterwards it is not.
Upload(m) == uploaded' = [uploaded EXCEPT ![m] = staged[m]]

copy_from_immediately ==
    /\ pc[Render] = "copy"
    /\ LET m == mat(Render) IN
       IF m \in GlobalMaterials THEN Upload(m) /\ Step(Render, "clear")
       ELSE IF dirty[m] THEN Upload(m) /\ Step(Render, "clean")
       ELSE Step(Render, "clear") /\ UNCHANGED uploaded
    /\ UNCHANGED <<staged, dirty, in_update_queue, updates, drawing, job, writes, history>>

clear_dirty ==
    /\ pc[Render] = "clean"
    /\ dirty' = [dirty EXCEPT ![mat(Render)] = FALSE]
    /\ Step(Render, "clear")
    /\ UNCHANGED <<staged, uploaded, in_update_queue, updates, drawing, job, writes, history>>

\* Mutant: the branch of the global buffer does not reach the reset.
clear_uniform_buffer_update_queued_NotGlobal ==
    /\ pc[Render] = "clear"
    /\ in_update_queue' = [in_update_queue EXCEPT ![mat(Render)] = @ /\ mat(Render) \in GlobalMaterials]
    /\ Step(Render, "batch")
    /\ UNCHANGED <<staged, uploaded, dirty, updates, drawing, job, writes, history>>

clear_uniform_buffer_update_queued ==
    /\ pc[Render] = "clear"
    /\ in_update_queue' = [in_update_queue EXCEPT ![mat(Render)] = FALSE]
    /\ Step(Render, "batch")
    /\ UNCHANGED <<staged, uploaded, dirty, updates, drawing, job, writes, history>>

-----------------------------------------------------------------------------
(* The frame's draws, and the textures.                                    *)

BeginDraw ==
    /\ pc[Render] = "batch" /\ updates = <<>>
    /\ to_draw' = Materials
    /\ Step(Render, "draw")
    /\ UNCHANGED <<bytes, updates, handles, textures_ready, gpu_ready, job, writes, history>>

BoundTextures(m) == {handles[m][n] : n \in Names} \ {None}
evaluate_textures_ready(m) == BoundTextures(m) \subseteq gpu_ready

\* is_renderable of one material: a flag that is set stays set, and what was
\* evaluated is stored in a step of its own.
is_renderable(m) ==
    /\ pc[Render] = "draw" /\ m \in to_draw
    /\ to_draw' = to_draw \ {m}
    /\ IF ~textures_ready[m] /\ evaluate_textures_ready(m)
       THEN job' = [job EXCEPT ![Render] = UniformBuffer(m)] /\ Step(Render, "store")
       ELSE UNCHANGED <<job, pc>>
    /\ UNCHANGED <<bytes, updates, handles, textures_ready, gpu_ready, writes, history>>

store_ready ==
    /\ pc[Render] = "store"
    /\ textures_ready' = [textures_ready EXCEPT ![mat(Render)] = TRUE]
    /\ Step(Render, "draw")
    /\ UNCHANGED <<bytes, updates, handles, gpu_ready, to_draw, job, writes, history>>

EndFrame ==
    /\ pc[Render] = "draw" /\ to_draw = {}
    /\ Step(Render, "idle")
    /\ UNCHANGED <<bytes, updates, drawing, job, writes, history>>

\* TextureGPUResourceRequest::process, on the GPU resource thread.
TextureReady(t) ==
    /\ t \notin gpu_ready
    /\ gpu_ready' = gpu_ready \cup {t}
    /\ UNCHANGED <<bytes, updates, handles, textures_ready, pc, job, to_draw, writes, history>>

Queueing(th) == try_queue_test(th) \/ try_queue_mark(th) \/ try_queue_push(th)

WriterStep(w) ==
    \/ \E m \in Materials : set_property(w, m)
    \/ \E m \in Materials, n \in Names, t \in Textures \cup {None} : set_texture(w, m, n, t)
    \/ mark_dirty(w) \/ push_texture(w) \/ Queueing(w)

process_material_update ==
    \/ try_pop \/ bind_texture \/ Queueing(Render) \/ bind_texture_end
    \/ copy_from_immediately \/ clear_dirty \/ clear_uniform_buffer_update_queued

RenderStep ==
    \/ update_per_frame \/ process_material_update
    \/ BeginDraw \/ (\E m \in Materials : is_renderable(m)) \/ store_ready \/ EndFrame

MUNext ==
    \/ RenderStep
    \/ \E w \in Writers : WriterStep(w)
    \/ \E t \in Textures : TextureReady(t)

\* The render loop goes on, a call that was begun returns, and the GPU resource
\* thread gets to every texture. Nobody has to set a property.
MUSpec == /\ MUInit /\ [][MUNext]_muVars
          /\ WF_muVars(RenderStep)
          /\ \A w \in Writers : WF_muVars(mark_dirty(w) \/ push_texture(w) \/ Queueing(w))
          /\ \A t \in Textures : WF_muVars(TextureReady(t))

-----------------------------------------------------------------------------
MUSteps == {"idle", "dirty", "test", "mark", "push", "push_texture", "batch", "bind",
            "unready", "copy", "clean", "clear", "draw", "store"}

Requests == {UniformBuffer(m) : m \in Materials}
            \cup {TextureRequest(m, n, t) : m \in Materials, n \in Names, t \in Textures}

\* Every variable keeps its type; the GPU never has bytes the CPU had not.
MUTypeOK ==
    /\ staged \in [Materials -> Nat] /\ uploaded \in [Materials -> Nat]
    /\ bound \in [Materials -> Nat]
    /\ \A m \in Materials : uploaded[m] <= staged[m] /\ bound[m] <= staged[m]
    /\ dirty \in [Materials -> BOOLEAN]
    /\ in_update_queue \in [Materials -> BOOLEAN]
    /\ updates \in Seq(Requests)
    /\ handles \in [Materials -> [Names -> Textures \cup {None}]]
    /\ last_set \in [Materials -> [Names -> Textures \cup {None}]]
    /\ textures_ready \in [Materials -> BOOLEAN]
    /\ gpu_ready \subseteq Textures /\ to_draw \subseteq Materials
    /\ pc \in [MUThreads -> MUSteps]
    /\ job \in [MUThreads -> Requests]
    /\ writes \in [Writers -> 0..MaxWrites]

Queued(m) == \E i \in DOMAIN updates : updates[i] = UniformBuffer(m)
Pushing(m) == \E th \in MUThreads : pc[th] \in {"mark", "push"} /\ mat(th) = m
Uploading(m) == pc[Render] \in {"copy", "clean", "clear"} /\ mat(Render) = m

\* in_update_queue_ never stays set without a request that will reset it; if it
\* did, no value of the material would ever be uploaded again.
FlagIsServed ==
    \A m \in Materials : in_update_queue[m] => Queued(m) \/ Pushing(m) \/ Uploading(m)

\* "True when every bound texture is GPU_Ready": a material draws with no bound
\* texture that is not, although set_property resets the flag long before the
\* batch binds and the draws in between set it again.
ReadyMeansReady ==
    \A m \in Materials :
        textures_ready[m]
        /\ ~(pc[Render] \in {"test", "mark", "push", "unready"} /\ mat(Render) = m)
        => evaluate_textures_ready(m)

\* The index of a bound texture reaches the GPU even though its request may have
\* been taken for one that the loader has marked and not pushed: when nothing of
\* the material is on its way, the upload is as new as the last binding.
BindingsUploaded ==
    \A m \in GlobalMaterials :
        uploaded[m] < bound[m] =>
            \/ Queued(m) \/ Pushing(m) \/ Uploading(m)
            \/ pc[Render] = "test" /\ mat(Render) = m

\* Whatever is set last stays bound and makes the material drawable in the end.
SettlesOnLastTexture ==
    <>[](\A m \in Materials : handles[m] = last_set[m] /\ textures_ready[m])

\* frame_resources.h:123, "Queue a material texture / sampler / uniform-buffer
\* update (safe from any thread)": when no request is queued, being made or being
\* processed, the GPU has the last value set.
UploadsCatchUp ==
    \A m \in Materials :
        updates = <<>> /\ pc[Render] \in {"idle", "draw"} /\ (\A w \in Writers : pc[w] = "idle")
        => uploaded[m] = staged[m]
=============================================================================
