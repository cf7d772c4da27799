---------------------------- MODULE TextureUploads ----------------------------
(***************************************************************************)
(* From ResourceManager::create_texture to a descriptor the shaders read:  *)
(* the texture cache and its check-then-insert, the slot reserved before   *)
(* the texture exists, TextureGPUResourceRequest::process on the GPU       *)
(* resource thread (or on the caller, for a render target), the queue of   *)
(* bindless updates and its flush on the render thread.                    *)
(*                                                                         *)
(* One step per mutex or queue operation. The request queue is the FIFO of *)
(* GPUResourceThread, modelled in that module; shutdown is not repeated    *)
(* here. Addresses of deleted textures are not reused. A target is a       *)
(* render target with ShaderReadOnly usage: others touch no slot.          *)
(***************************************************************************)
EXTENDS BindlessTextureRegistry

CONSTANTS Keys,           \* keys of sampler textures
          Targets,        \* keys of render targets
          Callers,        \* threads that call create_texture
          TargetCallers,  \* those that call create_render_target_texture too
          GPU,            \* the GPU resource thread
          MaxCalls,       \* bound: calls of each caller
          ArraySize       \* MAX_BINDLESS_TEXTURE_ARRAY_SIZE

ASSUME ThreadsDiffer == GPU \notin Callers /\ TargetCallers \subseteq Callers

ASSUME CallsBounded == MaxCalls \in Nat

\* make_texture_key and the hash of a render target take different arguments;
\* equal hashes are not modelled.
ASSUME KeysDiffer == Keys \cap Targets = {} /\ None \notin Keys \cup Targets

VARIABLES textures,     \* textures_: key -> [index, texture]
          requests,     \* the queue of GPUResourceThread
          state,        \* Texture::gpu_resource_state_, and whether it exists
          pending,      \* pending_bindless_updates_
          set_exists,   \* the descriptor set with g_textures was created
          descriptors,  \* slot -> the texture its descriptor points at
          pc, job,      \* where each thread is, and on which request
          calls,        \* how often each caller may still call
          returned,     \* history: <<key, index>> of every handle returned
          render,       \* the flush on the render thread: its step
          deferred      \* and its local vector

cache == <<textures, requests, calls, returned>>
flush == <<set_exists, descriptors, render, deferred>>
tuVars == <<registry, taken, textures, requests, state, pending, set_exists,
            descriptors, pc, job, calls, returned, render, deferred>>

AllKeys == Keys \cup Targets
Threads == Callers \cup {GPU}
NoJob == [key |-> None, index |-> 0, texture |-> None]

Put(f, x, v) == [y \in DOMAIN f \cup {x} |-> IF y = x THEN v ELSE f[y]]

Cached(k) == k \in DOMAIN textures
Finished(k) == Cached(k) /\ textures[k].texture # None

TUInit ==
    /\ RegistryInit /\ taken = {}
    /\ textures = <<>> /\ requests = <<>> /\ pending = <<>>
    /\ state = [t \in Textures |-> "none"]
    /\ set_exists = FALSE /\ descriptors = <<>>
    /\ pc = [t \in Threads |-> "idle"] /\ job = [t \in Threads |-> NoJob]
    /\ calls = [c \in Callers |-> MaxCalls] /\ returned = {}
    /\ render = "idle" /\ deferred = <<>>

-----------------------------------------------------------------------------
(* create_texture on a caller.                                             *)

Begin(c, k, index, step) ==
    /\ calls[c] > 0
    /\ calls' = [calls EXCEPT ![c] = @ - 1]
    /\ job' = [job EXCEPT ![c] = [NoJob EXCEPT !.key = k, !.index = index]]
    /\ pc' = [pc EXCEPT ![c] = step]

Return(c, k, index) ==
    /\ returned' = returned \cup {<<k, index>>}
    /\ pc' = [pc EXCEPT ![c] = "idle"]
    /\ job' = [job EXCEPT ![c] = NoJob]

create_texture_hit(c, k) ==
    /\ pc[c] = "idle" /\ calls[c] > 0 /\ Cached(k)
    /\ calls' = [calls EXCEPT ![c] = @ - 1]
    /\ returned' = returned \cup {<<k, textures[k].index>>}
    /\ UNCHANGED <<registry, taken, textures, requests, state, pending, flush, pc, job>>

create_texture_miss(c, k) ==
    /\ pc[c] = "idle" /\ ~Cached(k)
    /\ Begin(c, k, 0, "missed")
    /\ UNCHANGED <<registry, taken, textures, requests, returned, state, pending, flush>>

\* allocate_slot, after the cache's mutex was released.
reserve(c) ==
    /\ pc[c] \in {"missed", "target_missed"}
    /\ \E i \in Slots :
        /\ allocate_slot(i)
        /\ taken' = taken \cup {i}
        /\ job' = [job EXCEPT ![c].index = i]
    /\ pc' = [pc EXCEPT ![c] = IF pc[c] = "missed" THEN "reserved" ELSE "create"]
    /\ UNCHANGED <<cache, state, pending, flush>>

\* Mutant: the later of two callers replaces the entry of the first.
insert_Replaces(c) ==
    /\ pc[c] = "reserved"
    /\ textures' = Put(textures, job[c].key, [index |-> job[c].index, texture |-> None])
    /\ pc' = [pc EXCEPT ![c] = "inserted"]
    /\ UNCHANGED <<registry, taken, requests, calls, returned, state, pending, flush, job>>

\* Mutant: the caller that lost the race returns the handle it made itself.
insert_ReturnsOwn(c) ==
    /\ pc[c] = "reserved"
    /\ IF Cached(job[c].key)
       THEN Return(c, job[c].key, job[c].index) /\ UNCHANGED textures
       ELSE /\ textures' = Put(textures, job[c].key, [index |-> job[c].index, texture |-> None])
            /\ pc' = [pc EXCEPT ![c] = "inserted"]
            /\ UNCHANGED <<job, returned>>
    /\ UNCHANGED <<registry, taken, requests, calls, state, pending, flush>>

\* Mutant: the loser releases its slot, and goes on to upload into it.
insert_ReleasesAndGoesOn(c) ==
    /\ pc[c] = "reserved"
    /\ IF Cached(job[c].key)
       THEN release_index(job[c].index) /\ taken' = taken \ {job[c].index} /\ UNCHANGED textures
       ELSE /\ textures' = Put(textures, job[c].key, [index |-> job[c].index, texture |-> None])
            /\ UNCHANGED <<registry, taken>>
    /\ pc' = [pc EXCEPT ![c] = "inserted"]
    /\ UNCHANGED <<requests, calls, returned, state, pending, flush, job>>

\* emplace; when another caller came first its handle is returned and the slot
\* reserved here is dropped, not released.
insert(c) ==
    /\ pc[c] = "reserved"
    /\ IF Cached(job[c].key)
       THEN Return(c, job[c].key, textures[job[c].key].index) /\ UNCHANGED textures
       ELSE /\ textures' = Put(textures, job[c].key, [index |-> job[c].index, texture |-> None])
            /\ pc' = [pc EXCEPT ![c] = "inserted"]
            /\ UNCHANGED <<job, returned>>
    /\ UNCHANGED <<registry, taken, requests, calls, state, pending, flush>>

enqueue(c) ==
    /\ pc[c] = "inserted"
    /\ requests' = Append(requests, job[c])
    /\ Return(c, job[c].key, job[c].index)
    /\ UNCHANGED <<registry, taken, textures, calls, state, pending, flush>>

-----------------------------------------------------------------------------
(* create_render_target_texture: the request is processed on the caller.   *)

create_target_hit(c, k) ==
    /\ pc[c] = "idle" /\ calls[c] > 0 /\ Finished(k)
    /\ calls' = [calls EXCEPT ![c] = @ - 1]
    /\ returned' = returned \cup {<<k, textures[k].index>>}
    /\ UNCHANGED <<registry, taken, textures, requests, state, pending, flush, pc, job>>

create_target_miss(c, k) ==
    /\ pc[c] = "idle" /\ ~Finished(k)
    /\ Begin(c, k, 0, "target_missed")
    /\ UNCHANGED <<registry, taken, textures, requests, returned, state, pending, flush>>

\* After process(): the slot of the loser is released and its texture
\* destroyed, while its bindless update may still be in the queue.
insert_target(c) ==
    /\ pc[c] = "queued" /\ c # GPU
    /\ LET j == job[c] IN
       IF Finished(j.key)
       THEN /\ release_index(j.index) /\ taken' = taken \ {j.index}
            /\ state' = [state EXCEPT ![j.texture] = "destroyed"]
            /\ Return(c, j.key, textures[j.key].index)
            /\ UNCHANGED textures
       ELSE /\ textures' = Put(textures, j.key, [index |-> j.index, texture |-> j.texture])
            /\ Return(c, j.key, j.index)
            /\ UNCHANGED <<registry, taken, state>>
    /\ UNCHANGED <<requests, calls, pending, flush>>

-----------------------------------------------------------------------------
(* TextureGPUResourceRequest::process, on the GPU thread or a caller.      *)

dequeue ==
    /\ pc[GPU] = "idle" /\ requests # <<>>
    /\ requests' = Tail(requests)
    /\ job' = [job EXCEPT ![GPU] = Head(requests)]
    /\ pc' = [pc EXCEPT ![GPU] = "create"]
    /\ UNCHANGED <<registry, taken, textures, calls, returned, state, pending, flush>>

\* The constructor uploads and waits for the copy, then the state is set.
create(t) ==
    /\ pc[t] = "create"
    /\ LET fresh == {x \in Textures : state[x] = "none"} IN
       /\ fresh # {}
       /\ LET x == CHOOSE x \in fresh : TRUE IN
          /\ state' = [state EXCEPT ![x] = "GPU_Ready"]
          /\ job' = [job EXCEPT ![t].texture = x]
    /\ pc' = [pc EXCEPT ![t] = "created"]
    /\ UNCHANGED <<registry, taken, cache, pending, flush>>

bind(t) ==
    /\ pc[t] = "created"
    /\ bind_texture(job[t].index, job[t].texture)
    /\ pc' = [pc EXCEPT ![t] = "bound"]
    /\ UNCHANGED <<taken, cache, state, pending, flush, job>>

queue_bindless_texture_update(t) ==
    /\ pc[t] = "bound"
    /\ pending' = Append(pending, [index |-> job[t].index, texture |-> job[t].texture])
    /\ pc' = [pc EXCEPT ![t] = "queued"]
    /\ UNCHANGED <<registry, taken, cache, state, flush, job>>

complete_texture ==
    /\ pc[GPU] = "queued"
    /\ textures' = IF Cached(job[GPU].key)
                   THEN [textures EXCEPT ![job[GPU].key].texture = job[GPU].texture]
                   ELSE textures
    /\ pc' = [pc EXCEPT ![GPU] = "idle"]
    /\ job' = [job EXCEPT ![GPU] = NoJob]
    /\ UNCHANGED <<registry, taken, requests, calls, returned, state, pending, flush>>

-----------------------------------------------------------------------------
(* flush_pending_bindless_updates on the render thread.                    *)

\* get_or_create_descriptor_set, on the thread that made the pipeline layout.
create_descriptor_set ==
    /\ ~set_exists /\ set_exists' = TRUE
    /\ UNCHANGED <<registry, taken, cache, state, pending, descriptors, pc, job, render, deferred>>

flush_begin ==
    /\ render = "idle"
    /\ render' = IF set_exists THEN "write" ELSE "defer"
    /\ UNCHANGED <<registry, taken, cache, state, pending, set_exists, descriptors, pc, job, deferred>>

\* A slot past the end of the array is skipped without a word.
Written(u) == IF u.index <= ArraySize THEN Put(descriptors, u.index, u.texture)
                                      ELSE descriptors

flush_write ==
    /\ render = "write"
    /\ IF pending # <<>>
       THEN /\ descriptors' = Written(Head(pending))
            /\ state' = [state EXCEPT ![Head(pending).texture] = "GPU_Visible"]
            /\ pending' = Tail(pending)
            /\ UNCHANGED render
       ELSE render' = "idle" /\ UNCHANGED <<descriptors, state, pending>>
    /\ UNCHANGED <<registry, taken, cache, set_exists, pc, job, deferred>>

flush_defer ==
    /\ render = "defer"
    /\ IF pending # <<>>
       THEN /\ deferred' = Append(deferred, Head(pending))
            /\ pending' = Tail(pending)
            /\ UNCHANGED render
       ELSE render' = "requeue" /\ UNCHANGED <<deferred, pending>>
    /\ UNCHANGED <<registry, taken, cache, state, set_exists, descriptors, pc, job>>

\* Mutant: the drained updates are dropped.
flush_requeue_Drops ==
    /\ render = "requeue"
    /\ render' = "idle" /\ deferred' = <<>> /\ UNCHANGED pending
    /\ UNCHANGED <<registry, taken, cache, state, set_exists, descriptors, pc, job>>

flush_requeue ==
    /\ render = "requeue"
    /\ IF deferred # <<>>
       THEN /\ pending' = Append(pending, Head(deferred))
            /\ deferred' = Tail(deferred)
            /\ UNCHANGED render
       ELSE render' = "idle" /\ UNCHANGED <<pending, deferred>>
    /\ UNCHANGED <<registry, taken, cache, state, set_exists, descriptors, pc, job>>

-----------------------------------------------------------------------------
CallerStep(c) == reserve(c) \/ insert(c) \/ enqueue(c) \/ insert_target(c)

ProcessStep(t) == create(t) \/ bind(t) \/ queue_bindless_texture_update(t)

Flush == flush_begin \/ flush_write \/ flush_defer \/ flush_requeue

GPUStep == dequeue \/ ProcessStep(GPU) \/ complete_texture

TUNext ==
    \/ \E c \in Callers, k \in Keys : create_texture_hit(c, k) \/ create_texture_miss(c, k)
    \/ \E c \in TargetCallers, k \in Targets : create_target_hit(c, k) \/ create_target_miss(c, k)
    \/ \E c \in Callers : CallerStep(c) \/ ProcessStep(c)
    \/ GPUStep \/ create_descriptor_set \/ Flush

\* Every thread keeps running; nobody has to call, and no pipeline with the
\* bindless layout has to be created.
TUSpec == /\ TUInit /\ [][TUNext]_tuVars
          /\ \A c \in Callers : WF_tuVars(CallerStep(c) \/ ProcessStep(c))
          /\ WF_tuVars(GPUStep) /\ WF_tuVars(Flush)

-----------------------------------------------------------------------------
(* Properties.                                                             *)

SlotOf(k) == IF Cached(k) THEN textures[k].index ELSE 0

\* The keys whose texture the shaders find at the slot of their handle.
Shown == {k \in AllKeys :
             /\ SlotOf(k) \in DOMAIN descriptors
             /\ texture_order[SlotOf(k)] # None
             /\ descriptors[SlotOf(k)] = texture_order[SlotOf(k)]}

Handle == [index : Slots, texture : Textures \cup {None}]
Job == [key : AllKeys \cup {None}, index : Slots \cup {0}, texture : Textures \cup {None}]
Update == [index : Slots, texture : Textures]
Steps == {"idle", "missed", "reserved", "inserted", "target_missed",
          "create", "created", "bound", "queued"}

TUTypeOK ==
    /\ BTRTypeOK
    /\ DOMAIN textures \subseteq AllKeys /\ \A k \in DOMAIN textures : textures[k] \in Handle
    /\ requests \in Seq(Job)
    /\ state \in [Textures -> {"none", "GPU_Ready", "GPU_Visible", "destroyed"}]
    /\ pending \in Seq(Update) /\ deferred \in Seq(Update)
    /\ set_exists \in BOOLEAN
    /\ DOMAIN descriptors \subseteq Slots
    /\ \A i \in DOMAIN descriptors : descriptors[i] \in Textures
    /\ pc \in [Threads -> Steps]
    /\ job \in [Threads -> Job]
    /\ calls \in [Callers -> 0 .. MaxCalls]
    /\ returned \subseteq AllKeys \X Slots
    /\ render \in {"idle", "write", "defer", "requeue"}

\* A key keeps the one slot it was given, shares it with no other key, and its
\* texture never leaves the descriptor array: TextureBinding, whatever callers
\* race on one key.
TB == INSTANCE TextureBinding WITH
          Keys <- AllKeys, slot <- [k \in AllKeys |-> SlotOf(k)], shown <- Shown

BindingKept == TB!Spec

\* What BindlessTextureRegistry asks of its clients is kept, whoever races: a
\* thread binds only a texture that is in no other slot, and only into a slot
\* that was given out and is not released; what it does to the registry is BTRSpec.
RegistryContract == BTRSpec

\* No two keys are given one slot.
SlotsNotShared ==
    \A k1, k2 \in DOMAIN textures :
        textures[k1].index = textures[k2].index => k1 = k2

\* Every handle create_texture returns for a key has that key's slot, the
\* handle of the caller that lost the race included.
HandlesAgree == \A r \in returned : Cached(r[1]) /\ textures[r[1]].index = r[2]

\* A texture is uploaded once, into the slot of its key: of the requests that
\* wait no two are for one key, and none is for a key whose texture is done.
UploadedOnce ==
    \A m \in DOMAIN requests :
        /\ SlotOf(requests[m].key) = requests[m].index
        /\ ~Finished(requests[m].key)
        /\ \A n \in DOMAIN requests : requests[n].key = requests[m].key => n = m

\* Once the set exists every cached texture reaches its descriptor, also the
\* one whose update was drained and put back because there was no set.
EventuallyShown == \A k \in Keys : Cached(k) /\ set_exists ~> k \in Shown

\* README.md:151, "Draw skips until Material::is_renderable() (upload timeline +
\* bindless flush)". is_renderable for a material with the texture of k, asked
\* after update_per_frame: the registry has the texture and it is GPU_Ready.
is_renderable(k) ==
    /\ SlotOf(k) \in DOMAIN texture_order
    /\ texture_order[SlotOf(k)] # None
    /\ state[texture_order[SlotOf(k)]] \in {"GPU_Ready", "GPU_Visible"}

RenderableIsFlushed ==
    \A k \in Keys : render = "idle" /\ is_renderable(k) => k \in Shown
=============================================================================
