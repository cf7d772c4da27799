------------------------ MODULE MaterialUpdatesProofs ------------------------
(***************************************************************************)
(* Proofs about MaterialUpdates for any materials, textures, writers and   *)
(* number of calls: the queue flag never sticks, nothing is drawn with a   *)
(* bound texture that is not ready, and bindings are uploaded.             *)
(***************************************************************************)
EXTENDS MaterialUpdates, SequenceTheorems, TLAPS

WriterSteps == {"idle", "dirty", "test", "mark", "push", "push_texture"}

\* Who is where, and what it holds there.
Jobs ==
    /\ \A w \in Writers : pc[w] \in WriterSteps
    /\ pc[Render] \notin {"dirty", "push_texture"}
    /\ \A th \in MUThreads : pc[th] \in {"push_texture", "bind"} => job[th].kind = "texture"

\* Once evaluated, a material stays ready until it is stored.
Gate == /\ ReadyMeansReady
        /\ pc[Render] = "store" => evaluate_textures_ready(mat(Render))

\* After the copy and before the flag's reset the upload is as new as the last
\* binding, which only this thread makes.
Uploads ==
    /\ BindingsUploaded
    /\ pc[Render] \in {"clean", "clear"} /\ mat(Render) \in GlobalMaterials =>
           uploaded[mat(Render)] >= bound[mat(Render)]

MUInv == MUTypeOK /\ Jobs /\ FlagIsServed /\ Gate /\ Uploads

LEMMA RequestFields ==
    /\ \A m \in Materials : UniformBuffer(m) \in Requests /\ UniformBuffer(m).material = m
                            /\ UniformBuffer(m).kind = "uniform"
    /\ \A m \in Materials, n \in Names, t \in Textures :
           /\ TextureRequest(m, n, t) \in Requests
           /\ TextureRequest(m, n, t).material = m /\ TextureRequest(m, n, t).kind = "texture"
    /\ \A r \in Requests :
           /\ r.material \in Materials
           /\ r.kind = "texture" => r.name \in Names /\ r.texture \in Textures
           /\ r.kind # "texture" => r = UniformBuffer(r.material)
<1>1. \A m \in Materials : UniformBuffer(m) \in Requests /\ UniformBuffer(m).material = m
                            /\ UniformBuffer(m).kind = "uniform"
  BY DEF Requests, UniformBuffer
<1>2. \A m \in Materials, n \in Names, t \in Textures :
           /\ TextureRequest(m, n, t) \in Requests
           /\ TextureRequest(m, n, t).material = m /\ TextureRequest(m, n, t).kind = "texture"
  BY DEF Requests, TextureRequest
<1>3. \A r \in Requests :
           /\ r.material \in Materials
           /\ r.kind = "texture" => r.name \in Names /\ r.texture \in Textures
           /\ r.kind # "texture" => r = UniformBuffer(r.material)
  BY DEF Requests, UniformBuffer, TextureRequest
<1> QED
  BY <1>1, <1>2, <1>3

\* What a queue holds after a push and after a pop.
LEMMA PushHolds ==
  ASSUME NEW S, NEW q \in Seq(S), NEW x \in S
  PROVE  /\ Append(q, x) \in Seq(S)
         /\ \E i \in DOMAIN Append(q, x) : Append(q, x)[i] = x
         /\ \A y : (\E i \in DOMAIN q : q[i] = y) =>
                \E i \in DOMAIN Append(q, x) : Append(q, x)[i] = y
<1>1. /\ Append(q, x) \in Seq(S) /\ Len(Append(q, x)) = Len(q) + 1
      /\ Append(q, x)[Len(q) + 1] = x
      /\ \A i \in 1..Len(q) : Append(q, x)[i] = q[i]
  BY AppendProperties
<1>2. DOMAIN q = 1..Len(q) /\ DOMAIN Append(q, x) = 1..Len(q) + 1 /\ Len(q) \in Nat
  BY <1>1, LenProperties
<1> QED
  BY <1>1, <1>2

LEMMA PopHolds ==
  ASSUME NEW S, NEW q \in Seq(S), q # <<>>
  PROVE  /\ Head(q) \in S /\ Tail(q) \in Seq(S)
         /\ \A y : y # Head(q) /\ (\E i \in DOMAIN q : q[i] = y) =>
                \E i \in DOMAIN Tail(q) : Tail(q)[i] = y
<1>1. /\ Head(q) = q[1] /\ Head(q) \in S
      /\ Tail(q) \in Seq(S) /\ Len(Tail(q)) = Len(q) - 1
      /\ \A i \in 1..Len(Tail(q)) : Tail(q)[i] = q[i + 1]
  BY HeadTailProperties
<1>2. DOMAIN q = 1..Len(q) /\ DOMAIN Tail(q) = 1..Len(Tail(q)) /\ Len(q) \in Nat
  BY <1>1, LenProperties
<1>3. ASSUME NEW y, y # Head(q), NEW i \in DOMAIN q, q[i] = y
      PROVE  i - 1 \in DOMAIN Tail(q) /\ Tail(q)[i - 1] = y
  BY <1>1, <1>2, <1>3
<1> QED
  BY <1>1, <1>3

LEMMA MUInitInv == MUInit => MUInv
<1> SUFFICES ASSUME MUInit PROVE MUInv
  OBVIOUS
<1> PICK m0 \in Materials : m0 = CHOOSE m \in Materials : TRUE
  BY MUGlobals
<1>1. MUTypeOK
  BY MURender, RequestFields DEF MUInit, MUTypeOK, Unbound, MUSteps
<1>2. Gate
  BY DEF MUInit, Gate, ReadyMeansReady, evaluate_textures_ready, BoundTextures, Unbound, MUThreads
<1>3. Jobs
  BY DEF MUInit, Jobs, WriterSteps, MUThreads
<1>4. FlagIsServed
  BY DEF MUInit, FlagIsServed
<1>5. Uploads
  BY MUGlobals DEF MUInit, Uploads, BindingsUploaded, MUThreads
<1> QED
  BY <1>1, <1>2, <1>3, <1>4, <1>5 DEF MUInv

\* What the proofs need of the types.
LEMMA Typed ==
  ASSUME MUInv
  PROVE  /\ pc \in [MUThreads -> MUSteps] /\ job \in [MUThreads -> Requests]
         /\ \A th \in MUThreads : mat(th) \in Materials
         /\ staged \in [Materials -> Nat] /\ uploaded \in [Materials -> Nat]
         /\ bound \in [Materials -> Nat]
         /\ \A m \in Materials : uploaded[m] <= staged[m] /\ bound[m] <= staged[m]
         /\ dirty \in [Materials -> BOOLEAN] /\ in_update_queue \in [Materials -> BOOLEAN]
         /\ textures_ready \in [Materials -> BOOLEAN]
         /\ handles \in [Materials -> [Names -> Textures \cup {None}]]
         /\ last_set \in [Materials -> [Names -> Textures \cup {None}]]
         /\ updates \in Seq(Requests) /\ writes \in [Writers -> 0..MaxWrites]
         /\ gpu_ready \subseteq Textures /\ to_draw \subseteq Materials
         /\ Render \in MUThreads /\ Writers \subseteq MUThreads
BY RequestFields DEF MUInv, MUTypeOK, mat, MUThreads

\* Each action preserves MUInv: what it leaves alone and what it does, that no
\* request is lost by it, and then the conjuncts one by one.
LEMMA SetPropertyInv == ASSUME MUInv, NEW w \in Writers, NEW m \in Materials, set_property(w, m) PROVE MUInv'
<1>0. UNCHANGED <<uploaded, dirty, in_update_queue, updates, handles, textures_ready,
                 gpu_ready, to_draw, last_set, bound>>
  BY DEF set_property, bytes, drawing, history
<1>1. /\ pc[w] = "idle" /\ writes[w] > 0
      /\ writes' = [writes EXCEPT ![w] = @ - 1]
      /\ staged' = [staged EXCEPT ![m] = @ + 1]
      /\ job' = [job EXCEPT ![w] = UniformBuffer(m)]
      /\ \E s \in {"test", "dirty"} : pc' = [pc EXCEPT ![w] = s]
  BY DEF set_property, Step, mat, bytes, drawing, history
<1>2. \A k \in Materials : Queued(k) => Queued(k)'
  BY <1>0 DEF Queued
<1>3. MUTypeOK'
  <2>1. staged' \in [Materials -> Nat]
    BY <1>0, <1>1, Typed
  <2>2. pc' \in [MUThreads -> MUSteps]
    BY <1>0, <1>1, Typed DEF MUSteps
  <2>3. job' \in [MUThreads -> Requests]
    BY <1>0, <1>1, Typed, RequestFields
  <2>4. writes' \in [Writers -> 0..MaxWrites]
    BY <1>0, <1>1, Typed, MURender
  <2>5. \A k \in Materials : uploaded'[k] <= staged'[k] /\ bound'[k] <= staged'[k]
    BY <1>0, <1>1, Typed
  <2> QED
    BY <1>0, <2>1, <2>2, <2>3, <2>4, <2>5 DEF MUInv, MUTypeOK
<1>4. Jobs'
  BY <1>0, <1>1, <1>2, Typed, MURender, RequestFields DEF MUInv, Jobs, WriterSteps,
     MUThreads, mat
<1>5. FlagIsServed'
  BY <1>0, <1>1, <1>2, Typed, MURender, RequestFields DEF MUInv, Jobs, WriterSteps,
     FlagIsServed, Pushing, Uploading, MUThreads, mat
<1>6. Gate'
  BY <1>0, <1>1, <1>2, Typed, MURender, RequestFields DEF MUInv, Jobs, WriterSteps, Gate,
     ReadyMeansReady, evaluate_textures_ready, BoundTextures, MUThreads, mat
<1>7. BindingsUploaded'
  BY <1>0, <1>1, <1>2, Typed, MURender, MUGlobals, RequestFields DEF MUInv, Jobs,
     WriterSteps, FlagIsServed, Uploads, BindingsUploaded, Pushing, Uploading, MUThreads,
     mat
<1>8. pc'[Render] \in {"clean", "clear"} /\ mat(Render)' \in GlobalMaterials =>
          uploaded'[mat(Render)'] >= bound'[mat(Render)']
  BY <1>0, <1>1, <1>2, Typed, MURender, MUGlobals, RequestFields DEF MUInv, Jobs,
     WriterSteps, Uploads, MUThreads, mat
<1> QED
  BY <1>3, <1>4, <1>5, <1>6, <1>7, <1>8 DEF MUInv, Uploads

LEMMA MarkDirtyInv == ASSUME MUInv, NEW w \in Writers, mark_dirty(w) PROVE MUInv'
<1>0. UNCHANGED <<staged, uploaded, in_update_queue, updates, handles, textures_ready,
                 gpu_ready, to_draw, job, writes, last_set, bound>>
  BY DEF mark_dirty, bytes, drawing, history
<1>1. /\ pc[w] = "dirty"
      /\ dirty' = [dirty EXCEPT ![mat(w)] = TRUE]
      /\ pc' = [pc EXCEPT ![w] = "test"]
  BY DEF mark_dirty, Step, mat, bytes, drawing, history
<1>2. \A k \in Materials : Queued(k) => Queued(k)'
  BY <1>0 DEF Queued
<1>3. MUTypeOK'
  <2>1. dirty' \in [Materials -> BOOLEAN]
    BY <1>0, <1>1, Typed
  <2>2. pc' \in [MUThreads -> MUSteps]
    BY <1>0, <1>1, Typed DEF MUSteps
  <2> QED
    BY <1>0, <2>1, <2>2 DEF MUInv, MUTypeOK
<1>4. Jobs'
  BY <1>0, <1>1, <1>2, Typed, MURender DEF MUInv, Jobs, WriterSteps, MUThreads, mat
<1>5. FlagIsServed'
  BY <1>0, <1>1, <1>2, Typed, MURender DEF MUInv, Jobs, WriterSteps, FlagIsServed,
     Pushing, Uploading, MUThreads, mat
<1>6. Gate'
  BY <1>0, <1>1, <1>2, Typed, MURender DEF MUInv, Jobs, WriterSteps, Gate,
     ReadyMeansReady, evaluate_textures_ready, BoundTextures, MUThreads, mat
<1>7. BindingsUploaded'
  BY <1>0, <1>1, <1>2, Typed, MURender, MUGlobals DEF MUInv, Jobs, WriterSteps,
     FlagIsServed, Uploads, BindingsUploaded, Pushing, Uploading, MUThreads, mat
<1>8. pc'[Render] \in {"clean", "clear"} /\ mat(Render)' \in GlobalMaterials =>
          uploaded'[mat(Render)'] >= bound'[mat(Render)']
  BY <1>0, <1>1, <1>2, Typed, MURender, MUGlobals DEF MUInv, Jobs, WriterSteps, Uploads,
     MUThreads, mat
<1> QED
  BY <1>3, <1>4, <1>5, <1>6, <1>7, <1>8 DEF MUInv, Uploads

LEMMA TestInv == ASSUME MUInv, NEW th \in MUThreads, try_queue_test(th) PROVE MUInv'
<1>0. UNCHANGED <<staged, uploaded, dirty, in_update_queue, updates, handles,
                 textures_ready, gpu_ready, to_draw, job, writes, last_set, bound>>
  BY DEF try_queue_test, bytes, drawing, history
<1>1. /\ pc[th] = "test"
      /\ pc' = [pc EXCEPT ![th] = IF in_update_queue[mat(th)] THEN Returned(th) ELSE "mark"]
  BY DEF try_queue_test, Step, mat, bytes, drawing, history
<1>2. \A k \in Materials : Queued(k) => Queued(k)'
  BY <1>0 DEF Queued
<1>3. MUTypeOK'
  <2>1. pc' \in [MUThreads -> MUSteps]
    BY <1>0, <1>1, Typed DEF MUSteps, Returned
  <2> QED
    BY <1>0, <2>1 DEF MUInv, MUTypeOK
<1>4. Jobs'
  BY <1>0, <1>1, <1>2, Typed, MURender DEF MUInv, Jobs, WriterSteps, MUThreads, Returned,
     mat
<1>5. FlagIsServed'
  BY <1>0, <1>1, <1>2, Typed, MURender DEF MUInv, Jobs, WriterSteps, FlagIsServed,
     Pushing, Uploading, MUThreads, Returned, mat
<1>6. Gate'
  BY <1>0, <1>1, <1>2, Typed, MURender DEF MUInv, Jobs, WriterSteps, Gate,
     ReadyMeansReady, evaluate_textures_ready, BoundTextures, MUThreads, Returned, mat
<1>7. BindingsUploaded'
  <2> SUFFICES ASSUME NEW k \in GlobalMaterials, uploaded[k] < bound[k]
               PROVE  \/ Queued(k)' \/ Pushing(k)' \/ Uploading(k)'
                      \/ pc'[Render] = "test" /\ mat(Render)' = k
    BY <1>0 DEF BindingsUploaded
  <2>1. UNCHANGED job /\ k \in Materials
    BY <1>0, MUGlobals
  <2>2. Pushing(k) => Pushing(k)'
    BY <1>1, <2>1, Typed DEF Pushing, mat
  <2>3. Uploading(k) => Uploading(k)'
    BY <1>1, <2>1, Typed DEF Uploading, mat
  <2>4. Queued(k) \/ Pushing(k) \/ Uploading(k) => Queued(k)' \/ Pushing(k)' \/ Uploading(k)'
    BY <1>2, <2>1, <2>2, <2>3
  <2>5. CASE mat(th) = k
    <3>1. CASE in_update_queue[k]
      BY <2>1, <2>4, <3>1 DEF MUInv, FlagIsServed
    <3>2. CASE ~in_update_queue[k]
      <4>1. pc'[th] = "mark" /\ mat(th)' = k
        BY <1>1, <2>1, <2>5, <3>2, Typed DEF mat
      <4> QED
        BY <4>1 DEF Pushing
    <3> QED
      BY <3>1, <3>2
  <2>6. CASE mat(th) # k
    BY <1>1, <2>1, <2>4, <2>6, Typed DEF MUInv, Uploads, BindingsUploaded, mat
  <2> QED
    BY <2>5, <2>6
<1>8. pc'[Render] \in {"clean", "clear"} /\ mat(Render)' \in GlobalMaterials =>
          uploaded'[mat(Render)'] >= bound'[mat(Render)']
  BY <1>0, <1>1, <1>2, Typed, MURender, MUGlobals DEF MUInv, Jobs, WriterSteps, Uploads,
     MUThreads, Returned, mat
<1> QED
  BY <1>3, <1>4, <1>5, <1>6, <1>7, <1>8 DEF MUInv, Uploads

LEMMA MarkInv == ASSUME MUInv, NEW th \in MUThreads, try_queue_mark(th) PROVE MUInv'
<1>0. UNCHANGED <<staged, uploaded, dirty, updates, handles, textures_ready, gpu_ready,
                 to_draw, job, writes, last_set, bound>>
  BY DEF try_queue_mark, bytes, drawing, history
<1>1. /\ pc[th] = "mark"
      /\ in_update_queue' = [in_update_queue EXCEPT ![mat(th)] = TRUE]
      /\ pc' = [pc EXCEPT ![th] = "push"]
  BY DEF try_queue_mark, Step, mat, bytes, drawing, history
<1>2. \A k \in Materials : Queued(k) => Queued(k)'
  BY <1>0 DEF Queued
<1>3. MUTypeOK'
  <2>1. in_update_queue' \in [Materials -> BOOLEAN]
    BY <1>0, <1>1, Typed
  <2>2. pc' \in [MUThreads -> MUSteps]
    BY <1>0, <1>1, Typed DEF MUSteps
  <2> QED
    BY <1>0, <2>1, <2>2 DEF MUInv, MUTypeOK
<1>4. Jobs'
  BY <1>0, <1>1, <1>2, Typed, MURender DEF MUInv, Jobs, WriterSteps, MUThreads, mat
<1>5. FlagIsServed'
  BY <1>0, <1>1, <1>2, Typed, MURender DEF MUInv, Jobs, WriterSteps, FlagIsServed,
     Pushing, Uploading, MUThreads, mat
<1>6. Gate'
  BY <1>0, <1>1, <1>2, Typed, MURender DEF MUInv, Jobs, WriterSteps, Gate,
     ReadyMeansReady, evaluate_textures_ready, BoundTextures, MUThreads, mat
<1>7. BindingsUploaded'
  BY <1>0, <1>1, <1>2, Typed, MURender, MUGlobals DEF MUInv, Jobs, WriterSteps,
     FlagIsServed, Uploads, BindingsUploaded, Pushing, Uploading, MUThreads, mat
<1>8. pc'[Render] \in {"clean", "clear"} /\ mat(Render)' \in GlobalMaterials =>
          uploaded'[mat(Render)'] >= bound'[mat(Render)']
  BY <1>0, <1>1, <1>2, Typed, MURender, MUGlobals DEF MUInv, Jobs, WriterSteps, Uploads,
     MUThreads, mat
<1> QED
  BY <1>3, <1>4, <1>5, <1>6, <1>7, <1>8 DEF MUInv, Uploads

LEMMA PushInv == ASSUME MUInv, NEW th \in MUThreads, try_queue_push(th) PROVE MUInv'
<1>0. UNCHANGED <<staged, uploaded, dirty, in_update_queue, handles, textures_ready,
                 gpu_ready, to_draw, job, writes, last_set, bound>>
  BY DEF try_queue_push, bytes, drawing, history
<1>1. /\ pc[th] = "push"
      /\ updates' = Append(updates, UniformBuffer(mat(th)))
      /\ pc' = [pc EXCEPT ![th] = Returned(th)]
  BY DEF try_queue_push, Step, mat, bytes, drawing, history
<1>2. Queued(mat(th))' /\ \A k \in Materials : Queued(k) => Queued(k)'
  <2>1. UniformBuffer(mat(th)) \in Requests /\ updates \in Seq(Requests)
    BY Typed, RequestFields
  <2>2. /\ \E i \in DOMAIN updates' : updates'[i] = UniformBuffer(mat(th))
        /\ \A y : (\E i \in DOMAIN updates : updates[i] = y) =>
               \E i \in DOMAIN updates' : updates'[i] = y
    <3> DEFINE x == UniformBuffer(mat(th))
    <3>1. x \in Requests /\ updates \in Seq(Requests) /\ updates' = Append(updates, x)
      BY <1>1, <2>1
    <3> HIDE DEF x
    <3>2. /\ \E i \in DOMAIN updates' : updates'[i] = x
          /\ \A y : (\E i \in DOMAIN updates : updates[i] = y) =>
                 \E i \in DOMAIN updates' : updates'[i] = y
      BY <3>1, PushHolds
    <3> QED
      BY <3>2 DEF x
  <2>3. UNCHANGED mat(th)
    BY <1>0 DEF mat
  <2> QED
    BY <2>2, <2>3 DEF Queued
<1>3. MUTypeOK'
  <2>1. updates' \in Seq(Requests)
    BY <1>0, <1>1, Typed, PushHolds, RequestFields
  <2>2. pc' \in [MUThreads -> MUSteps]
    BY <1>0, <1>1, Typed DEF MUSteps, Returned
  <2> QED
    BY <1>0, <2>1, <2>2 DEF MUInv, MUTypeOK
<1>4. Jobs'
  BY <1>0, <1>1, <1>2, Typed, MURender, RequestFields DEF MUInv, Jobs, WriterSteps,
     MUThreads, Returned, mat
<1>5. FlagIsServed'
  BY <1>0, <1>1, <1>2, Typed, MURender, RequestFields DEF MUInv, Jobs, WriterSteps,
     FlagIsServed, Pushing, Uploading, MUThreads, Returned, mat
<1>6. Gate'
  BY <1>0, <1>1, <1>2, Typed, MURender, RequestFields DEF MUInv, Jobs, WriterSteps, Gate,
     ReadyMeansReady, evaluate_textures_ready, BoundTextures, MUThreads, Returned, mat
<1>7. BindingsUploaded'
  BY <1>0, <1>1, <1>2, Typed, MURender, MUGlobals, RequestFields DEF MUInv, Jobs,
     WriterSteps, FlagIsServed, Uploads, BindingsUploaded, Pushing, Uploading, MUThreads,
     Returned, mat
<1>8. pc'[Render] \in {"clean", "clear"} /\ mat(Render)' \in GlobalMaterials =>
          uploaded'[mat(Render)'] >= bound'[mat(Render)']
  BY <1>0, <1>1, <1>2, Typed, MURender, MUGlobals, RequestFields DEF MUInv, Jobs,
     WriterSteps, Uploads, MUThreads, Returned, mat
<1> QED
  BY <1>3, <1>4, <1>5, <1>6, <1>7, <1>8 DEF MUInv, Uploads

LEMMA SetTextureInv == ASSUME MUInv, NEW w \in Writers, NEW m \in Materials, NEW n \in Names,
         NEW t \in Textures \cup {None}, set_texture(w, m, n, t) PROVE MUInv'
<1>0. UNCHANGED <<staged, uploaded, dirty, in_update_queue, updates, handles, gpu_ready,
                 to_draw, last_set, bound>>
  BY DEF set_texture, bytes, drawing, history
<1>1. /\ pc[w] = "idle" /\ writes[w] > 0 /\ t \in Textures
      /\ writes' = [writes EXCEPT ![w] = @ - 1]
      /\ textures_ready' = [textures_ready EXCEPT ![m] = FALSE]
      /\ job' = [job EXCEPT ![w] = TextureRequest(m, n, t)]
      /\ pc' = [pc EXCEPT ![w] = "push_texture"]
  BY DEF set_texture, Step, mat, bytes, drawing, history
<1>2. \A k \in Materials : Queued(k) => Queued(k)'
  BY <1>0 DEF Queued
<1>3. MUTypeOK'
  <2>1. textures_ready' \in [Materials -> BOOLEAN]
    BY <1>0, <1>1, Typed
  <2>2. pc' \in [MUThreads -> MUSteps]
    BY <1>0, <1>1, Typed DEF MUSteps
  <2>3. job' \in [MUThreads -> Requests]
    BY <1>0, <1>1, Typed, RequestFields
  <2>4. writes' \in [Writers -> 0..MaxWrites]
    BY <1>0, <1>1, Typed, MURender
  <2> QED
    BY <1>0, <2>1, <2>2, <2>3, <2>4 DEF MUInv, MUTypeOK
<1>4. Jobs'
  BY <1>0, <1>1, <1>2, Typed, MURender, RequestFields DEF MUInv, Jobs, WriterSteps,
     MUThreads, mat
<1>5. FlagIsServed'
  BY <1>0, <1>1, <1>2, Typed, MURender, RequestFields DEF MUInv, Jobs, WriterSteps,
     FlagIsServed, Pushing, Uploading, MUThreads, mat
<1>6. Gate'
  BY <1>0, <1>1, <1>2, Typed, MURender, RequestFields DEF MUInv, Jobs, WriterSteps, Gate,
     ReadyMeansReady, evaluate_textures_ready, BoundTextures, MUThreads, mat
<1>7. BindingsUploaded'
  BY <1>0, <1>1, <1>2, Typed, MURender, MUGlobals, RequestFields DEF MUInv, Jobs,
     WriterSteps, FlagIsServed, Uploads, BindingsUploaded, Pushing, Uploading, MUThreads,
     mat
<1>8. pc'[Render] \in {"clean", "clear"} /\ mat(Render)' \in GlobalMaterials =>
          uploaded'[mat(Render)'] >= bound'[mat(Render)']
  BY <1>0, <1>1, <1>2, Typed, MURender, MUGlobals, RequestFields DEF MUInv, Jobs,
     WriterSteps, Uploads, MUThreads, mat
<1> QED
  BY <1>3, <1>4, <1>5, <1>6, <1>7, <1>8 DEF MUInv, Uploads

LEMMA PushTextureInv == ASSUME MUInv, NEW w \in Writers, push_texture(w) PROVE MUInv'
<1>0. UNCHANGED <<staged, uploaded, dirty, in_update_queue, handles, textures_ready,
                 gpu_ready, to_draw, job, writes, bound>>
  BY DEF push_texture, bytes, drawing, history
<1>1. /\ pc[w] = "push_texture"
      /\ updates' = Append(updates, job[w])
      /\ last_set' = [last_set EXCEPT ![mat(w)] = [@ EXCEPT ![job[w].name] = job[w].texture]]
      /\ pc' = [pc EXCEPT ![w] = "idle"]
  BY DEF push_texture, Step, mat, bytes, drawing, history
<1>2. \A k \in Materials : Queued(k) => Queued(k)'
  <2>1. job[w] \in Requests /\ updates \in Seq(Requests)
    BY Typed
  <2>2. \A y : (\E i \in DOMAIN updates : updates[i] = y) =>
            \E i \in DOMAIN updates' : updates'[i] = y
    BY <1>1, <2>1, PushHolds
  <2> QED
    BY <2>2 DEF Queued
<1>3. MUTypeOK'
  <2>1. updates' \in Seq(Requests)
    BY <1>1, Typed, PushHolds
  <2>2. last_set' \in [Materials -> [Names -> Textures \cup {None}]]
    <3>1. mat(w) \in Materials /\ job[w].name \in Names /\ job[w].texture \in Textures
      <4>1. w \in MUThreads /\ job[w] \in Requests /\ mat(w) \in Materials
        BY Typed
      <4>2. job[w].kind = "texture"
        BY <1>1, <4>1 DEF MUInv, Jobs
      <4> QED
        BY <4>1, <4>2, RequestFields
    <3>2. [last_set[mat(w)] EXCEPT ![job[w].name] = job[w].texture]
              \in [Names -> Textures \cup {None}]
      BY <3>1, Typed
    <3> QED
      BY <1>1, <3>1, <3>2, Typed
  <2>3. pc' \in [MUThreads -> MUSteps]
    BY <1>0, <1>1, Typed DEF MUSteps
  <2> QED
    BY <1>0, <2>1, <2>2, <2>3 DEF MUInv, MUTypeOK
<1>4. Jobs'
  BY <1>0, <1>1, <1>2, Typed, MURender, RequestFields DEF MUInv, Jobs, WriterSteps,
     MUThreads, mat
<1>9. \A k \in Materials : /\ Pushing(k) => Pushing(k)'
                           /\ Uploading(k) => Uploading(k)'
  <2>1. UNCHANGED job /\ \A th \in MUThreads : pc[th] # "push_texture" => pc'[th] = pc[th]
    BY <1>0, <1>1, Typed
  <2> QED
    BY <2>1, Typed DEF Pushing, Uploading, mat
<1>5. FlagIsServed'
  BY <1>0, <1>2, <1>9 DEF MUInv, FlagIsServed
<1>6. Gate'
  BY <1>0, <1>1, <1>2, Typed, MURender, RequestFields DEF MUInv, Jobs, WriterSteps, Gate,
     ReadyMeansReady, evaluate_textures_ready, BoundTextures, MUThreads, mat
<1>10. pc[Render] = "test" => pc'[Render] = "test" /\ UNCHANGED mat(Render)
  BY <1>0, <1>1, Typed, MURender DEF mat
<1>7. BindingsUploaded'
  BY <1>0, <1>2, <1>9, <1>10, MUGlobals DEF MUInv, Uploads, BindingsUploaded
<1>8. pc'[Render] \in {"clean", "clear"} /\ mat(Render)' \in GlobalMaterials =>
          uploaded'[mat(Render)'] >= bound'[mat(Render)']
  BY <1>0, <1>1, <1>2, Typed, MURender, MUGlobals, RequestFields DEF MUInv, Jobs,
     WriterSteps, Uploads, MUThreads, mat
<1> QED
  BY <1>3, <1>4, <1>5, <1>6, <1>7, <1>8 DEF MUInv, Uploads

LEMMA FrameInv == ASSUME MUInv, update_per_frame PROVE MUInv'
<1>0. UNCHANGED <<staged, uploaded, dirty, in_update_queue, updates, handles,
                 textures_ready, gpu_ready, to_draw, job, writes, last_set, bound>>
  BY DEF update_per_frame, bytes, drawing, history
<1>1. /\ pc[Render] = "idle"
      /\ pc' = [pc EXCEPT ![Render] = "batch"]
  BY DEF update_per_frame, Step, mat, bytes, drawing, history
<1>2. \A k \in Materials : Queued(k) => Queued(k)'
  BY <1>0 DEF Queued
<1>3. MUTypeOK'
  <2>1. pc' \in [MUThreads -> MUSteps]
    BY <1>0, <1>1, Typed DEF MUSteps
  <2> QED
    BY <1>0, <2>1 DEF MUInv, MUTypeOK
<1>4. Jobs'
  BY <1>0, <1>1, <1>2, Typed, MURender DEF MUInv, Jobs, WriterSteps, MUThreads, mat
<1>5. FlagIsServed'
  BY <1>0, <1>1, <1>2, Typed, MURender DEF MUInv, Jobs, WriterSteps, FlagIsServed,
     Pushing, Uploading, MUThreads, mat
<1>6. Gate'
  BY <1>0, <1>1, <1>2, Typed, MURender DEF MUInv, Jobs, WriterSteps, Gate,
     ReadyMeansReady, evaluate_textures_ready, BoundTextures, MUThreads, mat
<1>7. BindingsUploaded'
  BY <1>0, <1>1, <1>2, Typed, MURender, MUGlobals DEF MUInv, Jobs, WriterSteps,
     FlagIsServed, Uploads, BindingsUploaded, Pushing, Uploading, MUThreads, mat
<1>8. pc'[Render] \in {"clean", "clear"} /\ mat(Render)' \in GlobalMaterials =>
          uploaded'[mat(Render)'] >= bound'[mat(Render)']
  BY <1>0, <1>1, <1>2, Typed, MURender, MUGlobals DEF MUInv, Jobs, WriterSteps, Uploads,
     MUThreads, mat
<1> QED
  BY <1>3, <1>4, <1>5, <1>6, <1>7, <1>8 DEF MUInv, Uploads

LEMMA PopInv == ASSUME MUInv, try_pop PROVE MUInv'
<1>0. UNCHANGED <<staged, uploaded, dirty, in_update_queue, handles, textures_ready,
                 gpu_ready, to_draw, writes, last_set, bound>>
  BY DEF try_pop, bytes, drawing, history
<1>1. /\ pc[Render] = "batch" /\ updates # <<>>
      /\ job' = [job EXCEPT ![Render] = Head(updates)]
      /\ updates' = Tail(updates)
      /\ pc' = [pc EXCEPT ![Render] = IF Head(updates).kind = "texture" THEN "bind" ELSE "copy"]
  BY DEF try_pop, Step, mat, bytes, drawing, history
<1>2. /\ Head(updates) \in Requests
      /\ \A k \in Materials : Queued(k) => Queued(k)' \/ Uploading(k)'
  <2>1. /\ Head(updates) \in Requests
        /\ \A y : y # Head(updates) /\ (\E i \in DOMAIN updates : updates[i] = y) =>
               \E i \in DOMAIN updates' : updates'[i] = y
    BY <1>1, Typed, PopHolds
  <2>2. ASSUME NEW k \in Materials, UniformBuffer(k) = Head(updates)
        PROVE  Uploading(k)'
    BY <1>1, <2>2, Typed, RequestFields DEF Uploading, mat
  <2> QED
    BY <2>1, <2>2 DEF Queued
<1>3. MUTypeOK'
  <2>1. updates' \in Seq(Requests)
    BY <1>0, <1>1, Typed, PopHolds, RequestFields
  <2>2. pc' \in [MUThreads -> MUSteps]
    BY <1>0, <1>1, Typed DEF MUSteps
  <2>3. job' \in [MUThreads -> Requests]
    BY <1>0, <1>1, Typed, <1>2
  <2> QED
    BY <1>0, <2>1, <2>2, <2>3 DEF MUInv, MUTypeOK
<1>4. Jobs'
  BY <1>0, <1>1, <1>2, Typed, MURender, RequestFields DEF MUInv, Jobs, WriterSteps,
     MUThreads, mat
<1>5. FlagIsServed'
  BY <1>0, <1>1, <1>2, Typed, MURender, RequestFields DEF MUInv, Jobs, WriterSteps,
     FlagIsServed, Pushing, Uploading, MUThreads, mat
<1>6. Gate'
  BY <1>0, <1>1, <1>2, Typed, MURender, RequestFields DEF MUInv, Jobs, WriterSteps, Gate,
     ReadyMeansReady, evaluate_textures_ready, BoundTextures, MUThreads, mat
<1>7. BindingsUploaded'
  BY <1>0, <1>1, <1>2, Typed, MURender, MUGlobals, RequestFields DEF MUInv, Jobs,
     WriterSteps, FlagIsServed, Uploads, BindingsUploaded, Pushing, Uploading, MUThreads,
     mat
<1>8. pc'[Render] \in {"clean", "clear"} /\ mat(Render)' \in GlobalMaterials =>
          uploaded'[mat(Render)'] >= bound'[mat(Render)']
  BY <1>0, <1>1, <1>2, Typed, MURender, MUGlobals, RequestFields DEF MUInv, Jobs,
     WriterSteps, Uploads, MUThreads, mat
<1> QED
  BY <1>3, <1>4, <1>5, <1>6, <1>7, <1>8 DEF MUInv, Uploads

LEMMA BindInv == ASSUME MUInv, bind_texture PROVE MUInv'
<1>0. UNCHANGED <<uploaded, dirty, in_update_queue, updates, textures_ready, gpu_ready,
                 to_draw, job, writes, last_set>>
  BY DEF bind_texture, bytes, drawing, history
<1>1. /\ pc[Render] = "bind"
      /\ handles' = [handles EXCEPT ![mat(Render)] = [@ EXCEPT ![job[Render].name] = job[Render].texture]]
      /\ staged' = [staged EXCEPT ![mat(Render)] = IF mat(Render) \in GlobalMaterials THEN @ + 1 ELSE @]
      /\ bound' = [bound EXCEPT ![mat(Render)] =
                     IF mat(Render) \in GlobalMaterials THEN staged'[mat(Render)] ELSE @]
      /\ pc' = [pc EXCEPT ![Render] = IF mat(Render) \in GlobalMaterials THEN "test" ELSE "unready"]
  BY DEF bind_texture, Step, mat, bytes, drawing, history
<1>2. \A k \in Materials : Queued(k) => Queued(k)'
  BY <1>0 DEF Queued
<1>3. MUTypeOK'
  <2>1. staged' \in [Materials -> Nat]
    BY <1>0, <1>1, Typed
  <2>2. handles' \in [Materials -> [Names -> Textures \cup {None}]]
    <3>1. /\ mat(Render) \in Materials
          /\ job[Render].name \in Names /\ job[Render].texture \in Textures
      BY <1>1, Typed, RequestFields DEF MUInv, Jobs
    <3>2. [handles[mat(Render)] EXCEPT ![job[Render].name] = job[Render].texture]
              \in [Names -> Textures \cup {None}]
      BY <3>1, Typed
    <3> QED
      BY <1>1, <3>1, <3>2, Typed
  <2>3. pc' \in [MUThreads -> MUSteps]
    BY <1>0, <1>1, Typed DEF MUSteps
  <2>4. bound' \in [Materials -> Nat]
    BY <1>0, <1>1, Typed
  <2>5. \A k \in Materials : uploaded'[k] <= staged'[k] /\ bound'[k] <= staged'[k]
    BY <1>0, <1>1, Typed
  <2> QED
    BY <1>0, <2>1, <2>2, <2>3, <2>4, <2>5 DEF MUInv, MUTypeOK
<1>4. Jobs'
  BY <1>0, <1>1, <1>2, Typed, MURender DEF MUInv, Jobs, WriterSteps, MUThreads, mat
<1>5. FlagIsServed'
  BY <1>0, <1>1, <1>2, Typed, MURender DEF MUInv, Jobs, WriterSteps, FlagIsServed,
     Pushing, Uploading, MUThreads, mat
<1>6. Gate'
  BY <1>0, <1>1, <1>2, Typed, MURender DEF MUInv, Jobs, WriterSteps, Gate,
     ReadyMeansReady, evaluate_textures_ready, BoundTextures, MUThreads, mat
<1>7. BindingsUploaded'
  BY <1>0, <1>1, <1>2, Typed, MURender, MUGlobals DEF MUInv, Jobs, WriterSteps,
     FlagIsServed, Uploads, BindingsUploaded, Pushing, Uploading, MUThreads, mat
<1>8. pc'[Render] \in {"clean", "clear"} /\ mat(Render)' \in GlobalMaterials =>
          uploaded'[mat(Render)'] >= bound'[mat(Render)']
  BY <1>0, <1>1, <1>2, Typed, MURender, MUGlobals DEF MUInv, Jobs, WriterSteps, Uploads,
     MUThreads, mat
<1> QED
  BY <1>3, <1>4, <1>5, <1>6, <1>7, <1>8 DEF MUInv, Uploads

LEMMA BindEndInv == ASSUME MUInv, bind_texture_end PROVE MUInv'
<1>0. UNCHANGED <<staged, uploaded, dirty, in_update_queue, updates, handles, gpu_ready,
                 to_draw, job, writes, last_set, bound>>
  BY DEF bind_texture_end, bytes, drawing, history
<1>1. /\ pc[Render] = "unready"
      /\ textures_ready' = [textures_ready EXCEPT ![mat(Render)] = FALSE]
      /\ pc' = [pc EXCEPT ![Render] = "batch"]
  BY DEF bind_texture_end, Step, mat, bytes, drawing, history
<1>2. \A k \in Materials : Queued(k) => Queued(k)'
  BY <1>0 DEF Queued
<1>3. MUTypeOK'
  <2>1. textures_ready' \in [Materials -> BOOLEAN]
    BY <1>0, <1>1, Typed
  <2>2. pc' \in [MUThreads -> MUSteps]
    BY <1>0, <1>1, Typed DEF MUSteps
  <2> QED
    BY <1>0, <2>1, <2>2 DEF MUInv, MUTypeOK
<1>4. Jobs'
  BY <1>0, <1>1, <1>2, Typed, MURender DEF MUInv, Jobs, WriterSteps, MUThreads, mat
<1>5. FlagIsServed'
  BY <1>0, <1>1, <1>2, Typed, MURender DEF MUInv, Jobs, WriterSteps, FlagIsServed,
     Pushing, Uploading, MUThreads, mat
<1>6. Gate'
  BY <1>0, <1>1, <1>2, Typed, MURender DEF MUInv, Jobs, WriterSteps, Gate,
     ReadyMeansReady, evaluate_textures_ready, BoundTextures, MUThreads, mat
<1>7. BindingsUploaded'
  BY <1>0, <1>1, <1>2, Typed, MURender, MUGlobals DEF MUInv, Jobs, WriterSteps,
     FlagIsServed, Uploads, BindingsUploaded, Pushing, Uploading, MUThreads, mat
<1>8. pc'[Render] \in {"clean", "clear"} /\ mat(Render)' \in GlobalMaterials =>
          uploaded'[mat(Render)'] >= bound'[mat(Render)']
  BY <1>0, <1>1, <1>2, Typed, MURender, MUGlobals DEF MUInv, Jobs, WriterSteps, Uploads,
     MUThreads, mat
<1> QED
  BY <1>3, <1>4, <1>5, <1>6, <1>7, <1>8 DEF MUInv, Uploads

LEMMA CopyInv == ASSUME MUInv, copy_from_immediately PROVE MUInv'
<1>0. UNCHANGED <<staged, dirty, in_update_queue, updates, handles, textures_ready,
                 gpu_ready, to_draw, job, writes, last_set, bound>>
  BY DEF copy_from_immediately, bytes, drawing, history
<1>1. /\ pc[Render] = "copy"
      /\ \/ /\ uploaded' = [uploaded EXCEPT ![mat(Render)] = staged[mat(Render)]]
            /\ \E s \in {"clean", "clear"} : pc' = [pc EXCEPT ![Render] = s]
         \/ /\ mat(Render) \notin GlobalMaterials /\ uploaded' = uploaded
            /\ pc' = [pc EXCEPT ![Render] = "clear"]
  BY DEF copy_from_immediately, Step, mat, Upload, bytes, drawing, history
<1>2. \A k \in Materials : Queued(k) => Queued(k)'
  BY <1>0 DEF Queued
<1>3. MUTypeOK'
  <2>1. uploaded' \in [Materials -> Nat]
    BY <1>0, <1>1, Typed
  <2>2. pc' \in [MUThreads -> MUSteps]
    BY <1>0, <1>1, Typed DEF MUSteps
  <2>3. \A k \in Materials : uploaded'[k] <= staged'[k] /\ bound'[k] <= staged'[k]
    <3> SUFFICES ASSUME NEW k \in Materials PROVE uploaded'[k] <= staged[k] /\ bound[k] <= staged[k]
      BY <1>0
    <3>1. uploaded'[k] = uploaded[k] \/ uploaded'[k] = staged[k]
      BY <1>1, Typed
    <3> QED
      BY <3>1, Typed
  <2> QED
    BY <1>0, <2>1, <2>2, <2>3 DEF MUInv, MUTypeOK
<1>4. Jobs'
  BY <1>0, <1>1, <1>2, Typed, MURender DEF MUInv, Jobs, WriterSteps, MUThreads, mat
<1>5. FlagIsServed'
  BY <1>0, <1>1, <1>2, Typed, MURender DEF MUInv, Jobs, WriterSteps, FlagIsServed,
     Pushing, Uploading, MUThreads, mat
<1>6. Gate'
  BY <1>0, <1>1, <1>2, Typed, MURender DEF MUInv, Jobs, WriterSteps, Gate,
     ReadyMeansReady, evaluate_textures_ready, BoundTextures, MUThreads, mat
<1>7. BindingsUploaded'
  BY <1>0, <1>1, <1>2, Typed, MURender, MUGlobals DEF MUInv, Jobs, WriterSteps,
     FlagIsServed, Uploads, BindingsUploaded, Pushing, Uploading, MUThreads, mat
<1>8. pc'[Render] \in {"clean", "clear"} /\ mat(Render)' \in GlobalMaterials =>
          uploaded'[mat(Render)'] >= bound'[mat(Render)']
  BY <1>0, <1>1, <1>2, Typed, MURender, MUGlobals DEF MUInv, Jobs, WriterSteps, Uploads,
     MUThreads, mat
<1> QED
  BY <1>3, <1>4, <1>5, <1>6, <1>7, <1>8 DEF MUInv, Uploads

LEMMA CleanInv == ASSUME MUInv, clear_dirty PROVE MUInv'
<1>0. UNCHANGED <<staged, uploaded, in_update_queue, updates, handles, textures_ready,
                 gpu_ready, to_draw, job, writes, last_set, bound>>
  BY DEF clear_dirty, bytes, drawing, history
<1>1. /\ pc[Render] = "clean"
      /\ dirty' = [dirty EXCEPT ![mat(Render)] = FALSE]
      /\ pc' = [pc EXCEPT ![Render] = "clear"]
  BY DEF clear_dirty, Step, mat, bytes, drawing, history
<1>2. \A k \in Materials : Queued(k) => Queued(k)'
  BY <1>0 DEF Queued
<1>3. MUTypeOK'
  <2>1. dirty' \in [Materials -> BOOLEAN]
    BY <1>0, <1>1, Typed
  <2>2. pc' \in [MUThreads -> MUSteps]
    BY <1>0, <1>1, Typed DEF MUSteps
  <2> QED
    BY <1>0, <2>1, <2>2 DEF MUInv, MUTypeOK
<1>4. Jobs'
  BY <1>0, <1>1, <1>2, Typed, MURender DEF MUInv, Jobs, WriterSteps, MUThreads, mat
<1>5. FlagIsServed'
  BY <1>0, <1>1, <1>2, Typed, MURender DEF MUInv, Jobs, WriterSteps, FlagIsServed,
     Pushing, Uploading, MUThreads, mat
<1>6. Gate'
  BY <1>0, <1>1, <1>2, Typed, MURender DEF MUInv, Jobs, WriterSteps, Gate,
     ReadyMeansReady, evaluate_textures_ready, BoundTextures, MUThreads, mat
<1>7. BindingsUploaded'
  BY <1>0, <1>1, <1>2, Typed, MURender, MUGlobals DEF MUInv, Jobs, WriterSteps,
     FlagIsServed, Uploads, BindingsUploaded, Pushing, Uploading, MUThreads, mat
<1>8. pc'[Render] \in {"clean", "clear"} /\ mat(Render)' \in GlobalMaterials =>
          uploaded'[mat(Render)'] >= bound'[mat(Render)']
  BY <1>0, <1>1, <1>2, Typed, MURender, MUGlobals DEF MUInv, Jobs, WriterSteps, Uploads,
     MUThreads, mat
<1> QED
  BY <1>3, <1>4, <1>5, <1>6, <1>7, <1>8 DEF MUInv, Uploads

LEMMA ClearInv == ASSUME MUInv, clear_uniform_buffer_update_queued PROVE MUInv'
<1>0. UNCHANGED <<staged, uploaded, dirty, updates, handles, textures_ready, gpu_ready,
                 to_draw, job, writes, last_set, bound>>
  BY DEF clear_uniform_buffer_update_queued, bytes, drawing, history
<1>1. /\ pc[Render] = "clear"
      /\ in_update_queue' = [in_update_queue EXCEPT ![mat(Render)] = FALSE]
      /\ pc' = [pc EXCEPT ![Render] = "batch"]
  BY DEF clear_uniform_buffer_update_queued, Step, mat, bytes, drawing, history
<1>2. \A k \in Materials : Queued(k) => Queued(k)'
  BY <1>0 DEF Queued
<1>3. MUTypeOK'
  <2>1. in_update_queue' \in [Materials -> BOOLEAN]
    BY <1>0, <1>1, Typed
  <2>2. pc' \in [MUThreads -> MUSteps]
    BY <1>0, <1>1, Typed DEF MUSteps
  <2> QED
    BY <1>0, <2>1, <2>2 DEF MUInv, MUTypeOK
<1>4. Jobs'
  BY <1>0, <1>1, <1>2, Typed, MURender DEF MUInv, Jobs, WriterSteps, MUThreads, mat
<1>5. FlagIsServed'
  BY <1>0, <1>1, <1>2, Typed, MURender DEF MUInv, Jobs, WriterSteps, FlagIsServed,
     Pushing, Uploading, MUThreads, mat
<1>6. Gate'
  BY <1>0, <1>1, <1>2, Typed, MURender DEF MUInv, Jobs, WriterSteps, Gate,
     ReadyMeansReady, evaluate_textures_ready, BoundTextures, MUThreads, mat
<1>7. BindingsUploaded'
  BY <1>0, <1>1, <1>2, Typed, MURender, MUGlobals DEF MUInv, Jobs, WriterSteps,
     FlagIsServed, Uploads, BindingsUploaded, Pushing, Uploading, MUThreads, mat
<1>8. pc'[Render] \in {"clean", "clear"} /\ mat(Render)' \in GlobalMaterials =>
          uploaded'[mat(Render)'] >= bound'[mat(Render)']
  BY <1>0, <1>1, <1>2, Typed, MURender, MUGlobals DEF MUInv, Jobs, WriterSteps, Uploads,
     MUThreads, mat
<1> QED
  BY <1>3, <1>4, <1>5, <1>6, <1>7, <1>8 DEF MUInv, Uploads

LEMMA BeginDrawInv == ASSUME MUInv, BeginDraw PROVE MUInv'
<1>0. UNCHANGED <<staged, uploaded, dirty, in_update_queue, updates, handles,
                 textures_ready, gpu_ready, job, writes, last_set, bound>>
  BY DEF BeginDraw, bytes, drawing, history
<1>1. /\ pc[Render] = "batch"
      /\ to_draw' = Materials
      /\ pc' = [pc EXCEPT ![Render] = "draw"]
  BY DEF BeginDraw, Step, mat, bytes, drawing, history
<1>2. \A k \in Materials : Queued(k) => Queued(k)'
  BY <1>0 DEF Queued
<1>3. MUTypeOK'
  <2>1. to_draw' \subseteq Materials
    BY <1>0, <1>1, Typed
  <2>2. pc' \in [MUThreads -> MUSteps]
    BY <1>0, <1>1, Typed DEF MUSteps
  <2> QED
    BY <1>0, <2>1, <2>2 DEF MUInv, MUTypeOK
<1>4. Jobs'
  BY <1>0, <1>1, <1>2, Typed, MURender DEF MUInv, Jobs, WriterSteps, MUThreads, mat
<1>5. FlagIsServed'
  BY <1>0, <1>1, <1>2, Typed, MURender DEF MUInv, Jobs, WriterSteps, FlagIsServed,
     Pushing, Uploading, MUThreads, mat
<1>6. Gate'
  BY <1>0, <1>1, <1>2, Typed, MURender DEF MUInv, Jobs, WriterSteps, Gate,
     ReadyMeansReady, evaluate_textures_ready, BoundTextures, MUThreads, mat
<1>7. BindingsUploaded'
  BY <1>0, <1>1, <1>2, Typed, MURender, MUGlobals DEF MUInv, Jobs, WriterSteps,
     FlagIsServed, Uploads, BindingsUploaded, Pushing, Uploading, MUThreads, mat
<1>8. pc'[Render] \in {"clean", "clear"} /\ mat(Render)' \in GlobalMaterials =>
          uploaded'[mat(Render)'] >= bound'[mat(Render)']
  BY <1>0, <1>1, <1>2, Typed, MURender, MUGlobals DEF MUInv, Jobs, WriterSteps, Uploads,
     MUThreads, mat
<1> QED
  BY <1>3, <1>4, <1>5, <1>6, <1>7, <1>8 DEF MUInv, Uploads

LEMMA RenderableInv == ASSUME MUInv, NEW m \in Materials, is_renderable(m) PROVE MUInv'
<1>0. UNCHANGED <<staged, uploaded, dirty, in_update_queue, updates, handles,
                 textures_ready, gpu_ready, writes, last_set, bound>>
  BY DEF is_renderable, bytes, drawing, history
<1>1. /\ pc[Render] = "draw"
      /\ to_draw' = to_draw \ {m}
      /\ \/ /\ evaluate_textures_ready(m) /\ job' = [job EXCEPT ![Render] = UniformBuffer(m)]
            /\ pc' = [pc EXCEPT ![Render] = "store"]
         \/ UNCHANGED <<pc, job>>
  BY DEF is_renderable, Step, mat, bytes, drawing, history
<1>2. \A k \in Materials : Queued(k) => Queued(k)'
  BY <1>0 DEF Queued
<1>3. MUTypeOK'
  <2>1. to_draw' \subseteq Materials
    BY <1>0, <1>1, Typed
  <2>2. pc' \in [MUThreads -> MUSteps]
    BY <1>0, <1>1, Typed DEF MUSteps
  <2>3. job' \in [MUThreads -> Requests]
    <3>1. UniformBuffer(m) \in Requests
      BY RequestFields
    <3> QED
      BY <1>1, <3>1, Typed
  <2> QED
    BY <1>0, <2>1, <2>2, <2>3 DEF MUInv, MUTypeOK
<1>4. Jobs'
  <2>1. \A w \in Writers : pc'[w] = pc[w] /\ job'[w] = job[w]
    BY <1>1, Typed, MURender
  <2>2. pc'[Render] \in {"draw", "store"}
    BY <1>1, Typed
  <2> QED
    BY <2>1, <2>2 DEF MUInv, Jobs, MUThreads
<1>9. \A k \in Materials : /\ Pushing(k) => Pushing(k)'
                           /\ Uploading(k) => Uploading(k)'
  <2>1. \A th \in MUThreads : pc[th] # "draw" => pc'[th] = pc[th] /\ job'[th] = job[th]
    BY <1>1, Typed
  <2> QED
    BY <1>1, <2>1, Typed DEF Pushing, Uploading, mat
<1>5. FlagIsServed'
  BY <1>0, <1>2, <1>9 DEF MUInv, FlagIsServed
<1>6. Gate'
  BY <1>0, <1>1, <1>2, Typed, MURender, RequestFields DEF MUInv, Jobs, WriterSteps, Gate,
     ReadyMeansReady, evaluate_textures_ready, BoundTextures, MUThreads, mat
<1>10. pc[Render] # "test"
  BY <1>1
<1>7. BindingsUploaded'
  BY <1>0, <1>2, <1>9, <1>10, MUGlobals DEF MUInv, Uploads, BindingsUploaded
<1>8. pc'[Render] \in {"clean", "clear"} /\ mat(Render)' \in GlobalMaterials =>
          uploaded'[mat(Render)'] >= bound'[mat(Render)']
  BY <1>0, <1>1, <1>2, Typed, MURender, MUGlobals, RequestFields DEF MUInv, Jobs,
     WriterSteps, Uploads, MUThreads, mat
<1> QED
  BY <1>3, <1>4, <1>5, <1>6, <1>7, <1>8 DEF MUInv, Uploads

LEMMA StoreInv == ASSUME MUInv, store_ready PROVE MUInv'
<1>0. UNCHANGED <<staged, uploaded, dirty, in_update_queue, updates, handles, gpu_ready,
                 to_draw, job, writes, last_set, bound>>
  BY DEF store_ready, bytes, drawing, history
<1>1. /\ pc[Render] = "store"
      /\ textures_ready' = [textures_ready EXCEPT ![mat(Render)] = TRUE]
      /\ pc' = [pc EXCEPT ![Render] = "draw"]
  BY DEF store_ready, Step, mat, bytes, drawing, history
<1>2. \A k \in Materials : Queued(k) => Queued(k)'
  BY <1>0 DEF Queued
<1>3. MUTypeOK'
  <2>1. textures_ready' \in [Materials -> BOOLEAN]
    BY <1>0, <1>1, Typed
  <2>2. pc' \in [MUThreads -> MUSteps]
    BY <1>0, <1>1, Typed DEF MUSteps
  <2> QED
    BY <1>0, <2>1, <2>2 DEF MUInv, MUTypeOK
<1>4. Jobs'
  BY <1>0, <1>1, <1>2, Typed, MURender DEF MUInv, Jobs, WriterSteps, MUThreads, mat
<1>5. FlagIsServed'
  BY <1>0, <1>1, <1>2, Typed, MURender DEF MUInv, Jobs, WriterSteps, FlagIsServed,
     Pushing, Uploading, MUThreads, mat
<1>6. Gate'
  BY <1>0, <1>1, <1>2, Typed, MURender DEF MUInv, Jobs, WriterSteps, Gate,
     ReadyMeansReady, evaluate_textures_ready, BoundTextures, MUThreads, mat
<1>7. BindingsUploaded'
  BY <1>0, <1>1, <1>2, Typed, MURender, MUGlobals DEF MUInv, Jobs, WriterSteps,
     FlagIsServed, Uploads, BindingsUploaded, Pushing, Uploading, MUThreads, mat
<1>8. pc'[Render] \in {"clean", "clear"} /\ mat(Render)' \in GlobalMaterials =>
          uploaded'[mat(Render)'] >= bound'[mat(Render)']
  BY <1>0, <1>1, <1>2, Typed, MURender, MUGlobals DEF MUInv, Jobs, WriterSteps, Uploads,
     MUThreads, mat
<1> QED
  BY <1>3, <1>4, <1>5, <1>6, <1>7, <1>8 DEF MUInv, Uploads

LEMMA EndFrameInv == ASSUME MUInv, EndFrame PROVE MUInv'
<1>0. UNCHANGED <<staged, uploaded, dirty, in_update_queue, updates, handles,
                 textures_ready, gpu_ready, to_draw, job, writes, last_set, bound>>
  BY DEF EndFrame, bytes, drawing, history
<1>1. /\ pc[Render] = "draw"
      /\ pc' = [pc EXCEPT ![Render] = "idle"]
  BY DEF EndFrame, Step, mat, bytes, drawing, history
<1>2. \A k \in Materials : Queued(k) => Queued(k)'
  BY <1>0 DEF Queued
<1>3. MUTypeOK'
  <2>1. pc' \in [MUThreads -> MUSteps]
    BY <1>0, <1>1, Typed DEF MUSteps
  <2> QED
    BY <1>0, <2>1 DEF MUInv, MUTypeOK
<1>4. Jobs'
  BY <1>0, <1>1, <1>2, Typed, MURender DEF MUInv, Jobs, WriterSteps, MUThreads, mat
<1>5. FlagIsServed'
  BY <1>0, <1>1, <1>2, Typed, MURender DEF MUInv, Jobs, WriterSteps, FlagIsServed,
     Pushing, Uploading, MUThreads, mat
<1>6. Gate'
  BY <1>0, <1>1, <1>2, Typed, MURender DEF MUInv, Jobs, WriterSteps, Gate,
     ReadyMeansReady, evaluate_textures_ready, BoundTextures, MUThreads, mat
<1>7. BindingsUploaded'
  BY <1>0, <1>1, <1>2, Typed, MURender, MUGlobals DEF MUInv, Jobs, WriterSteps,
     FlagIsServed, Uploads, BindingsUploaded, Pushing, Uploading, MUThreads, mat
<1>8. pc'[Render] \in {"clean", "clear"} /\ mat(Render)' \in GlobalMaterials =>
          uploaded'[mat(Render)'] >= bound'[mat(Render)']
  BY <1>0, <1>1, <1>2, Typed, MURender, MUGlobals DEF MUInv, Jobs, WriterSteps, Uploads,
     MUThreads, mat
<1> QED
  BY <1>3, <1>4, <1>5, <1>6, <1>7, <1>8 DEF MUInv, Uploads

LEMMA TextureReadyInv == ASSUME MUInv, NEW t \in Textures, TextureReady(t) PROVE MUInv'
<1>0. UNCHANGED <<staged, uploaded, dirty, in_update_queue, updates, handles,
                 textures_ready, to_draw, pc, job, writes, last_set, bound>>
  BY DEF TextureReady, bytes, drawing, history
<1>1. /\ gpu_ready' = gpu_ready \cup {t}
  BY DEF TextureReady, Step, mat, bytes, drawing, history
<1>2. \A k \in Materials : Queued(k) => Queued(k)'
  BY <1>0 DEF Queued
<1>3. MUTypeOK'
  <2>1. gpu_ready' \subseteq Textures
    BY <1>0, <1>1, Typed
  <2> QED
    BY <1>0, <2>1 DEF MUInv, MUTypeOK
<1>4. Jobs'
  BY <1>0, <1>1, <1>2, Typed, MURender DEF MUInv, Jobs, WriterSteps, MUThreads, mat
<1>5. FlagIsServed'
  BY <1>0, <1>1, <1>2, Typed, MURender DEF MUInv, Jobs, WriterSteps, FlagIsServed,
     Pushing, Uploading, MUThreads, mat
<1>6. Gate'
  BY <1>0, <1>1, <1>2, Typed, MURender DEF MUInv, Jobs, WriterSteps, Gate,
     ReadyMeansReady, evaluate_textures_ready, BoundTextures, MUThreads, mat
<1>7. BindingsUploaded'
  BY <1>0, <1>1, <1>2, Typed, MURender, MUGlobals DEF MUInv, Jobs, WriterSteps,
     FlagIsServed, Uploads, BindingsUploaded, Pushing, Uploading, MUThreads, mat
<1>8. pc'[Render] \in {"clean", "clear"} /\ mat(Render)' \in GlobalMaterials =>
          uploaded'[mat(Render)'] >= bound'[mat(Render)']
  BY <1>0, <1>1, <1>2, Typed, MURender, MUGlobals DEF MUInv, Jobs, WriterSteps, Uploads,
     MUThreads, mat
<1> QED
  BY <1>3, <1>4, <1>5, <1>6, <1>7, <1>8 DEF MUInv, Uploads

LEMMA MUStep == MUInv /\ [MUNext]_muVars => MUInv'
<1> SUFFICES ASSUME MUInv, [MUNext]_muVars PROVE MUInv'
  OBVIOUS
<1>1. ASSUME NEW th \in MUThreads, Queueing(th) PROVE MUInv'
  BY <1>1, TestInv, MarkInv, PushInv DEF Queueing
<1>2. ASSUME RenderStep PROVE MUInv'
  <2>1. CASE process_material_update
    BY <1>1, <2>1, Typed, PopInv, BindInv, BindEndInv, CopyInv, CleanInv, ClearInv
       DEF process_material_update
  <2> QED
    BY <1>2, <2>1, FrameInv, BeginDrawInv, RenderableInv, StoreInv, EndFrameInv DEF RenderStep
<1>3. ASSUME NEW w \in Writers, WriterStep(w) PROVE MUInv'
  BY <1>1, <1>3, Typed, SetPropertyInv, SetTextureInv, MarkDirtyInv, PushTextureInv
     DEF WriterStep
<1>4. ASSUME UNCHANGED muVars PROVE MUInv'
  <2> USE <1>4 DEF muVars, bytes, drawing, history
  <2>1. MUTypeOK'
    BY DEF MUInv, MUTypeOK
  <2>2. Jobs' /\ Gate'
    BY DEF MUInv, Jobs, Gate, ReadyMeansReady, evaluate_textures_ready, BoundTextures, mat
  <2>3. FlagIsServed' /\ Uploads'
    BY DEF MUInv, FlagIsServed, Uploads, BindingsUploaded, Queued, Pushing, Uploading, mat
  <2> QED
    BY <2>1, <2>2, <2>3 DEF MUInv
<1> QED
  BY <1>2, <1>3, <1>4, TextureReadyInv DEF MUNext

LEMMA MUAlways == MUSpec => []MUInv
BY MUInitInv, MUStep, PTL DEF MUSpec

\* Whoever interleaves with whom, every variable of a material keeps its type, and
\* neither the GPU's bytes nor a recorded binding run ahead of the staged ones.
THEOREM MaterialsTypeCorrect == MUSpec => []MUTypeOK
<1>1. MUInv => MUTypeOK
  BY DEF MUInv
<1> QED
  BY <1>1, MUAlways, PTL

\* try_queue_uniform_buffer_update never leaves in_update_queue_ set without a
\* request, pushed or about to be, after which the batch resets it.
THEOREM FlagAlwaysServed == MUSpec => []FlagIsServed
<1>1. MUInv => FlagIsServed
  BY DEF MUInv
<1> QED
  BY <1>1, MUAlways, PTL

\* is_renderable never admits a material with a bound texture that is not
\* GPU_Ready, for any number of loaders that set textures while it draws.
THEOREM GateHolds == MUSpec => []ReadyMeansReady
<1>1. MUInv => ReadyMeansReady
  BY DEF MUInv, Gate
<1> QED
  BY <1>1, MUAlways, PTL

\* The index that bind_texture stages is uploaded or has a request ahead of it,
\* although the request may be one that another thread is only about to push.
THEOREM BindingsReachTheGPU == MUSpec => []BindingsUploaded
<1>1. MUInv => BindingsUploaded
  BY DEF MUInv, Uploads
<1> QED
  BY <1>1, MUAlways, PTL
=============================================================================
