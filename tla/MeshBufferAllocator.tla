------------------------- MODULE MeshBufferAllocator -------------------------
(***************************************************************************)
(* MeshBufferAllocator of src/src/framework/mesh_buffer_allocator.{h,cpp}: *)
(* a vertex and an index allocator, and upload, which cuts a range from    *)
(* each and writes a mesh's geometry there. The slice handed to the mesh   *)
(* names both ranges. upload runs on one thread at a time                  *)
(* (GPUResourceThread!UploadsSerialized), so it is one step here.          *)
(***************************************************************************)
EXTENDS Integers, Sequences

CONSTANTS BytesPerVertex,    \* kMeshBytesPerVertex: all streams of a vertex
          VertexPageBytes,   \* kMeshVertexPageBytes
          IndexBytes,        \* sizeof(uint16_t)
          MeshShapes,        \* the <<vertex_count, index_count>> of meshes
          MaxMeshes          \* bound: uploads between two cleanups

ASSUME MBAAssumption ==
    /\ BytesPerVertex \in Nat \ {0}
    /\ VertexPageBytes \in Nat
    /\ BytesPerVertex <= VertexPageBytes
    /\ IndexBytes \in Nat \ {0}
    /\ MeshShapes \subseteq (Nat \ {0}) \X (Nat \ {0})
    /\ MaxMeshes \in Nat

\* About three indices per vertex of a vertex page.
default_index_page_bytes == (VertexPageBytes \div BytesPerVertex) * 3 * IndexBytes

VARIABLES device,  \* device_ # nullptr: between initialize and cleanup
          vertexPages, vertexRanges, indexPages, indexRanges,
          written  \* what each page's buffers hold, by <<kind, page, unit>>:
                   \* the number of the upload that wrote it

vertexVars == <<vertexPages, vertexRanges>>
indexVars == <<indexPages, indexRanges>>
mbaVars == <<device, vertexVars, indexVars, written>>

Vertices == INSTANCE PageAllocator WITH
    Unit <- BytesPerVertex, PageBytes <- VertexPageBytes,
    pages <- vertexPages, ranges <- vertexRanges

Indices == INSTANCE PageAllocator WITH
    Unit <- IndexBytes, PageBytes <- default_index_page_bytes,
    pages <- indexPages, ranges <- indexRanges

MBAInit ==
    /\ device = FALSE
    /\ Vertices!PAInit
    /\ Indices!PAInit
    /\ written = << >>

initialize == device' = TRUE /\ UNCHANGED <<vertexVars, indexVars, written>>

\* The units a range covers, as places in a buffer.
Units(kind, r) == {<<kind, r.page, u>> : u \in r.offset .. r.offset + r.count - 1}

\* Mutant: the indices are copied to the start of the page.
Targets_IndicesAtZero(v, i) ==
    Units("vertex", v) \cup Units("index", [i EXCEPT !.offset = 0])

\* The places upload writes: every vertex stream at vertex_offset, the indices
\* at index_offset. A mesh without normals, uvs or colours has defaults written
\* there, so each stream of the range is written either way.
Targets(v, i) == Units("vertex", v) \cup Units("index", i)

upload(shape) ==
    /\ device
    /\ Len(vertexRanges) < MaxMeshes
    /\ Vertices!allocate(shape[1])
    /\ Indices!allocate(shape[2])
    /\ LET mesh == Len(vertexRanges')
           places == Targets(vertexRanges'[mesh], indexRanges'[mesh])
       IN written' = [p \in DOMAIN written \cup places |->
                         IF p \in places THEN mesh ELSE written[p]]
    /\ UNCHANGED device

cleanup ==
    device' = FALSE /\ Vertices!cleanup /\ Indices!cleanup /\ written' = << >>

MBANext == initialize \/ cleanup \/ \E shape \in MeshShapes : upload(shape)

MBASpec == MBAInit /\ [][MBANext]_mbaVars

-----------------------------------------------------------------------------
MBATypeOK ==
    /\ device \in BOOLEAN
    /\ Vertices!PATypeOK
    /\ Indices!PATypeOK
    /\ Len(vertexRanges) = Len(indexRanges)

\* No two meshes share a vertex or an index.
SlicesDisjoint == Vertices!RangesDisjoint /\ Indices!RangesDisjoint

\* Every slice fits the buffers of its pages.
SlicesInside == Vertices!RangesInside /\ Indices!RangesInside

\* Every place a mesh draws from still holds what its own upload wrote there.
GeometryIntact ==
    \A m \in DOMAIN vertexRanges :
        \A p \in Units("vertex", vertexRanges[m])
                     \cup Units("index", indexRanges[m]) :
            p \in DOMAIN written /\ written[p] = m
=============================================================================
