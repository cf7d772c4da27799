---------------------------- MODULE PageAllocator ----------------------------
(***************************************************************************)
(* VertexAllocator and IndexAllocator of                                   *)
(*   src/src/framework/mesh_buffer_allocator.{h,cpp}:                      *)
(* ranges of units (vertices, indices) are cut from pages counted in bytes,*)
(* first fit over the pages in their order, and a page is added when none  *)
(* fits. Nothing is freed before cleanup. The two classes are this         *)
(* algorithm with different units and page sizes.                          *)
(***************************************************************************)
EXTENDS Integers, Sequences

CONSTANTS Unit,       \* bytes of a vertex over all streams, or of an index
          PageBytes   \* bytes of a page made for a request that fits in it

\* create_page asserts total_bytes >= the unit's size. The theorems assume it,
\* and a module that instantiates this one has to show it.
PAParameters ==
    /\ Unit \in Nat \ {0}
    /\ PageBytes \in Nat
    /\ Unit <= PageBytes

VARIABLES pages,    \* pages_: what each page has used and its size, in bytes
          ranges    \* history: what allocate returned since the last cleanup;
              \* pages count from 0, as in the code

paVars == <<pages, ranges>>

Page == [used : Nat, total : Nat]
RangeRec == [page : Nat, offset : Nat, count : Nat]

PAInit == pages = <<>> /\ ranges = <<>>

remaining_bytes(p) == IF p.total > p.used THEN p.total - p.used ELSE 0

\* The number of units a page's buffers are created for; PageBytes need not be
\* a multiple of Unit.
capacity(p) == p.total \div Unit

\* The loop stops at the first page with enough bytes left.
FirstFit(i, need) ==
    /\ i \in DOMAIN pages
    /\ remaining_bytes(pages[i]) >= need
    /\ \A j \in 1 .. i - 1 : remaining_bytes(pages[j]) < need

\* Mutant: the bytes in use are set, not increased.
Reuse_Overwrites(n) ==
    \E i \in DOMAIN pages :
        /\ FirstFit(i, n * Unit)
        /\ pages' = [pages EXCEPT ![i].used = n * Unit]
        /\ ranges' = Append(ranges, [page |-> i - 1, count |-> n,
                                     offset |-> pages[i].used \div Unit])

Reuse(n) ==
    \E i \in DOMAIN pages :
        /\ FirstFit(i, n * Unit)
        /\ pages' = [pages EXCEPT ![i].used = @ + n * Unit]
        /\ ranges' = Append(ranges, [page |-> i - 1, count |-> n,
                                     offset |-> pages[i].used \div Unit])

\* Mutant: every page has the default size, whatever the request.
create_page_Default(need) == Append(pages, [used |-> need, total |-> PageBytes])

\* create_page, with the used bytes allocate then sets.
create_page(need) ==
    Append(pages, [used |-> need,
                   total |-> IF need > PageBytes THEN need ELSE PageBytes])

AddPage(n) ==
    /\ \A i \in DOMAIN pages : remaining_bytes(pages[i]) < n * Unit
    /\ pages' = create_page(n * Unit)
    /\ ranges' = Append(ranges, [page |-> Len(pages), count |-> n, offset |-> 0])

allocate(n) == Reuse(n) \/ AddPage(n)

cleanup == pages' = <<>> /\ ranges' = <<>>

PANext == cleanup \/ \E n \in Nat \ {0} : allocate(n)

PASpec == PAInit /\ [][PANext]_paVars

-----------------------------------------------------------------------------
PATypeOK == pages \in Seq(Page) /\ ranges \in Seq(RangeRec)

Overlap(r, s) ==
    /\ r.page = s.page
    /\ r.offset < s.offset + s.count
    /\ s.offset < r.offset + r.count

\* Two ranges of a page never share a unit: the upload of a mesh never writes
\* over the geometry of another.
RangesDisjoint ==
    \A i, j \in DOMAIN ranges : Overlap(ranges[i], ranges[j]) => i = j

\* A range lies inside the buffers of its page, whose capacity is the page's
\* bytes rounded down to units (the assertions of upload_attribute_range and
\* upload_indices_range).
RangesInside ==
    \A i \in DOMAIN ranges :
        /\ ranges[i].page < Len(pages)
        /\ ranges[i].offset + ranges[i].count
               <= capacity(pages[ranges[i].page + 1])
=============================================================================
