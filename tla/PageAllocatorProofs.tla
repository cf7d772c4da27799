------------------------- MODULE PageAllocatorProofs -------------------------
(***************************************************************************)
(* Proofs about PageAllocator for every unit, page size and sequence of     *)
(* requests: ranges stay inside their pages and never meet.                 *)
(***************************************************************************)
EXTENDS PageAllocator, SequenceTheorems, TLAPS

(* Arithmetic of units and bytes.                                           *)

LEMMA UnitsOfBytes ==
  ASSUME NEW k \in Nat, NEW u \in Nat \ {0}
  PROVE  (k * u) \div u = k
BY SMTT(20)

LEMMA UnitsFit ==
  ASSUME NEW k \in Nat, NEW u \in Nat \ {0}, NEW bytes \in Nat, k * u <= bytes
  PROVE  k <= bytes \div u
BY SMTT(20)

LEMMA BytesAdd ==
  ASSUME NEW a \in Nat, NEW b \in Nat, NEW u \in Nat
  PROVE  (a + b) * u = a * u + b * u /\ a * u \in Nat
BY SMTT(20)

LEMMA BytesType ==
  ASSUME NEW a \in Nat, NEW u \in Nat
  PROVE  a * u \in Nat
BY SMTT(20)

LEMMA PageFields ==
  ASSUME NEW s \in Seq(Page), NEW i \in DOMAIN s
  PROVE  s[i] \in Page /\ s[i].used \in Nat /\ s[i].total \in Nat
<1>1. s[i] \in Page
  OBVIOUS
<1> QED
  BY <1>1 DEF Page

LEMMA RangeFields ==
  ASSUME NEW s \in Seq(RangeRec), NEW i \in DOMAIN s
  PROVE  /\ s[i] \in RangeRec
         /\ s[i].page \in Nat /\ s[i].offset \in Nat /\ s[i].count \in Nat
<1>1. s[i] \in RangeRec
  OBVIOUS
<1> QED
  BY <1>1 DEF RangeRec

(* The inductive invariant. A page's used bytes are whole units and bound    *)
(* every range cut from it; a later range of a page begins where the earlier *)
(* ones have ended.                                                          *)

PagesWhole ==
    \A i \in DOMAIN pages :
        /\ pages[i].used <= pages[i].total
        /\ \E k \in Nat : pages[i].used = k * Unit

RangesUsed ==
    \A j \in DOMAIN ranges :
        /\ ranges[j].page \in 0 .. Len(pages) - 1
        /\ (ranges[j].offset + ranges[j].count) * Unit
               <= pages[ranges[j].page + 1].used

RangesOrdered ==
    \A i, j \in DOMAIN ranges :
        (i < j /\ ranges[i].page = ranges[j].page) =>
            ranges[i].offset + ranges[i].count <= ranges[j].offset

PAInv == PATypeOK /\ PagesWhole /\ RangesUsed /\ RangesOrdered

LEMMA PAInvInit == PAInit => PAInv
BY DEF PAInit, PAInv, PATypeOK, PagesWhole, RangesUsed, RangesOrdered

\* A range appended where every earlier range of its page has ended, with the
\* pages only growing, keeps the invariant's facts about ranges.
LEMMA AppendRange ==
  ASSUME PAParameters, PAInv, NEW r \in RangeRec, ranges' = Append(ranges, r),
         pages' \in Seq(Page), Len(pages') >= Len(pages),
         \A i \in DOMAIN pages : pages'[i].used >= pages[i].used,
         r.page < Len(pages'),
         (r.offset + r.count) * Unit <= pages'[r.page + 1].used,
         \A j \in DOMAIN ranges : ranges[j].page = r.page =>
             ranges[j].offset + ranges[j].count <= r.offset
  PROVE  RangesUsed' /\ RangesOrdered' /\ ranges' \in Seq(RangeRec)
<1> USE DEF PAParameters
<1>1. /\ ranges \in Seq(RangeRec) /\ pages \in Seq(Page)
      /\ ranges' \in Seq(RangeRec)
      /\ Len(ranges) \in Nat /\ Len(ranges') = Len(ranges) + 1
      /\ ranges'[Len(ranges) + 1] = r
      /\ \A j \in DOMAIN ranges : ranges'[j] = ranges[j]
      /\ DOMAIN ranges = 1 .. Len(ranges)
      /\ DOMAIN ranges' = 1 .. Len(ranges) + 1
      /\ DOMAIN pages = 1 .. Len(pages)
  BY DEF PAInv, PATypeOK
<1>2. RangesUsed'
  <2> SUFFICES ASSUME NEW j \in 1 .. Len(ranges) + 1
               PROVE  /\ ranges'[j].page \in 0 .. Len(pages') - 1
                      /\ (ranges'[j].offset + ranges'[j].count) * Unit
                             <= pages'[ranges'[j].page + 1].used
    BY <1>1 DEF RangesUsed
  <2>1. CASE j = Len(ranges) + 1
    BY <2>1, <1>1 DEF RangeRec
  <2>2. CASE j \in DOMAIN ranges
    <3>1. ranges'[j] = ranges[j] /\ ranges[j] \in RangeRec
      BY <2>2, <1>1
    <3>2. /\ ranges[j].page \in 0 .. Len(pages) - 1
          /\ (ranges[j].offset + ranges[j].count) * Unit
                 <= pages[ranges[j].page + 1].used
      BY <2>2 DEF PAInv, RangesUsed
    <3>3. ranges[j].page + 1 \in DOMAIN pages
      BY <3>2, <1>1
    <3>4. ranges[j].page + 1 \in DOMAIN pages'
      BY <3>3, <1>1
    <3>5. /\ pages[ranges[j].page + 1].used \in Nat
          /\ pages'[ranges[j].page + 1].used \in Nat
      BY <3>3, <3>4, <1>1, PageFields
    <3>6. ranges[j].offset + ranges[j].count \in Nat
      BY <1>1, <2>2, RangeFields
    <3>7. (ranges[j].offset + ranges[j].count) * Unit \in Nat
      <4>1. Unit \in Nat
        OBVIOUS
      <4> QED
        BY <3>6, <4>1, BytesType, Zenon
    <3> DEFINE bytes == (ranges[j].offset + ranges[j].count) * Unit
               u == pages[ranges[j].page + 1].used
               v == pages'[ranges[j].page + 1].used
    <3>8. bytes \in Nat /\ u \in Nat /\ v \in Nat /\ bytes <= u /\ u <= v
      BY <3>2, <3>3, <3>5, <3>7
    <3>9. bytes <= v
      <4> HIDE DEF bytes, u, v
      <4> QED
        BY <3>8
    <3> QED
      BY <3>1, <3>2, <3>9, <1>1
  <2> QED
    BY <2>1, <2>2, <1>1
<1>3. RangesOrdered'
  <2> SUFFICES ASSUME NEW i \in 1 .. Len(ranges) + 1,
                      NEW j \in 1 .. Len(ranges) + 1,
                      i < j, ranges'[i].page = ranges'[j].page
               PROVE  ranges'[i].offset + ranges'[i].count <= ranges'[j].offset
    BY <1>1 DEF RangesOrdered
  <2>1. i \in DOMAIN ranges /\ ranges'[i] = ranges[i]
    BY <1>1
  <2>2. CASE j \in DOMAIN ranges
    BY <1>1, <2>1, <2>2 DEF PAInv, RangesOrdered
  <2>3. CASE j = Len(ranges) + 1
    BY <1>1, <2>1, <2>3
  <2>4. j \in DOMAIN ranges \/ j = Len(ranges) + 1
    BY <1>1
  <2> QED
    BY <2>2, <2>3, <2>4, Zenon
<1> QED
  BY <1>1, <1>2, <1>3

LEMMA ReuseKeeps ==
  ASSUME PAParameters, PAInv, NEW n \in Nat \ {0}, Reuse(n)
  PROVE  PAInv'
<1> USE DEF PAParameters
<1>1. PICK i \in DOMAIN pages :
        /\ FirstFit(i, n * Unit)
        /\ pages' = [pages EXCEPT ![i].used = @ + n * Unit]
        /\ ranges' = Append(ranges, [page |-> i - 1, count |-> n,
                                     offset |-> pages[i].used \div Unit])
  BY DEF Reuse
<1>2. /\ pages \in Seq(Page) /\ DOMAIN pages = 1 .. Len(pages)
      /\ i \in 1 .. Len(pages) /\ pages[i] \in Page
  BY <1>1 DEF PAInv, PATypeOK
<1>3. PICK k \in Nat : pages[i].used = k * Unit
  BY <1>1 DEF PAInv, PagesWhole
<1>4. /\ k * Unit \in Nat /\ n * Unit \in Nat
      /\ (k + n) * Unit = k * Unit + n * Unit
      /\ (k * Unit) \div Unit = k
  BY BytesAdd, UnitsOfBytes
<1>5. pages[i].used + n * Unit <= pages[i].total
  <2> DEFINE u == pages[i].used
             t == pages[i].total
             need == n * Unit
  <2>1. u \in Nat /\ t \in Nat /\ need \in Nat
    BY <1>2, <1>4, PageFields
  <2>2. (IF t > u THEN t - u ELSE 0) >= need
    BY <1>1 DEF FirstFit, remaining_bytes
  <2>3. need # 0
    BY SMTT(20)
  <2> HIDE DEF u, t, need
  <2>4. u + need <= t
    BY <2>1, <2>2, <2>3
  <2> QED
    BY <2>4 DEF u, t, need
<1>6. /\ pages' \in Seq(Page) /\ Len(pages') = Len(pages)
      /\ DOMAIN pages' = DOMAIN pages
      /\ pages'[i].used = (k + n) * Unit
      /\ pages'[i].total = pages[i].total
      /\ \A j \in DOMAIN pages : j # i => pages'[j] = pages[j]
  <2> DEFINE new == [pages[i] EXCEPT !.used = @ + n * Unit]
  <2>1. pages' = [pages EXCEPT ![i] = new]
    BY <1>1
  <2>2. pages[i].used + n * Unit = (k + n) * Unit
    BY <1>3, <1>4
  <2>3. (k + n) * Unit \in Nat
    BY <1>4, <2>2
  <2>4. new \in Page
    BY <1>2, <2>2, <2>3 DEF Page
  <2>5. new.used = (k + n) * Unit /\ new.total = pages[i].total
    BY <1>2, <2>2 DEF Page
  <2> HIDE DEF new
  <2> QED
    BY <1>2, <2>1, <2>4, <2>5
<1>7. PagesWhole'
  <2> SUFFICES ASSUME NEW j \in DOMAIN pages
               PROVE  /\ pages'[j].used <= pages'[j].total
                      /\ \E m \in Nat : pages'[j].used = m * Unit
    BY <1>6 DEF PagesWhole
  <2>1. CASE j = i
    <3>1. k + n \in Nat
      OBVIOUS
    <3>2. pages[i].used + n * Unit = (k + n) * Unit
      BY <1>3, <1>4
    <3> QED
      BY <2>1, <3>1, <3>2, <1>5, <1>6
  <2>2. CASE j # i
    BY <2>2, <1>6 DEF PAInv, PagesWhole
  <2> QED
    BY <2>1, <2>2
<1> DEFINE r == [page |-> i - 1, count |-> n, offset |-> k]
<1>8. r \in RangeRec /\ ranges' = Append(ranges, r)
  BY <1>1, <1>2, <1>3, <1>4 DEF RangeRec
<1>9. \A j \in DOMAIN pages : pages'[j].used >= pages[j].used
  <2> SUFFICES ASSUME NEW j \in DOMAIN pages
               PROVE  pages'[j].used >= pages[j].used
    OBVIOUS
  <2>1. pages[j].used \in Nat
    BY <1>2, PageFields
  <2>2. CASE j = i
    <3> DEFINE a == k * Unit
               b == n * Unit
    <3>1. a \in Nat /\ b \in Nat /\ pages[j].used = a /\ pages'[j].used = a + b
      BY <1>3, <1>4, <1>6, <2>2
    <3> HIDE DEF a, b
    <3> QED
      BY <3>1
  <2>3. CASE j # i
    BY <2>1, <2>3, <1>6
  <2> QED
    BY <2>2, <2>3
<1>10. \A j \in DOMAIN ranges : ranges[j].page = r.page =>
           ranges[j].offset + ranges[j].count <= r.offset
  <2> SUFFICES ASSUME NEW j \in DOMAIN ranges, ranges[j].page = i - 1
               PROVE  ranges[j].offset + ranges[j].count <= k
    OBVIOUS
  <2>1. ranges[j] \in RangeRec
    BY DEF PAInv, PATypeOK
  <2>2. (ranges[j].offset + ranges[j].count) * Unit <= k * Unit
    BY <1>2, <1>3 DEF PAInv, RangesUsed
  <2> DEFINE units == ranges[j].offset + ranges[j].count
             bytes == k * Unit
  <2>3. units \in Nat /\ bytes \in Nat /\ units * Unit <= bytes
    BY <2>1, <2>2, <1>4 DEF RangeRec
  <2>4. units <= bytes \div Unit
    <3> HIDE DEF units, bytes
    <3> QED
      BY <2>3, UnitsFit
  <2> QED
    BY <2>4, <1>4
<1>11. /\ r.page < Len(pages')
       /\ (r.offset + r.count) * Unit <= pages'[r.page + 1].used
  BY <1>2, <1>4, <1>6
<1>12. RangesUsed' /\ RangesOrdered' /\ ranges' \in Seq(RangeRec)
  <2> HIDE DEF r
  <2> QED
    BY <1>6, <1>8, <1>9, <1>10, <1>11, <1>2, AppendRange
<1> QED
  BY <1>6, <1>7, <1>12 DEF PAInv, PATypeOK

LEMMA AddPageKeeps ==
  ASSUME PAParameters, PAInv, NEW n \in Nat \ {0}, AddPage(n)
  PROVE  PAInv'
<1> USE DEF PAParameters
<1> DEFINE total == IF n * Unit > PageBytes THEN n * Unit ELSE PageBytes
           new == [used |-> n * Unit, total |-> total]
           r == [page |-> Len(pages), count |-> n, offset |-> 0]
<1>1. pages' = Append(pages, new) /\ ranges' = Append(ranges, r)
  BY DEF AddPage, create_page
<1>2. pages \in Seq(Page) /\ Len(pages) \in Nat /\ DOMAIN pages = 1 .. Len(pages)
  BY DEF PAInv, PATypeOK
<1>3. n * Unit \in Nat
  BY BytesAdd
<1>4. /\ new \in Page /\ new.used <= new.total /\ new.used = n * Unit
      /\ r \in RangeRec /\ r.page = Len(pages) /\ r.offset + r.count = n
  BY <1>2, <1>3 DEF Page, RangeRec
<1> HIDE DEF total, new, r
<1>5. /\ pages' \in Seq(Page) /\ Len(pages') = Len(pages) + 1
      /\ DOMAIN pages' = 1 .. Len(pages) + 1
      /\ pages'[Len(pages) + 1] = new
      /\ \A j \in DOMAIN pages : pages'[j] = pages[j]
  BY <1>1, <1>2, <1>4
<1>6. PagesWhole'
  <2> SUFFICES ASSUME NEW j \in 1 .. Len(pages) + 1
               PROVE  /\ pages'[j].used <= pages'[j].total
                      /\ \E m \in Nat : pages'[j].used = m * Unit
    BY <1>5 DEF PagesWhole
  <2>1. CASE j \in DOMAIN pages
    BY <2>1, <1>5 DEF PAInv, PagesWhole
  <2>2. CASE j = Len(pages) + 1
    BY <2>2, <1>4, <1>5
  <2> QED
    BY <2>1, <2>2, <1>2
<1>7. \A j \in DOMAIN pages : pages'[j].used >= pages[j].used
  <2> TAKE j \in DOMAIN pages
  <2>1. pages[j].used \in Nat
    BY <1>2, PageFields
  <2> QED
    BY <2>1, <1>5
<1>8. \A j \in DOMAIN ranges : ranges[j].page # r.page
  BY <1>2, <1>4 DEF PAInv, RangesUsed
<1>9. /\ r.page < Len(pages')
      /\ (r.offset + r.count) * Unit <= pages'[r.page + 1].used
  BY <1>2, <1>3, <1>4, <1>5
<1>10. RangesUsed' /\ RangesOrdered' /\ ranges' \in Seq(RangeRec)
  <2>1. \A j \in DOMAIN ranges : ranges[j].page = r.page =>
            ranges[j].offset + ranges[j].count <= r.offset
    BY <1>8
  <2>2. Len(pages') >= Len(pages)
    BY <1>2, <1>5
  <2> HIDE DEF PAParameters
  <2> QED
    BY <1>1, <1>4, <1>5, <1>7, <1>9, <2>1, <2>2, AppendRange
<1> QED
  BY <1>5, <1>6, <1>10 DEF PAInv, PATypeOK

LEMMA PAInvStep ==
  ASSUME PAParameters, PAInv, [PANext]_paVars
  PROVE  PAInv'
<1>1. ASSUME NEW n \in Nat \ {0}, allocate(n) PROVE PAInv'
  BY <1>1, ReuseKeeps, AddPageKeeps DEF allocate
<1>2. CASE cleanup
  BY <1>2 DEF cleanup, PAInv, PATypeOK, PagesWhole, RangesUsed, RangesOrdered
<1>3. CASE UNCHANGED paVars
  BY <1>3 DEF paVars, PAInv, PATypeOK, PagesWhole, RangesUsed, RangesOrdered
<1> QED
  BY <1>1, <1>2, <1>3 DEF PANext

LEMMA InvImpliesDisjoint == PAInv => RangesDisjoint
<1> SUFFICES ASSUME PAInv, NEW i \in DOMAIN ranges, NEW j \in DOMAIN ranges,
                    Overlap(ranges[i], ranges[j])
             PROVE  i = j
  BY DEF RangesDisjoint
<1>1. /\ ranges[i] \in RangeRec /\ ranges[j] \in RangeRec
      /\ i \in Nat /\ j \in Nat
  BY DEF PAInv, PATypeOK
<1>2. ~(i < j) /\ ~(j < i)
  BY <1>1 DEF PAInv, RangesOrdered, Overlap, RangeRec
<1> QED
  BY <1>1, <1>2

LEMMA InvImpliesInside ==
  ASSUME PAParameters, PAInv
  PROVE  RangesInside
<1> SUFFICES ASSUME NEW j \in DOMAIN ranges
             PROVE  /\ ranges[j].page < Len(pages)
                    /\ ranges[j].offset + ranges[j].count
                           <= capacity(pages[ranges[j].page + 1])
  BY DEF RangesInside
<1>1. ranges[j] \in RangeRec /\ pages \in Seq(Page)
  BY DEF PAInv, PATypeOK
<1>2. /\ ranges[j].page \in 0 .. Len(pages) - 1
      /\ (ranges[j].offset + ranges[j].count) * Unit
             <= pages[ranges[j].page + 1].used
  BY DEF PAInv, RangesUsed
<1>3. /\ pages[ranges[j].page + 1] \in Page
      /\ pages[ranges[j].page + 1].used <= pages[ranges[j].page + 1].total
  BY <1>1, <1>2 DEF PAInv, PagesWhole
<1>4. (ranges[j].offset + ranges[j].count) * Unit \in Nat
  BY <1>1, BytesAdd DEF PAParameters, RangeRec
<1>5. (ranges[j].offset + ranges[j].count) * Unit
          <= pages[ranges[j].page + 1].total
  BY <1>2, <1>3, <1>4 DEF Page
<1> DEFINE units == ranges[j].offset + ranges[j].count
           bytes == pages[ranges[j].page + 1].total
<1>6. /\ units \in Nat /\ bytes \in Nat /\ units * Unit <= bytes
      /\ Unit \in Nat \ {0}
  <2>1. units \in Nat
    BY <1>1 DEF RangeRec
  <2>2. bytes \in Nat
    BY <1>3 DEF Page
  <2>3. Unit \in Nat \ {0}
    BY DEF PAParameters
  <2> QED
    BY <1>5, <2>1, <2>2, <2>3
<1>7. units <= bytes \div Unit
  <2> HIDE DEF units, bytes
  <2> QED
    BY <1>6, UnitsFit
<1>8. ranges[j].page < Len(pages)
  BY <1>1, <1>2
<1> QED
  BY <1>7, <1>8 DEF capacity

\* No two ranges cut from the pages ever share a unit.
THEOREM AllocatedRangesDisjoint ==
  ASSUME PAParameters
  PROVE  PASpec => []RangesDisjoint
<1>1. PAInv /\ [PANext]_paVars => PAInv'
  BY PAInvStep
<1> QED
  BY PAInvInit, <1>1, InvImpliesDisjoint, PTL DEF PASpec

\* Every range lies inside its page's buffers, also when the page's bytes are
\* no multiple of the unit and when the request exceeds the default page.
THEOREM AllocatedRangesInside ==
  ASSUME PAParameters
  PROVE  PASpec => []RangesInside
<1>1. PAInv /\ [PANext]_paVars => PAInv'
  BY PAInvStep
<1>2. PAInv => RangesInside
  BY InvImpliesInside
<1> QED
  BY PAInvInit, <1>1, <1>2, PTL DEF PASpec
=============================================================================
