--------------------------- MODULE RenderLoopProofs ---------------------------
(***************************************************************************)
(* Proofs about the render loop, for any entities, cells, culling threads  *)
(* and passes: build_grid permutes the entities into disjoint ranges, one  *)
(* per cell, that cover them; the culling threads find each entity once,   *)
(* whoever takes its cell and in whatever order they count and write; and  *)
(* what a pass draws is what it accepts of one such cull.                  *)
(***************************************************************************)
EXTENDS RenderLoop, FiniteSetTheorems, FunctionTheorems, SequenceTheorems, TLAPS

-----------------------------------------------------------------------------
(* Induction for sets of numbers.                                          *)

LEMMA LeastNat ==
  ASSUME NEW T \in SUBSET Nat, T # {}
  PROVE  \E x \in T : \A y \in T : ~(y < x)
<1>1. PICK R : R = OpToRel(<, Nat)
  OBVIOUS
<1>2. \A x, y \in Nat : y < x => <<y, x>> \in R
  BY <1>1 DEF OpToRel
<1>3. IsWellFoundedOn(R, Nat)
  BY <1>1, NatLessThanWellFounded
<1>4. \E x \in T : \A y \in T : ~(<<y, x>> \in R)
  BY <1>3, WFMin
<1> QED
  BY <1>2, <1>4

LEMMA SetInduction ==
  ASSUME NEW n \in Nat, NEW S, 0 \in S, \A i \in 0 .. n - 1 : i \in S => i + 1 \in S
  PROVE  0 .. n \subseteq S
<1> SUFFICES ASSUME ~(0 .. n \subseteq S) PROVE FALSE
  OBVIOUS
<1>1. PICK T : T = {i \in 0 .. n : i \notin S}
  OBVIOUS
<1>2. T \in SUBSET Nat /\ T # {}
  BY <1>1
<1>3. PICK x \in T : \A y \in T : ~(y < x)
  BY <1>2, LeastNat
<1>4. x # 0 /\ x - 1 \in 0 .. n - 1 /\ x - 1 \notin T
  BY <1>1, <1>3
<1>5. x - 1 \in S
  BY <1>1, <1>4
<1> QED
  BY <1>1, <1>4, <1>5

-----------------------------------------------------------------------------
(* The items a pass accepts: the loop of populate_render_pass_queues.        *)

Items(f, n, p) ==
    /\ DOMAIN f = 0 .. n
    /\ \A i \in 0 .. n :
          f[i] = IF i = 0 THEN <<>>
                 ELSE IF visible[i] \in Accepts[p] THEN Append(f[i - 1], visible[i])
                 ELSE f[i - 1]

\* The loop's list after any number of rounds exists, so the definition by
\* recursion is one.
LEMMA ItemsExist ==
  ASSUME NEW p, visible \in Seq(Entities \cup {None})
  PROVE  \E f : Items(f, Len(visible), p)
<1>1. PICK S : S = {n \in Nat : \E f : Items(f, n, p)}
  OBVIOUS
<1>2. 0 \in S
  <2>1. PICK f : f = [i \in 0 .. 0 |-> <<>>]
    OBVIOUS
  <2>2. Items(f, 0, p)
    BY <2>1 DEF Items
  <2> QED
    BY <1>1, <2>2
<1>3. ASSUME NEW i \in 0 .. Len(visible) - 1, i \in S PROVE i + 1 \in S
  <2>1. PICK f : Items(f, i, p)
    BY <1>1, <1>3
  <2>2. PICK v : v = IF visible[i + 1] \in Accepts[p] THEN Append(f[i], visible[i + 1]) ELSE f[i]
    OBVIOUS
  <2>3. PICK g : g = [j \in 0 .. i + 1 |-> IF j = i + 1 THEN v ELSE f[j]]
    OBVIOUS
  <2>4. ASSUME NEW j \in 0 .. i + 1
        PROVE  g[j] = IF j = 0 THEN <<>>
                 ELSE IF visible[j] \in Accepts[p] THEN Append(g[j - 1], visible[j])
                 ELSE g[j - 1]
    <3>1. CASE j = i + 1
      <4>1. g[j] = v /\ g[j - 1] = f[i] /\ j # 0 /\ visible[j] = visible[i + 1]
        BY <2>3, <3>1
      <4> QED
        BY <2>2, <4>1
    <3>2. CASE j # i + 1
      <4>1. j \in 0 .. i /\ g[j] = f[j] /\ (j # 0 => j - 1 \in 0 .. i /\ g[j - 1] = f[j - 1])
        BY <2>3, <3>2
      <4> QED
        BY <2>1, <4>1 DEF Items
    <3> QED
      BY <3>1, <3>2
  <2>5. Items(g, i + 1, p)
    BY <2>3, <2>4 DEF Items
  <2> QED
    BY <1>1, <2>5
<1>4. Len(visible) \in 0 .. Len(visible) /\ 0 .. Len(visible) \subseteq S
  BY <1>2, <1>3, SetInduction
<1> QED
  BY <1>1, <1>4

LEMMA AcceptedIsItems ==
  ASSUME NEW p, visible \in Seq(Entities \cup {None})
  PROVE  \E f : Items(f, Len(visible), p) /\ Accepted(p) = f[Len(visible)]
<1> DEFINE Is(f) == f = [n \in 0 .. Len(visible) |-> IF n = 0 THEN <<>>
            ELSE IF visible[n] \in Accepts[p] THEN Append(f[n - 1], visible[n]) ELSE f[n - 1]]
<1>1. \E f : Is(f)
  <2>1. PICK f : Items(f, Len(visible), p)
    BY ItemsExist
  <2>2. PICK g : g = [n \in 0 .. Len(visible) |-> f[n]]
    OBVIOUS
  <2>3. Is(g)
    BY <2>1, <2>2 DEF Items
  <2> QED
    BY <2>3
<1>2. Is(CHOOSE g : Is(g))
  BY <1>1
<1>3. Accepted(p) = (CHOOSE g : Is(g))[Len(visible)]
  BY DEF Accepted
<1>4. PICK h : h = (CHOOSE g : Is(g))
  OBVIOUS
<1>5. Is(h) /\ Accepted(p) = h[Len(visible)]
  BY <1>2, <1>3, <1>4
<1> QED
  BY <1>5 DEF Items

\* The accepted items of a list without repetitions: each accepted entity once.
LEMMA AcceptedFacts ==
  ASSUME NEW p, visible \in Seq(Entities \cup {None}), IsInjective(visible)
  PROVE  /\ Accepted(p) \in Seq(Entities \cup {None})
         /\ IsInjective(Accepted(p))
         /\ ToSet(Accepted(p)) = ToSet(visible) \cap Accepts[p]
<1> PICK E : E = Entities \cup {None}
  OBVIOUS
<1>0. visible \in Seq(E) /\ Len(visible) \in Nat /\ DOMAIN visible = 1 .. Len(visible)
  OBVIOUS
<1>1. PICK f : Items(f, Len(visible), p) /\ Accepted(p) = f[Len(visible)]
  BY AcceptedIsItems
<1>2. PICK S : S = {i \in Nat : i <= Len(visible) =>
                       /\ f[i] \in Seq(E) /\ IsInjective(f[i])
                       /\ ToSet(f[i]) = {visible[k] : k \in 1 .. i} \cap Accepts[p]}
  OBVIOUS
<1>3. 0 \in S
  <2>1. f[0] = <<>>
    BY <1>0, <1>1 DEF Items
  <2>2. {visible[k] : k \in 1 .. 0} = {} /\ DOMAIN <<>> = {}
    OBVIOUS
  <2>3. ToSet(f[0]) = {} /\ IsInjective(f[0]) /\ f[0] \in Seq(E)
    BY <2>1, <2>2 DEF IsInjective, ToSet
  <2> QED
    BY <1>2, <2>2, <2>3
<1>4. ASSUME NEW i \in 0 .. Len(visible) - 1, i \in S PROVE i + 1 \in S
  <2> PICK s : s = f[i]
    OBVIOUS
  <2> PICK x : x = visible[i + 1]
    OBVIOUS
  <2>1. /\ s \in Seq(E) /\ IsInjective(s)
        /\ ToSet(s) = {visible[k] : k \in 1 .. i} \cap Accepts[p]
    BY <1>2, <1>4
  <2>2. f[i + 1] = IF x \in Accepts[p] THEN Append(s, x) ELSE s
    <3>1. i + 1 \in 0 .. Len(visible) /\ i + 1 # 0 /\ (i + 1) - 1 = i
      BY <1>0
    <3> QED
      BY <1>1, <3>1 DEF Items
  <2>3. x \in E /\ x \notin {visible[k] : k \in 1 .. i}
    BY <1>0 DEF IsInjective
  <2>4. {visible[k] : k \in 1 .. i + 1} = {visible[k] : k \in 1 .. i} \cup {x}
    <3>1. 1 .. i + 1 = 1 .. i \cup {i + 1}
      BY <1>0
    <3> QED
      BY <3>1
  <2>5. CASE x \in Accepts[p]
    <3>1. f[i + 1] = Append(s, x)
      BY <2>2, <2>5
    <3>2. /\ Append(s, x) \in Seq(E) /\ Len(s) \in Nat /\ DOMAIN s = 1 .. Len(s)
          /\ DOMAIN Append(s, x) = DOMAIN s \cup {Len(s) + 1} /\ Len(s) + 1 \notin DOMAIN s
          /\ \A k \in DOMAIN s : Append(s, x)[k] = s[k]
          /\ Append(s, x)[Len(s) + 1] = x
      BY <2>1, <2>3
    <3>3. \A k \in DOMAIN s : s[k] # x
      BY <2>1, <2>3 DEF ToSet
    <3>4. IsInjective(Append(s, x))
      BY <2>1, <3>2, <3>3 DEF IsInjective
    <3>5. ToSet(Append(s, x)) = ToSet(s) \cup {x}
      <4>1. \A y : y \in ToSet(Append(s, x)) <=> y \in ToSet(s) \/ y = x
        BY <3>2 DEF ToSet
      <4> QED
        BY <4>1
    <3>6. ToSet(f[i + 1]) = {visible[k] : k \in 1 .. i + 1} \cap Accepts[p]
      BY <2>1, <2>4, <2>5, <3>1, <3>5
    <3>7. f[i + 1] \in Seq(E) /\ IsInjective(f[i + 1])
      BY <3>1, <3>2, <3>4
    <3> HIDE DEF IsInjective, ToSet
    <3> QED
      BY <1>0, <1>2, <3>6, <3>7
  <2>6. CASE x \notin Accepts[p]
    BY <1>2, <2>1, <2>2, <2>4, <2>6
  <2> QED
    BY <2>5, <2>6
<1>5. Len(visible) \in S
  <2>1. 0 .. Len(visible) \subseteq S
    BY <1>0, <1>3, <1>4, SetInduction
  <2> QED
    BY <1>0, <2>1
<1>6. {visible[k] : k \in 1 .. Len(visible)} = ToSet(visible)
  BY <1>0 DEF ToSet
<1> QED
  BY <1>0, <1>1, <1>2, <1>5, <1>6

-----------------------------------------------------------------------------
(* build_grid.                                                             *)

\* The ranges of the cells, by the sizes of the cells before them.
LEMMA CellRanges ==
  ASSUME NEW n \in Nat, NEW cell_of \in [1 .. n -> 1 .. Cells], NEW c \in Nat
  PROVE  /\ first_entity(cell_of, c) \in Nat \ {0} /\ entity_count(cell_of, c) \in Nat
         /\ first_entity(cell_of, c) + entity_count(cell_of, c) <= n + 1
         /\ \A d \in Nat : c < d =>
               first_entity(cell_of, c) + entity_count(cell_of, c) <= first_entity(cell_of, d)
<1> DEFINE Before(d) == {i \in 1 .. n : cell_of[i] < d}
           Of == {i \in 1 .. n : cell_of[i] = c}
<1>0. \A i \in 1 .. n : cell_of[i] \in Nat
  BY PCEntities
<1>1. IsFiniteSet(1 .. n) /\ Cardinality(1 .. n) = n
  BY FS_Interval
<1>2. \A d \in Nat : IsFiniteSet(Before(d)) /\ Cardinality(Before(d)) \in Nat
  <2> TAKE d \in Nat
  <2>1. Before(d) \in SUBSET (1 .. n)
    OBVIOUS
  <2>2. IsFiniteSet(Before(d))
    BY <1>1, <2>1, FS_Subset
  <2> QED
    BY <2>2, FS_CardinalityType
<1>3. IsFiniteSet(Of) /\ Cardinality(Of) \in Nat
  <2>1. Of \in SUBSET (1 .. n)
    OBVIOUS
  <2>2. IsFiniteSet(Of)
    BY <1>1, <2>1, FS_Subset
  <2> QED
    BY <2>2, FS_CardinalityType
<1>4. Cardinality(Before(c) \cup Of) = Cardinality(Before(c)) + Cardinality(Of)
      /\ IsFiniteSet(Before(c) \cup Of)
  <2>1. Before(c) \cap Of = {}
    BY <1>0
  <2>2. Cardinality(Before(c) \cap Of) = 0
    BY <2>1, FS_EmptySet
  <2>3. IsFiniteSet(Before(c)) /\ Cardinality(Before(c)) \in Nat
    BY <1>2
  <2>4. /\ IsFiniteSet(Before(c) \cup Of)
        /\ Cardinality(Before(c) \cup Of)
              = Cardinality(Before(c)) + Cardinality(Of) - Cardinality(Before(c) \cap Of)
    BY <1>3, <2>3, FS_Union
  <2> HIDE DEF Before, Of
  <2> QED
    BY <1>3, <2>2, <2>3, <2>4
<1>5. Cardinality(Before(c) \cup Of) <= n
  <2>1. Before(c) \cup Of \in SUBSET (1 .. n)
    OBVIOUS
  <2> QED
    BY <1>1, <2>1, FS_Subset
<1>6. \A d \in Nat : c < d => Cardinality(Before(c) \cup Of) <= Cardinality(Before(d))
  <2> SUFFICES ASSUME NEW d \in Nat, c < d PROVE Cardinality(Before(c) \cup Of) <= Cardinality(Before(d))
    OBVIOUS
  <2>1. Before(c) \cup Of \in SUBSET Before(d)
    BY <1>0
  <2> QED
    BY <1>2, <2>1, FS_Subset
<1>7. /\ \A d : first_entity(cell_of, d) = 1 + Cardinality(Before(d))
      /\ entity_count(cell_of, c) = Cardinality(Of)
  BY DEF first_entity, entity_count
<1> HIDE DEF Before, Of
<1>8. Cardinality(Before(c)) \in Nat
  BY <1>2
<1>9. first_entity(cell_of, c) + entity_count(cell_of, c) = 1 + Cardinality(Before(c) \cup Of)
  BY <1>3, <1>4, <1>7, <1>8
<1>10. ASSUME NEW d \in Nat, c < d
       PROVE  first_entity(cell_of, c) + entity_count(cell_of, c) <= first_entity(cell_of, d)
  <2>1. Cardinality(Before(c) \cup Of) <= Cardinality(Before(d)) /\ Cardinality(Before(d)) \in Nat
    BY <1>2, <1>6, <1>10
  <2>2. Cardinality(Before(c) \cup Of) \in Nat
    BY <1>3, <1>4, <1>8
  <2> QED
    BY <1>7, <1>9, <2>1, <2>2
<1> QED
  BY <1>3, <1>4, <1>5, <1>7, <1>8, <1>9, <1>10

\* Every entity's new place is in its cell's range, and is no other's.
LEMMA CursorFacts ==
  ASSUME NEW n \in Nat, NEW cell_of \in [1 .. n -> 1 .. Cells], NEW i \in 1 .. n
  PROVE  /\ write_cursor(cell_of, i) \in first_entity(cell_of, cell_of[i]) ..
               first_entity(cell_of, cell_of[i]) + entity_count(cell_of, cell_of[i]) - 1
         /\ \A j \in 1 .. n : i < j /\ cell_of[i] = cell_of[j] =>
               write_cursor(cell_of, i) < write_cursor(cell_of, j)
<1> DEFINE Behind(k) == {j \in 1 .. k - 1 : cell_of[j] = cell_of[k]}
           Of == {j \in 1 .. n : cell_of[j] = cell_of[i]}
<1>0. cell_of[i] \in Nat
  BY PCEntities
<1>1. IsFiniteSet(1 .. n)
  BY FS_Interval
<1>2. \A k \in 1 .. n : IsFiniteSet(Behind(k)) /\ Cardinality(Behind(k)) \in Nat
  <2> TAKE k \in 1 .. n
  <2>1. Behind(k) \in SUBSET (1 .. n)
    OBVIOUS
  <2>2. IsFiniteSet(Behind(k))
    BY <1>1, <2>1, FS_Subset
  <2> QED
    BY <2>2, FS_CardinalityType
<1>3. IsFiniteSet(Of) /\ Cardinality(Of) \in Nat
  <2>1. Of \in SUBSET (1 .. n)
    OBVIOUS
  <2>2. IsFiniteSet(Of)
    BY <1>1, <2>1, FS_Subset
  <2> QED
    BY <2>2, FS_CardinalityType
<1>4. Cardinality(Behind(i) \cup {i}) = Cardinality(Behind(i)) + 1
  <2>1. i \notin Behind(i)
    OBVIOUS
  <2> QED
    BY <1>2, <2>1, FS_AddElement
<1>5. Cardinality(Behind(i)) + 1 <= Cardinality(Of)
  <2>1. Behind(i) \cup {i} \in SUBSET Of
    OBVIOUS
  <2> QED
    BY <1>3, <1>4, <2>1, FS_Subset
<1>6. \A j \in 1 .. n : i < j /\ cell_of[i] = cell_of[j] =>
         Cardinality(Behind(i)) + 1 <= Cardinality(Behind(j))
  <2> SUFFICES ASSUME NEW j \in 1 .. n, i < j, cell_of[i] = cell_of[j]
               PROVE  Cardinality(Behind(i)) + 1 <= Cardinality(Behind(j))
    OBVIOUS
  <2>1. Behind(i) \cup {i} \in SUBSET Behind(j)
    OBVIOUS
  <2> QED
    BY <1>2, <1>4, <2>1, FS_Subset
<1>7. first_entity(cell_of, cell_of[i]) \in Nat
  BY <1>0, CellRanges
<1>8. /\ \A j \in 1 .. n : write_cursor(cell_of, j) =
            first_entity(cell_of, cell_of[j]) + Cardinality(Behind(j))
      /\ entity_count(cell_of, cell_of[i]) = Cardinality(Of)
  BY DEF write_cursor, entity_count
<1> HIDE DEF Behind, Of
<1>9. write_cursor(cell_of, i) = first_entity(cell_of, cell_of[i]) + Cardinality(Behind(i))
  BY <1>8
<1>10. ASSUME NEW j \in 1 .. n, i < j, cell_of[i] = cell_of[j]
       PROVE  write_cursor(cell_of, i) < write_cursor(cell_of, j)
  <2>1. write_cursor(cell_of, j) = first_entity(cell_of, cell_of[i]) + Cardinality(Behind(j))
    BY <1>8, <1>10
  <2>2. Cardinality(Behind(i)) + 1 <= Cardinality(Behind(j)) /\ Cardinality(Behind(j)) \in Nat
    BY <1>2, <1>6, <1>10
  <2>3. Cardinality(Behind(i)) \in Nat
    BY <1>2
  <2> QED
    BY <1>7, <1>9, <2>1, <2>2, <2>3
<1>11. Cardinality(Behind(i)) \in Nat
  BY <1>2
<1> QED
  BY <1>3, <1>5, <1>7, <1>8, <1>9, <1>10, <1>11

\* The places are a permutation: each position of the array is somebody's.
LEMMA CursorPermutes ==
  ASSUME NEW n \in Nat, NEW cell_of \in [1 .. n -> 1 .. Cells]
  PROVE  /\ \A i, j \in 1 .. n : write_cursor(cell_of, i) = write_cursor(cell_of, j) => i = j
         /\ \A i \in 1 .. n : write_cursor(cell_of, i) \in 1 .. n
         /\ \A k \in 1 .. n : \E i \in 1 .. n : write_cursor(cell_of, i) = k
<1> DEFINE w(i) == write_cursor(cell_of, i)
           first(c) == first_entity(cell_of, c)
           count(c) == entity_count(cell_of, c)
<1>1. \A c \in Nat : /\ first(c) \in Nat \ {0} /\ count(c) \in Nat /\ first(c) + count(c) <= n + 1
                     /\ \A d \in Nat : c < d => first(c) + count(c) <= first(d)
  BY CellRanges
<1>2. \A i \in 1 .. n : cell_of[i] \in Nat
  BY PCEntities
<1>3. \A i \in 1 .. n : /\ w(i) \in first(cell_of[i]) .. first(cell_of[i]) + count(cell_of[i]) - 1
                        /\ \A j \in 1 .. n : i < j /\ cell_of[i] = cell_of[j] => w(i) < w(j)
  BY CursorFacts
<1> HIDE DEF w, first, count
<1>4. ASSUME NEW i \in 1 .. n
      PROVE  /\ w(i) \in 1 .. n
             /\ \A j \in 1 .. n : cell_of[i] < cell_of[j] => w(i) < w(j)
  <2> PICK c \in Nat : c = cell_of[i]
    BY <1>2
  <2>1. /\ first(c) \in Nat \ {0} /\ count(c) \in Nat /\ first(c) + count(c) <= n + 1
        /\ w(i) \in first(c) .. first(c) + count(c) - 1
    BY <1>1, <1>3
  <2>2. w(i) \in 1 .. n /\ w(i) < first(c) + count(c)
    BY <2>1
  <2>3. ASSUME NEW j \in 1 .. n, c < cell_of[j] PROVE w(i) < w(j)
    <3> PICK d \in Nat : d = cell_of[j]
      BY <1>2
    <3>1. /\ first(c) + count(c) <= first(d) /\ first(d) \in Nat /\ count(d) \in Nat
          /\ w(j) \in first(d) .. first(d) + count(d) - 1
      BY <1>1, <1>3, <2>3
    <3> QED
      BY <2>1, <2>2, <3>1
  <2> QED
    BY <2>2, <2>3
<1>5. \A i, j \in 1 .. n : cell_of[i] < cell_of[j] => w(i) < w(j)
  BY <1>4
<1>6. ASSUME NEW i \in 1 .. n, NEW j \in 1 .. n, w(i) = w(j) PROVE i = j
  <2>1. w(i) \in Nat /\ ~(w(i) < w(j)) /\ ~(w(j) < w(i))
    BY <1>4, <1>6
  <2>2. cell_of[i] = cell_of[j]
    BY <1>2, <1>5, <2>1
  <2> QED
    BY <1>3, <2>1, <2>2
<1>7. PICK f : f = [i \in 1 .. n |-> w(i)]
  OBVIOUS
<1>8. f \in [1 .. n -> 1 .. n] /\ \A i, j \in 1 .. n : f[i] = f[j] => i = j
  BY <1>4, <1>6, <1>7
<1>9. f \in Injection(1 .. n, 1 .. n)
  BY <1>8, Fun_IsInj
<1>10. f \in Surjection(1 .. n, 1 .. n)
  BY <1>9, FS_Injection, FS_Interval
<1>11. \A k \in 1 .. n : \E i \in 1 .. n : w(i) = k
  BY <1>7, <1>10 DEF Surjection
<1> QED
  BY <1>4, <1>6, <1>11 DEF w

-----------------------------------------------------------------------------
(* The invariant. Grid is what build_grid leaves; Stages says when the grid  *)
(* and the culling threads rest; Threads who holds which positions and slots *)
(* during a cull, and Found what the written slots hold.                     *)

Positions(c) == grid_cells[c].first .. grid_cells[c].first + grid_cells[c].count - 1

Grid ==
    /\ DOMAIN grid_cells = 1 .. Cells
    /\ \A c \in DOMAIN grid_cells : grid_cells[c] \in [first : Nat, count : Nat]
    /\ \A c \in DOMAIN grid_cells : Positions(c) \subseteq DOMAIN entity_indices
    /\ \A c, d \in DOMAIN grid_cells : c # d => Positions(c) \cap Positions(d) = {}
    /\ \A k \in DOMAIN entity_indices : \E c \in DOMAIN grid_cells : k \in Positions(c)

RLTypes ==
    /\ entity_indices \in Seq(Entities) /\ IsInjective(entity_indices)
    /\ has_grid => Grid
    /\ results \in Seq(Entities \cup {None}) /\ visible \in Seq(Entities \cup {None})
    /\ visible_count \in Nat /\ met \subseteq Bounded
    /\ step \in [CullThreads -> {"idle", "test", "write"}]
    /\ cursor \in [CullThreads -> Nat] /\ end \in [CullThreads -> Nat] /\ slot \in [CullThreads -> Nat]
    /\ queues \in [PassSet -> Seq(Entities \cup {None})] /\ DOMAIN filled_from = PassSet
    /\ to_record \in Seq(PassSet)

Stages ==
    /\ ~task_set => loader = "complete"
    /\ pc \in {"cull", "culling", "committed", "update"} => loader = "complete"
    /\ pc = "culling" => scene_set
    /\ pc # "culling" => unclaimed = {} /\ \A w \in CullThreads : step[w] = "idle"

\* The positions a thread has still to test or to write.
Held(w) == IF step[w] = "idle" THEN {} ELSE cursor[w] .. end[w]

Open(p) == \/ \E c \in unclaimed : p \in Positions(c)
           \/ \E w \in CullThreads : p \in Held(w)

\* Slots that were counted, and whose thread has written them.
Written(s) == s \in 1 .. visible_count /\ \A w \in CullThreads : step[w] = "write" => slot[w] # s

Threads ==
    /\ has_grid /\ Len(results) = Len(entity_indices) /\ visible_count <= Len(results)
    /\ unclaimed \subseteq {c \in DOMAIN grid_cells : grid_cells[c].count > 0}
    /\ \A w \in CullThreads : step[w] # "idle" =>
          cursor[w] <= end[w] /\ Held(w) \subseteq DOMAIN entity_indices
    /\ \A w, v \in CullThreads : w # v => Held(w) \cap Held(v) = {}
    /\ \A w \in CullThreads, c \in unclaimed : Held(w) \cap Positions(c) = {}
    /\ \A w \in CullThreads : step[w] = "write" =>
          slot[w] \in 1 .. visible_count /\ is_visible(entity_indices[cursor[w]])
    /\ \A w, v \in CullThreads : step[w] = "write" /\ step[v] = "write" /\ slot[w] = slot[v] => w = v

Found ==
    /\ \A s \in 1 .. visible_count : Written(s) =>
          \E p \in DOMAIN entity_indices :
             results[s] = entity_indices[p] /\ ~Open(p) /\ is_visible(entity_indices[p])
    /\ \A s, t \in 1 .. visible_count : Written(s) /\ Written(t) /\ results[s] = results[t] => s = t
    /\ \A p \in DOMAIN entity_indices : entity_indices[p] \in met \cap Bounded =>
          Open(p) \/ \E s \in 1 .. visible_count : Written(s) /\ results[s] = entity_indices[p]

Culling == pc = "culling" => Threads /\ Found

Drawable ==
    /\ IsInjective(visible)
    /\ ToSet(visible) \subseteq initialized \/ (pc \in {"update", "committed"} /\ scene_set)

RLInv == RLTypes /\ Stages /\ Culling /\ CullExact /\ Drawable /\ QueuesFromOneCull

LEMMA GridBuilt ==
  ASSUME entity_indices \in Seq(Entities), IsInjective(entity_indices), entity_indices # <<>>,
         NEW cell_of \in [DOMAIN entity_indices -> 1 .. Cells], build_grid(cell_of)
  PROVE  /\ entity_indices' \in Seq(Entities) /\ IsInjective(entity_indices')
         /\ Grid'
<1> PICK n \in Nat : n = Len(entity_indices)
  OBVIOUS
<1>0. DOMAIN entity_indices = 1 .. n /\ cell_of \in [1 .. n -> 1 .. Cells] /\ DOMAIN cell_of = 1 .. n
  OBVIOUS
<1>1. /\ \A i, j \in 1 .. n : write_cursor(cell_of, i) = write_cursor(cell_of, j) => i = j
      /\ \A i \in 1 .. n : write_cursor(cell_of, i) \in 1 .. n
      /\ \A k \in 1 .. n : \E i \in 1 .. n : write_cursor(cell_of, i) = k
  <2>1. cell_of \in [1 .. n -> 1 .. Cells]
    BY <1>0
  <2>2. \A i, j \in 1 .. n : write_cursor(cell_of, i) = write_cursor(cell_of, j) => i = j
    BY <2>1, CursorPermutes
  <2>3. \A i \in 1 .. n : write_cursor(cell_of, i) \in 1 .. n
    BY <2>1, CursorPermutes
  <2>4. \A k \in 1 .. n : \E i \in 1 .. n : write_cursor(cell_of, i) = k
    BY <2>1, CursorPermutes
  <2> QED
    BY <2>2, <2>3, <2>4
<1> PICK at : at = [k \in 1 .. n |-> CHOOSE i \in 1 .. n : write_cursor(cell_of, i) = k]
  OBVIOUS
<1>2. \A k \in 1 .. n : at[k] \in 1 .. n /\ write_cursor(cell_of, at[k]) = k
  <2> TAKE k \in 1 .. n
  <2>1. at[k] = CHOOSE i \in 1 .. n : write_cursor(cell_of, i) = k
    OBVIOUS
  <2>2. \E i \in 1 .. n : write_cursor(cell_of, i) = k
    BY <1>1
  <2> QED
    BY <2>1, <2>2
<1>3. entity_indices' = [k \in 1 .. n |-> entity_indices[at[k]]]
  BY <1>0 DEF build_grid
<1>4. entity_indices' \in Seq(Entities) /\ Len(entity_indices') = n
  <2>1. \A k \in 1 .. n : entity_indices[at[k]] \in Entities
    BY <1>0, <1>2
  <2>2. PICK f : f = [k \in 1 .. n |-> entity_indices[at[k]]]
    OBVIOUS
  <2>3. f \in [1 .. n -> Entities]
    BY <2>1, <2>2
  <2>4. f \in Seq(Entities) /\ Len(f) = n
    BY <2>3
  <2> QED
    BY <1>3, <2>2, <2>4
<1>5. IsInjective(entity_indices')
  <2> SUFFICES ASSUME NEW j \in 1 .. n, NEW k \in 1 .. n,
                      entity_indices[at[j]] = entity_indices[at[k]]
               PROVE  j = k
    BY <1>3 DEF IsInjective
  <2>1. at[j] = at[k]
    BY <1>0, <1>2 DEF IsInjective
  <2> QED
    BY <1>2, <2>1
<1>6. grid_cells' = [c \in 1 .. Cells |-> [first |-> first_entity(cell_of, c),
                                           count |-> entity_count(cell_of, c)]]
  BY DEF build_grid
<1>7. \A c \in 1 .. Cells :
         /\ first_entity(cell_of, c) \in Nat \ {0} /\ entity_count(cell_of, c) \in Nat
         /\ first_entity(cell_of, c) + entity_count(cell_of, c) <= n + 1
         /\ \A d \in 1 .. Cells : c < d =>
               first_entity(cell_of, c) + entity_count(cell_of, c) <= first_entity(cell_of, d)
  <2>1. \A c \in 1 .. Cells : c \in Nat
    BY PCEntities
  <2> QED
    BY <1>0, <2>1, CellRanges
<1>8. /\ DOMAIN grid_cells' = 1 .. Cells
      /\ \A c \in 1 .. Cells :
            /\ grid_cells'[c] \in [first : Nat, count : Nat]
            /\ Positions(c)' = first_entity(cell_of, c) ..
                                  first_entity(cell_of, c) + entity_count(cell_of, c) - 1
  BY <1>6, <1>7 DEF Positions
<1>9. \A c \in 1 .. Cells : Positions(c)' \subseteq 1 .. n
  BY <1>7, <1>8
<1>10. \A c, d \in 1 .. Cells : c # d => Positions(c)' \cap Positions(d)' = {}
  <2>1. \A c, d \in 1 .. Cells : c < d => Positions(c)' \cap Positions(d)' = {}
    <3> SUFFICES ASSUME NEW c \in 1 .. Cells, NEW d \in 1 .. Cells, c < d,
                        NEW k \in Positions(c)', k \in Positions(d)'
                 PROVE  FALSE
      OBVIOUS
    <3>1. PICK a \in Nat, b \in Nat : a = first_entity(cell_of, c) /\ b = entity_count(cell_of, c)
      BY <1>7
    <3>2. PICK e \in Nat, g \in Nat : e = first_entity(cell_of, d) /\ g = entity_count(cell_of, d)
      BY <1>7
    <3>3. a + b <= e
      BY <1>7, <3>1, <3>2
    <3>4. k \in a .. a + b - 1
      BY <1>8, <3>1
    <3>5. k \in e .. e + g - 1
      BY <1>8, <3>2
    <3> QED
      BY <3>3, <3>4, <3>5
  <2>2. \A c, d \in 1 .. Cells : c # d => c < d \/ d < c
    BY PCEntities
  <2> QED
    BY <2>1, <2>2
<1>11. \A k \in 1 .. n : \E c \in 1 .. Cells : k \in Positions(c)'
  <2> SUFFICES ASSUME NEW k \in 1 .. n PROVE \E c \in 1 .. Cells : k \in Positions(c)'
    OBVIOUS
  <2>1. at[k] \in 1 .. n /\ write_cursor(cell_of, at[k]) = k
    BY <1>2
  <2>2. k \in first_entity(cell_of, cell_of[at[k]]) ..
              first_entity(cell_of, cell_of[at[k]]) + entity_count(cell_of, cell_of[at[k]]) - 1
    <3>1. cell_of \in [1 .. n -> 1 .. Cells]
      BY <1>0
    <3>2. write_cursor(cell_of, at[k]) \in first_entity(cell_of, cell_of[at[k]]) ..
              first_entity(cell_of, cell_of[at[k]]) + entity_count(cell_of, cell_of[at[k]]) - 1
      BY <2>1, <3>1, CursorFacts, Zenon
    <3> QED
      BY <2>1, <3>2, Zenon
  <2>3. cell_of[at[k]] \in 1 .. Cells
    BY <1>0, <2>1
  <2>4. k \in Positions(cell_of[at[k]])'
    BY <1>8, <2>2, <2>3
  <2> QED
    BY <2>3, <2>4
<1>12. DOMAIN entity_indices' = 1 .. n
  BY <1>3
<1>13. Grid'
  BY <1>8, <1>9, <1>10, <1>11, <1>12 DEF Grid
<1> QED
  BY <1>4, <1>5, <1>13

-----------------------------------------------------------------------------
(* The culling threads.                                                    *)

LEMMA InitRL == RLInit => RLInv
<1> SUFFICES ASSUME RLInit PROVE RLInv
  OBVIOUS
<1>1. /\ entity_indices = <<>> /\ grid_cells = <<>> /\ results = <<>> /\ visible = <<>>
      /\ met = {} /\ unclaimed = {} /\ visible_count = 0
      /\ step = [w \in CullThreads |-> "idle"] /\ cursor = [w \in CullThreads |-> 0]
      /\ end = cursor /\ slot = cursor
      /\ loader = "loading" /\ task_set = TRUE /\ pc = "poll" /\ to_record = <<>>
      /\ queues = [p \in PassSet |-> <<>>] /\ filled_from = [p \in PassSet |-> {}]
  BY DEF RLInit, PCInit
<1>2. \A S : <<>> \in Seq(S)
  OBVIOUS
<1>3. IsInjective(<<>>) /\ ToSet(<<>>) = {} /\ DOMAIN <<>> = {}
  BY DEF IsInjective, ToSet
<1>4. RLTypes
  <2>1. ~has_grid
    BY <1>1 DEF has_grid
  <2>2. queues \in [PassSet -> Seq(Entities \cup {None})] /\ DOMAIN filled_from = PassSet
    BY <1>1, <1>2
  <2>3. step \in [CullThreads -> {"idle", "test", "write"}]
    BY <1>1
  <2>4. cursor \in [CullThreads -> Nat] /\ end \in [CullThreads -> Nat] /\ slot \in [CullThreads -> Nat]
    BY <1>1
  <2>5. visible_count \in Nat /\ met \subseteq Bounded
    BY <1>1
  <2> QED
    BY <1>1, <1>2, <1>3, <2>1, <2>2, <2>3, <2>4, <2>5 DEF RLTypes
<1>5. Stages
  BY <1>1 DEF Stages
<1>6. Culling /\ CullExact
  BY <1>1 DEF Culling, CullExact
<1>7. Drawable
  BY <1>1, <1>3 DEF Drawable
<1>8. QueuesFromOneCull
  <2>1. \A p \in PassSet : queues[p] = <<>> /\ filled_from[p] = {}
    BY <1>1
  <2> QED
    BY <1>3, <2>1 DEF QueuesFromOneCull
<1> QED
  BY <1>4, <1>5, <1>6, <1>7, <1>8 DEF RLInv

\* A thread's position is its own, and open.
LEMMA CursorHeld ==
  ASSUME RLTypes, Threads, NEW w \in CullThreads, step[w] # "idle"
  PROVE  /\ cursor[w] \in Held(w) /\ cursor[w] \in DOMAIN entity_indices /\ Open(cursor[w])
         /\ \A v \in CullThreads : v # w => cursor[w] \notin Held(v)
         /\ \A c \in unclaimed : cursor[w] \notin Positions(c)
<1>1. cursor[w] \in Nat /\ end[w] \in Nat /\ cursor[w] <= end[w]
  BY DEF RLTypes, Threads
<1>2. cursor[w] \in Held(w)
  BY <1>1 DEF Held
<1>3. Held(w) \subseteq DOMAIN entity_indices
  BY DEF Threads
<1>4. \A v \in CullThreads : v # w => Held(w) \cap Held(v) = {}
  BY DEF Threads
<1>5. \A c \in unclaimed : Held(w) \cap Positions(c) = {}
  BY DEF Threads
<1> QED
  BY <1>2, <1>3, <1>4, <1>5 DEF Open

\* A thread that moves on closes its position and no other.
LEMMA AdvanceHeld ==
  ASSUME RLTypes, Threads, NEW w \in CullThreads, step[w] # "idle", Advance(w),
         UNCHANGED <<scene, unclaimed>>
  PROVE  /\ Held(w)' = Held(w) \ {cursor[w]}
         /\ \A v \in CullThreads : v # w =>
               /\ Held(v)' = Held(v) /\ step'[v] = step[v]
               /\ cursor'[v] = cursor[v] /\ end'[v] = end[v]
         /\ \A p : Open(p)' <=> Open(p) /\ p # cursor[w]
         /\ step'[w] \in {"idle", "test"} /\ (step'[w] # "idle" => cursor'[w] <= end'[w])
         /\ step' \in [CullThreads -> {"idle", "test", "write"}]
         /\ cursor' \in [CullThreads -> Nat] /\ end' \in [CullThreads -> Nat]
<1>1. PICK a \in Nat : a = cursor[w]
  BY DEF RLTypes
<1>2. PICK b \in Nat : b = end[w]
  BY DEF RLTypes
<1>3. a <= b
  BY <1>1, <1>2 DEF Threads
<1>4. /\ step' = [step EXCEPT ![w] = IF a = b THEN "idle" ELSE "test"]
      /\ cursor' = [cursor EXCEPT ![w] = IF a = b THEN 0 ELSE a + 1]
      /\ end' = [end EXCEPT ![w] = IF a = b THEN 0 ELSE b]
  BY <1>1, <1>2 DEF Advance
<1>5. /\ step \in [CullThreads -> {"idle", "test", "write"}]
      /\ cursor \in [CullThreads -> Nat] /\ end \in [CullThreads -> Nat]
  BY DEF RLTypes
<1>6. /\ step'[w] = IF a = b THEN "idle" ELSE "test"
      /\ cursor'[w] = IF a = b THEN 0 ELSE a + 1
      /\ end'[w] = IF a = b THEN 0 ELSE b
  BY <1>4, <1>5
<1>7. ASSUME NEW v \in CullThreads, v # w
      PROVE  /\ Held(v)' = Held(v) /\ step'[v] = step[v]
             /\ cursor'[v] = cursor[v] /\ end'[v] = end[v]
  <2>1. step'[v] = step[v] /\ cursor'[v] = cursor[v] /\ end'[v] = end[v]
    BY <1>4, <1>5, <1>7
  <2> QED
    BY <2>1 DEF Held
<1>8. Held(w) = a .. b
  BY <1>1, <1>2 DEF Held
<1>9. Held(w)' = Held(w) \ {a}
  <2>1. CASE a = b
    <3>1. Held(w)' = {}
      BY <1>6, <2>1 DEF Held
    <3> QED
      BY <1>8, <2>1, <3>1
  <2>2. CASE a # b
    <3>1. Held(w)' = a + 1 .. b
      BY <1>6, <2>2 DEF Held
    <3> QED
      BY <1>8, <2>2, <3>1
  <2> QED
    BY <2>1, <2>2
<1>10. /\ step' \in [CullThreads -> {"idle", "test", "write"}]
       /\ cursor' \in [CullThreads -> Nat] /\ end' \in [CullThreads -> Nat]
  BY <1>4, <1>5
<1>11. step'[w] \in {"idle", "test"} /\ (step'[w] # "idle" => cursor'[w] <= end'[w])
  BY <1>3, <1>6
<1>12. /\ \A v \in CullThreads : v # w => a \notin Held(v)
       /\ \A c \in unclaimed : a \notin Positions(c)
  BY <1>1, CursorHeld
<1>13. unclaimed' = unclaimed /\ \A c : Positions(c)' = Positions(c)
  BY DEF Positions, scene
<1>14. \A p : Open(p)' <=> Open(p) /\ p # a
  <2> SUFFICES ASSUME NEW p PROVE Open(p)' <=> Open(p) /\ p # a
    OBVIOUS
  <2>1. (\E v \in CullThreads : p \in Held(v)') <=> (\E v \in CullThreads : p \in Held(v)) /\ p # a
    <3>1. ASSUME NEW v \in CullThreads PROVE p \in Held(v)' <=> p \in Held(v) /\ p # a
      BY <1>7, <1>9, <1>12
    <3> QED
      BY <3>1
  <2>2. (\E c \in unclaimed' : p \in Positions(c)') <=> (\E c \in unclaimed : p \in Positions(c)) /\ p # a
    BY <1>12, <1>13
  <2>3. Open(p)' <=> (\E c \in unclaimed' : p \in Positions(c)') \/ (\E v \in CullThreads : p \in Held(v)')
    BY DEF Open
  <2> QED
    BY <2>1, <2>2, <2>3 DEF Open
<1> QED
  BY <1>1, <1>7, <1>9, <1>10, <1>11, <1>14

\* The slot a visible entity gets exists: what was counted has come from other
\* positions than the one being tested.
LEMMA SlotsLeft ==
  ASSUME RLTypes, Threads, Found, NEW w \in CullThreads, step[w] = "test"
  PROVE  visible_count < Len(entity_indices)
<1> DEFINE D == DOMAIN entity_indices
           From(s, p) ==
              \/ Written(s) /\ results[s] = entity_indices[p] /\ ~Open(p)
              \/ ~Written(s) /\ \E v \in CullThreads :
                                   step[v] = "write" /\ slot[v] = s /\ cursor[v] = p
<1> PICK m \in Nat : m = visible_count
  BY DEF RLTypes
<1> PICK n \in Nat : n = Len(entity_indices)
  BY DEF RLTypes
<1>0. D = 1 .. n
  BY DEF RLTypes
<1>1. cursor[w] \in D /\ Open(cursor[w]) /\ \A v \in CullThreads : v # w => cursor[w] \notin Held(v)
  BY CursorHeld
<1>2. \A v \in CullThreads : step[v] = "write" =>
         /\ cursor[v] \in D /\ cursor[v] \in Held(v) /\ Open(cursor[v])
         /\ \A u \in CullThreads : u # v => cursor[v] \notin Held(u)
  BY CursorHeld
<1>3. \A s \in 1 .. m : \E p \in D : From(s, p) /\ p # cursor[w]
  <2> SUFFICES ASSUME NEW s \in 1 .. m PROVE \E p \in D : From(s, p) /\ p # cursor[w]
    OBVIOUS
  <2>1. CASE Written(s)
    <3>1. PICK p \in D : results[s] = entity_indices[p] /\ ~Open(p)
      BY <2>1 DEF Found
    <3> QED
      BY <1>1, <2>1, <3>1
  <2>2. CASE ~Written(s)
    <3>1. PICK v \in CullThreads : step[v] = "write" /\ slot[v] = s
      BY <2>2 DEF Written
    <3>2. cursor[v] \in D /\ cursor[v] # cursor[w]
      <4>1. v # w
        BY <3>1
      <4> QED
        BY <1>1, <1>2, <3>1, <4>1
    <3> QED
      BY <2>2, <3>1, <3>2
  <2> QED
    BY <2>1, <2>2
<1>4. ASSUME NEW s \in 1 .. m, NEW t \in 1 .. m, NEW p \in D, From(s, p), From(t, p)
      PROVE  s = t
  <2>1. CASE Written(s) /\ Written(t)
    <3>1. results[s] = results[t]
      BY <1>4, <2>1
    <3> QED
      BY <2>1, <3>1 DEF Found
  <2>2. CASE ~Written(s) /\ ~Written(t)
    <3>1. PICK v \in CullThreads : step[v] = "write" /\ slot[v] = s /\ cursor[v] = p
      BY <1>4, <2>2
    <3>2. PICK u \in CullThreads : step[u] = "write" /\ slot[u] = t /\ cursor[u] = p
      BY <1>4, <2>2
    <3>3. u = v
      BY <1>2, <3>1, <3>2
    <3> QED
      BY <3>1, <3>2, <3>3
  <2>3. CASE (Written(s) /\ ~Written(t)) \/ (~Written(s) /\ Written(t))
    BY <1>2, <1>4, <2>3
  <2> QED
    BY <2>1, <2>2, <2>3
<1> HIDE DEF From, D
<1>5. PICK T : T = D \ {cursor[w]}
  OBVIOUS
<1>6. PICK f : f = [s \in 1 .. m |-> CHOOSE p \in T : From(s, p)]
  OBVIOUS
<1>7. \A s \in 1 .. m : f[s] \in T /\ From(s, f[s])
  BY <1>3, <1>5, <1>6
<1>8. f \in [1 .. m -> T] /\ \A s, t \in 1 .. m : f[s] = f[t] => s = t
  BY <1>4, <1>5, <1>6, <1>7
<1>9. f \in Injection(1 .. m, T)
  BY <1>8, Fun_IsInj
<1>10. IsFiniteSet(D) /\ Cardinality(D) = n
  <2>1. IsFiniteSet(1 .. n)
    BY FS_Interval
  <2>2. Cardinality(1 .. n) = n
    <3>1. \A k \in Nat : Cardinality(1 .. k) = k
      BY FS_Interval
    <3> QED
      BY <3>1
  <2> QED
    BY <1>0, <2>1, <2>2
<1>11. IsFiniteSet(T) /\ Cardinality(T) = n - 1
  BY <1>1, <1>5, <1>10, FS_RemoveElement
<1>12. Cardinality(1 .. m) <= Cardinality(T)
  BY <1>9, <1>11, FS_Injection
<1>13. Cardinality(1 .. m) = m
  BY FS_Interval
<1> QED
  BY <1>11, <1>12, <1>13

\* What the threads of a cull share when one of them takes a cell.
LEMMA TakeCell ==
  ASSUME RLTypes, Threads, Found, NEW w \in CullThreads, NEW c \in unclaimed, take_cell(w, c)
  PROVE  Threads' /\ Found'
<1>0. /\ step \in [CullThreads -> {"idle", "test", "write"}]
      /\ cursor \in [CullThreads -> Nat] /\ end \in [CullThreads -> Nat]
      /\ unclaimed \subseteq {d \in DOMAIN grid_cells : grid_cells[d].count > 0}
      /\ has_grid /\ Grid
  BY DEF RLTypes, Threads
<1>1. /\ step[w] = "idle" /\ unclaimed' = unclaimed \ {c}
      /\ step' = [step EXCEPT ![w] = "test"]
      /\ cursor' = [cursor EXCEPT ![w] = grid_cells[c].first]
      /\ end' = [end EXCEPT ![w] = grid_cells[c].first + grid_cells[c].count - 1]
      /\ entity_indices' = entity_indices /\ grid_cells' = grid_cells /\ met' = met
      /\ results' = results /\ visible_count' = visible_count /\ slot' = slot
  BY DEF take_cell, scene
<1>2. step'[w] = "test" /\ cursor'[w] = grid_cells[c].first
      /\ end'[w] = grid_cells[c].first + grid_cells[c].count - 1
  BY <1>0, <1>1
<1>3. \A v \in CullThreads : v # w =>
         step'[v] = step[v] /\ cursor'[v] = cursor[v] /\ end'[v] = end[v]
  BY <1>0, <1>1
<1>4. Held(w)' = Positions(c) /\ Held(w) = {}
  BY <1>1, <1>2 DEF Held, Positions
<1>5. \A v \in CullThreads : v # w => Held(v)' = Held(v)
  BY <1>3 DEF Held
<1>6. \A d : Positions(d)' = Positions(d)
  BY <1>1 DEF Positions
<1>7. \A p : Open(p)' <=> Open(p)
  <2> SUFFICES ASSUME NEW p PROVE Open(p)' <=> Open(p)
    OBVIOUS
  <2>1. (\E v \in CullThreads : p \in Held(v)') <=>
           (\E v \in CullThreads : p \in Held(v)) \/ p \in Positions(c)
    BY <1>4, <1>5
  <2>2. (\E d \in unclaimed' : p \in Positions(d)') \/ p \in Positions(c) <=>
           (\E d \in unclaimed : p \in Positions(d))
    BY <1>1, <1>6
  <2>3. Open(p)' <=> (\E d \in unclaimed' : p \in Positions(d)') \/ (\E v \in CullThreads : p \in Held(v)')
    BY DEF Open
  <2> QED
    BY <2>1, <2>2, <2>3 DEF Open
<1>8. \A v \in CullThreads : (step'[v] = "write" <=> step[v] = "write") /\ slot'[v] = slot[v]
  BY <1>1, <1>2, <1>3
<1>9. \A s : Written(s)' <=> Written(s)
  BY <1>1, <1>8 DEF Written
<1>10. c \in DOMAIN grid_cells /\ grid_cells[c].count > 0
       /\ grid_cells[c].first \in Nat /\ grid_cells[c].count \in Nat
       /\ Positions(c) \subseteq DOMAIN entity_indices
  BY <1>0 DEF Grid
<1>11. Threads'
  <2>1. has_grid' /\ Len(results') = Len(entity_indices') /\ visible_count' <= Len(results')
    BY <1>1 DEF Threads, has_grid
  <2>2. unclaimed' \subseteq {d \in DOMAIN grid_cells' : grid_cells'[d].count > 0}
    BY <1>0, <1>1
  <2>3. \A v \in CullThreads : step'[v] # "idle" =>
           cursor'[v] <= end'[v] /\ Held(v)' \subseteq DOMAIN entity_indices'
    <3>1. cursor'[w] <= end'[w] /\ Held(w)' \subseteq DOMAIN entity_indices'
      BY <1>1, <1>2, <1>4, <1>10
    <3> QED
      BY <1>1, <1>3, <1>5, <3>1 DEF Threads
  <2>4. \A u, v \in CullThreads : u # v => Held(u)' \cap Held(v)' = {}
    <3>1. \A v \in CullThreads : Held(v) \cap Positions(c) = {}
      BY DEF Threads
    <3>2. \A u, v \in CullThreads : u # v => Held(u) \cap Held(v) = {}
      BY DEF Threads
    <3> QED
      BY <1>4, <1>5, <3>1, <3>2
  <2>5. \A v \in CullThreads, d \in unclaimed' : Held(v)' \cap Positions(d)' = {}
    <3>1. \A v \in CullThreads, d \in unclaimed : Held(v) \cap Positions(d) = {}
      BY DEF Threads
    <3>2. \A d \in unclaimed' : d \in unclaimed /\ Positions(c) \cap Positions(d) = {}
      BY <1>0, <1>1, <1>10 DEF Grid
    <3> QED
      BY <1>4, <1>5, <1>6, <3>1, <3>2
  <2>6. \A v \in CullThreads : step'[v] = "write" =>
           slot'[v] \in 1 .. visible_count' /\ is_visible(entity_indices[cursor[v]])'
    <3>1. \A v \in CullThreads : step'[v] = "write" => v # w /\ step[v] = "write" /\ cursor'[v] = cursor[v]
      BY <1>2, <1>3
    <3> QED
      BY <1>1, <3>1 DEF Threads, is_visible
  <2>7. \A u, v \in CullThreads :
           step'[u] = "write" /\ step'[v] = "write" /\ slot'[u] = slot'[v] => u = v
    BY <1>8 DEF Threads
  <2> QED
    BY <2>1, <2>2, <2>3, <2>4, <2>5, <2>6, <2>7 DEF Threads
<1>12. Found'
  BY <1>1, <1>7, <1>9 DEF Found, is_visible
<1> QED
  BY <1>11, <1>12

\* The test of an entity.
LEMMA TestEntity ==
  ASSUME RLTypes, Threads, Found, NEW w \in CullThreads, test_entity(w)
  PROVE  Threads' /\ Found' /\ visible_count' \in Nat
         /\ step' \in [CullThreads -> {"idle", "test", "write"}]
         /\ cursor' \in [CullThreads -> Nat] /\ end' \in [CullThreads -> Nat]
         /\ slot' \in [CullThreads -> Nat]
<1>0. /\ step \in [CullThreads -> {"idle", "test", "write"}]
      /\ cursor \in [CullThreads -> Nat] /\ end \in [CullThreads -> Nat]
      /\ slot \in [CullThreads -> Nat] /\ visible_count \in Nat
  BY DEF RLTypes
<1>1. /\ step[w] = "test" /\ entity_indices' = entity_indices /\ grid_cells' = grid_cells
      /\ met' = met /\ results' = results /\ unclaimed' = unclaimed
  BY DEF test_entity, scene
<1>2. \A d : Positions(d)' = Positions(d)
  BY <1>1 DEF Positions
<1>3. has_grid' /\ Len(results') = Len(entity_indices')
      /\ unclaimed' \subseteq {d \in DOMAIN grid_cells' : grid_cells'[d].count > 0}
  BY <1>1 DEF Threads, has_grid
<1>4. CASE is_visible(entity_indices[cursor[w]])
  <2>1. /\ slot' = [slot EXCEPT ![w] = visible_count + 1] /\ visible_count' = visible_count + 1
        /\ step' = [step EXCEPT ![w] = "write"] /\ cursor' = cursor /\ end' = end
    BY <1>4 DEF test_entity
  <2>2. step'[w] = "write" /\ slot'[w] = visible_count + 1
        /\ \A v \in CullThreads : v # w => step'[v] = step[v] /\ slot'[v] = slot[v]
    BY <1>0, <2>1
  <2>3. \A v \in CullThreads : Held(v)' = Held(v) /\ (step'[v] = "idle" <=> step[v] = "idle")
    BY <1>1, <2>1, <2>2 DEF Held
  <2>4. \A p : Open(p)' <=> Open(p)
    BY <1>1, <1>2, <2>3 DEF Open
  <2>5. \A v \in CullThreads : step[v] = "write" =>
           slot[v] \in 1 .. visible_count /\ is_visible(entity_indices[cursor[v]])
    BY DEF Threads
  <2>6. \A s \in 1 .. visible_count' :
           Written(s)' <=> s \in 1 .. visible_count /\ Written(s)
    <3> SUFFICES ASSUME NEW s \in 1 .. visible_count'
                 PROVE  Written(s)' <=> s \in 1 .. visible_count /\ Written(s)
      OBVIOUS
    <3>1. CASE s = visible_count + 1
      BY <1>0, <2>2, <3>1 DEF Written
    <3>2. CASE s # visible_count + 1
      <4>1. s \in 1 .. visible_count
        BY <1>0, <2>1, <3>2
      <4>2. \A v \in CullThreads : (step'[v] = "write" => slot'[v] # s) <=> (step[v] = "write" => slot[v] # s)
        BY <1>1, <2>2, <3>2
      <4> QED
        BY <4>1, <4>2 DEF Written
    <3> QED
      BY <3>1, <3>2
  <2>7. visible_count' <= Len(results')
    <3>1. visible_count < Len(entity_indices) /\ Len(entity_indices) = Len(results)
          /\ Len(entity_indices) \in Nat
      BY <1>1, SlotsLeft DEF Threads, RLTypes
    <3> QED
      BY <1>0, <1>1, <2>1, <3>1
  <2>8. Threads'
    <3>1. \A v \in CullThreads : step'[v] # "idle" =>
             cursor'[v] <= end'[v] /\ Held(v)' \subseteq DOMAIN entity_indices'
      BY <1>1, <2>1, <2>3 DEF Threads
    <3>2. \A u, v \in CullThreads : u # v => Held(u)' \cap Held(v)' = {}
      BY <2>3 DEF Threads
    <3>3. \A v \in CullThreads, d \in unclaimed' : Held(v)' \cap Positions(d)' = {}
      BY <1>1, <1>2, <2>3 DEF Threads
    <3>4. \A v \in CullThreads : step'[v] = "write" =>
             slot'[v] \in 1 .. visible_count' /\ is_visible(entity_indices[cursor[v]])'
      <4>1. \A v \in CullThreads : is_visible(entity_indices[cursor[v]])'
               <=> is_visible(entity_indices[cursor[v]])
        BY <1>1, <2>1 DEF is_visible
      <4>2. 1 .. visible_count' = 1 .. visible_count \cup {visible_count + 1}
        BY <1>0, <2>1
      <4> QED
        BY <1>4, <2>2, <2>5, <4>1, <4>2
    <3>5. \A u, v \in CullThreads :
             step'[u] = "write" /\ step'[v] = "write" /\ slot'[u] = slot'[v] => u = v
      <4>1. \A v \in CullThreads : step[v] = "write" => slot[v] # visible_count + 1
        BY <1>0, <2>5
      <4>2. \A u, v \in CullThreads :
               step[u] = "write" /\ step[v] = "write" /\ slot[u] = slot[v] => u = v
        BY DEF Threads
      <4> QED
        BY <2>2, <4>1, <4>2
    <3> QED
      BY <1>3, <2>7, <3>1, <3>2, <3>3, <3>4, <3>5 DEF Threads
  <2>9. 1 .. visible_count \subseteq 1 .. visible_count'
    BY <1>0, <2>1
  <2>10. Found'
    <3>1. \A s \in 1 .. visible_count' : Written(s)' =>
             \E p \in DOMAIN entity_indices' :
                results'[s] = entity_indices'[p] /\ ~Open(p)' /\ is_visible(entity_indices[p])'
      BY <1>1, <2>4, <2>6 DEF Found, is_visible
    <3>2. \A s, t \in 1 .. visible_count' : Written(s)' /\ Written(t)' /\ results'[s] = results'[t] => s = t
      BY <1>1, <2>6 DEF Found
    <3>3. \A p \in DOMAIN entity_indices' : entity_indices'[p] \in met' \cap Bounded =>
             Open(p)' \/ \E s \in 1 .. visible_count' : Written(s)' /\ results'[s] = entity_indices'[p]
      BY <1>1, <2>4, <2>6, <2>9 DEF Found
    <3> QED
      BY <3>1, <3>2, <3>3 DEF Found, is_visible
  <2> QED
    BY <1>0, <2>1, <2>8, <2>10
<1>5. CASE ~is_visible(entity_indices[cursor[w]])
  <2>1. Advance(w) /\ slot' = slot /\ visible_count' = visible_count
    BY <1>5 DEF test_entity
  <2>2. /\ Held(w)' = Held(w) \ {cursor[w]}
        /\ \A v \in CullThreads : v # w =>
              /\ Held(v)' = Held(v) /\ step'[v] = step[v]
              /\ cursor'[v] = cursor[v] /\ end'[v] = end[v]
        /\ \A p : Open(p)' <=> Open(p) /\ p # cursor[w]
        /\ step'[w] \in {"idle", "test"} /\ (step'[w] # "idle" => cursor'[w] <= end'[w])
        /\ step' \in [CullThreads -> {"idle", "test", "write"}]
        /\ cursor' \in [CullThreads -> Nat] /\ end' \in [CullThreads -> Nat]
    BY <1>1, <2>1, AdvanceHeld DEF scene
  <2>3. \A v \in CullThreads : step'[v] = "write" <=> step[v] = "write"
    BY <1>1, <2>2
  <2>4. \A s : Written(s)' <=> Written(s)
    BY <2>1, <2>3 DEF Written
  <2>5. Threads'
    <3>1. \A v \in CullThreads : step'[v] # "idle" =>
             cursor'[v] <= end'[v] /\ Held(v)' \subseteq DOMAIN entity_indices'
      BY <1>1, <2>2 DEF Threads
    <3>2. \A u, v \in CullThreads : u # v => Held(u)' \cap Held(v)' = {}
      BY <2>2 DEF Threads
    <3>3. \A v \in CullThreads, d \in unclaimed' : Held(v)' \cap Positions(d)' = {}
      BY <1>1, <1>2, <2>2 DEF Threads
    <3>4. \A v \in CullThreads : step'[v] = "write" =>
             slot'[v] \in 1 .. visible_count' /\ is_visible(entity_indices[cursor[v]])'
      BY <1>1, <2>1, <2>2 DEF Threads, is_visible
    <3>5. \A u, v \in CullThreads :
             step'[u] = "write" /\ step'[v] = "write" /\ slot'[u] = slot'[v] => u = v
      BY <2>1, <2>3 DEF Threads
    <3> QED
      BY <1>1, <1>3, <2>1, <3>1, <3>2, <3>3, <3>4, <3>5 DEF Threads
  <2>6. entity_indices[cursor[w]] \notin met \cap Bounded
    BY <1>5 DEF is_visible
  <2>7. Found'
    BY <1>1, <2>1, <2>2, <2>4, <2>6 DEF Found, is_visible
  <2> QED
    BY <1>0, <2>1, <2>2, <2>5, <2>7
<1> QED
  BY <1>4, <1>5

\* The write of a found entity into the slot its thread was given.
LEMMA WriteResult ==
  ASSUME RLTypes, Threads, Found, NEW w \in CullThreads, write_result(w)
  PROVE  Threads' /\ Found' /\ results' \in Seq(Entities \cup {None})
         /\ step' \in [CullThreads -> {"idle", "test", "write"}]
         /\ cursor' \in [CullThreads -> Nat] /\ end' \in [CullThreads -> Nat]
         /\ slot' \in [CullThreads -> Nat]
<1>0. /\ step \in [CullThreads -> {"idle", "test", "write"}]
      /\ cursor \in [CullThreads -> Nat] /\ end \in [CullThreads -> Nat]
      /\ slot \in [CullThreads -> Nat] /\ visible_count \in Nat
      /\ results \in Seq(Entities \cup {None}) /\ entity_indices \in Seq(Entities)
      /\ IsInjective(entity_indices)
  BY DEF RLTypes
<1>1. /\ step[w] = "write" /\ entity_indices' = entity_indices /\ grid_cells' = grid_cells
      /\ met' = met /\ visible_count' = visible_count /\ unclaimed' = unclaimed
      /\ results' = [results EXCEPT ![slot[w]] = entity_indices[cursor[w]]]
      /\ slot' = [slot EXCEPT ![w] = 0] /\ Advance(w)
  BY DEF write_result, scene
<1> PICK z : z = slot[w]
  OBVIOUS
<1> PICK q : q = cursor[w]
  OBVIOUS
<1>2. \A d : Positions(d)' = Positions(d)
  BY <1>1 DEF Positions
<1>3. /\ Held(w)' = Held(w) \ {q}
      /\ \A v \in CullThreads : v # w =>
            /\ Held(v)' = Held(v) /\ step'[v] = step[v]
            /\ cursor'[v] = cursor[v] /\ end'[v] = end[v]
      /\ \A p : Open(p)' <=> Open(p) /\ p # q
      /\ step'[w] \in {"idle", "test"} /\ (step'[w] # "idle" => cursor'[w] <= end'[w])
      /\ step' \in [CullThreads -> {"idle", "test", "write"}]
      /\ cursor' \in [CullThreads -> Nat] /\ end' \in [CullThreads -> Nat]
  BY <1>1, AdvanceHeld DEF scene
<1>4. q \in DOMAIN entity_indices /\ Open(q)
  BY <1>1, CursorHeld
<1>5. z \in 1 .. visible_count /\ is_visible(entity_indices[q])
  BY <1>1 DEF Threads
<1>6. Len(results) = Len(entity_indices) /\ visible_count <= Len(results) /\ Len(results) \in Nat
  BY <1>0 DEF Threads
<1>7. z \in 1 .. Len(results) /\ entity_indices[q] \in Entities
  <2>1. z \in 1 .. Len(results)
    BY <1>0, <1>5, <1>6
  <2> QED
    BY <1>0, <1>4, <2>1
<1>8. /\ results' \in Seq(Entities \cup {None}) /\ Len(results') = Len(results)
      /\ results'[z] = entity_indices[q]
      /\ \A s \in 1 .. Len(results) : s # z => results'[s] = results[s]
  <2>1. results' = [results EXCEPT ![z] = entity_indices[q]]
    BY <1>1
  <2>2. DOMAIN results = 1 .. Len(results)
    BY <1>0
  <2> QED
    BY <1>0, <1>7, <2>1, <2>2
<1>9. \A v \in CullThreads : v # w => slot'[v] = slot[v]
  BY <1>0, <1>1
<1>10. \A v \in CullThreads : step'[v] = "write" => v # w /\ step[v] = "write" /\ slot[v] # z
  <2>1. \A v \in CullThreads : step[v] = "write" /\ slot[v] = slot[w] => v = w
    BY <1>1 DEF Threads
  <2> QED
    BY <1>3, <2>1
<1>11. ~Written(z)
  BY <1>1 DEF Written
<1>12. \A s : Written(s)' <=> Written(s) \/ s = z
  <2> SUFFICES ASSUME NEW s PROVE Written(s)' <=> Written(s) \/ s = z
    OBVIOUS
  <2>1. CASE s = z
    BY <1>1, <1>5, <1>9, <1>10, <2>1 DEF Written
  <2>2. CASE s # z
    <3>1. \A v \in CullThreads : (step'[v] = "write" => slot'[v] # s) <=> (step[v] = "write" => slot[v] # s)
      <4> TAKE v \in CullThreads
      <4>1. CASE v = w
        BY <1>1, <1>3, <2>2, <4>1
      <4>2. CASE v # w
        BY <1>3, <1>9, <4>2
      <4> QED
        BY <4>1, <4>2
    <3> QED
      BY <1>1, <2>2, <3>1 DEF Written
  <2> QED
    BY <2>1, <2>2
<1>13. \A s \in 1 .. visible_count : s \in 1 .. Len(results)
  BY <1>0, <1>6
<1>14. Threads'
  <2>1. has_grid' /\ Len(results') = Len(entity_indices') /\ visible_count' <= Len(results')
    BY <1>1, <1>6, <1>8 DEF Threads, has_grid
  <2>2. unclaimed' \subseteq {d \in DOMAIN grid_cells' : grid_cells'[d].count > 0}
    BY <1>1 DEF Threads
  <2>3. \A v \in CullThreads : step'[v] # "idle" =>
           cursor'[v] <= end'[v] /\ Held(v)' \subseteq DOMAIN entity_indices'
    BY <1>1, <1>3 DEF Threads
  <2>4. \A u, v \in CullThreads : u # v => Held(u)' \cap Held(v)' = {}
    BY <1>3 DEF Threads
  <2>5. \A v \in CullThreads, d \in unclaimed' : Held(v)' \cap Positions(d)' = {}
    BY <1>1, <1>2, <1>3 DEF Threads
  <2>6. \A v \in CullThreads : step'[v] = "write" =>
           slot'[v] \in 1 .. visible_count' /\ is_visible(entity_indices[cursor[v]])'
    BY <1>1, <1>3, <1>9, <1>10 DEF Threads, is_visible
  <2>7. \A u, v \in CullThreads :
           step'[u] = "write" /\ step'[v] = "write" /\ slot'[u] = slot'[v] => u = v
    BY <1>9, <1>10 DEF Threads
  <2> QED
    BY <2>1, <2>2, <2>3, <2>4, <2>5, <2>6, <2>7 DEF Threads
<1>15. Found'
  <2>1. \A s \in 1 .. visible_count : Written(s)' =>
           \E p \in DOMAIN entity_indices :
              results'[s] = entity_indices[p] /\ ~Open(p)' /\ is_visible(entity_indices[p])
    <3> SUFFICES ASSUME NEW s \in 1 .. visible_count, Written(s)'
                 PROVE  \E p \in DOMAIN entity_indices :
              results'[s] = entity_indices[p] /\ ~Open(p)' /\ is_visible(entity_indices[p])
      OBVIOUS
    <3>1. CASE s = z
      BY <1>3, <1>4, <1>5, <1>8, <3>1
    <3>2. CASE s # z
      <4>1. results'[s] = results[s] /\ Written(s)
        BY <1>8, <1>12, <1>13, <3>2
      <4>2. PICK p \in DOMAIN entity_indices :
               results[s] = entity_indices[p] /\ ~Open(p) /\ is_visible(entity_indices[p])
        BY <4>1 DEF Found
      <4> QED
        BY <1>3, <4>1, <4>2
    <3> QED
      BY <3>1, <3>2
  <2>2. \A s \in 1 .. visible_count : Written(s) => results[s] # entity_indices[q]
    <3> SUFFICES ASSUME NEW s \in 1 .. visible_count, Written(s), results[s] = entity_indices[q]
                 PROVE  FALSE
      OBVIOUS
    <3>1. PICK p \in DOMAIN entity_indices : results[s] = entity_indices[p] /\ ~Open(p)
      BY DEF Found
    <3>2. p = q
      BY <1>0, <1>4, <3>1 DEF IsInjective
    <3> QED
      BY <1>4, <3>1, <3>2
  <2>3. \A s, t \in 1 .. visible_count : Written(s)' /\ Written(t)' /\ results'[s] = results'[t] => s = t
    <3>1. \A s, t \in 1 .. visible_count : Written(s) /\ Written(t) /\ results[s] = results[t] => s = t
      BY DEF Found
    <3> QED
      BY <1>8, <1>11, <1>12, <1>13, <2>2, <3>1
  <2>4. \A p \in DOMAIN entity_indices : entity_indices[p] \in met \cap Bounded =>
           Open(p)' \/ \E s \in 1 .. visible_count : Written(s)' /\ results'[s] = entity_indices[p]
    <3> SUFFICES ASSUME NEW p \in DOMAIN entity_indices, entity_indices[p] \in met \cap Bounded,
                        ~Open(p)'
                 PROVE  \E s \in 1 .. visible_count : Written(s)' /\ results'[s] = entity_indices[p]
      OBVIOUS
    <3>1. CASE p = q
      BY <1>5, <1>8, <1>12, <3>1
    <3>2. CASE p # q
      <4>1. PICK s \in 1 .. visible_count : Written(s) /\ results[s] = entity_indices[p]
        BY <1>3, <3>2 DEF Found
      <4>2. Written(s)' /\ results'[s] = results[s]
        BY <1>8, <1>11, <1>12, <1>13, <4>1
      <4> QED
        BY <4>1, <4>2
    <3> QED
      BY <3>1, <3>2
  <2>5. \A p : is_visible(entity_indices[p])' <=> is_visible(entity_indices[p])
    BY <1>1 DEF is_visible
  <2> QED
    BY <1>1, <2>1, <2>3, <2>4, <2>5 DEF Found
<1>16. slot' \in [CullThreads -> Nat]
  BY <1>0, <1>1
<1> QED
  BY <1>3, <1>8, <1>14, <1>15, <1>16

\* The start of a cull: every position is in one visible cell, or its entity is
\* not met.
LEMMA StartCull ==
  ASSUME RLTypes, Stages, pc # "culling", has_grid,
         NEW m \in SUBSET Bounded, NEW c \in SUBSET DOMAIN grid_cells, c # {},
         cull_grids(m, c), start_cull(m, c)
  PROVE  Threads' /\ Found' /\ results' \in Seq(Entities \cup {None}) /\ visible_count' \in Nat
<1> PICK n \in Nat : n = Len(entity_indices)
  BY DEF RLTypes
<1>0. /\ Grid /\ results \in Seq(Entities \cup {None}) /\ DOMAIN entity_indices = 1 .. n
      /\ unclaimed = {} /\ \A w \in CullThreads : step[w] = "idle"
  BY DEF RLTypes, Stages
<1>1. /\ unclaimed' = c /\ met' = m /\ entity_indices' = entity_indices /\ grid_cells' = grid_cells
      /\ step' = step /\ cursor' = cursor /\ end' = end /\ slot' = slot
      /\ prepare(Len(entity_indices))
  BY DEF start_cull, scene
<1>2. c \subseteq {d \in DOMAIN grid_cells : grid_cells[d].count > 0}
  BY DEF cull_grids
<1>3. \A d \in DOMAIN grid_cells : grid_cells[d].first \in Nat /\ grid_cells[d].count \in Nat
  BY <1>0 DEF Grid
<1>4. n # 0
  <2>1. PICK d \in c : TRUE
    OBVIOUS
  <2>2. grid_cells[d].first \in Positions(d)
    BY <1>2, <1>3, <2>1 DEF Positions
  <2>3. grid_cells[d].first \in 1 .. n
    BY <1>0, <2>1, <2>2 DEF Grid
  <2> QED
    BY <1>3, <2>3
<1>5. /\ visible_count' = 0
      /\ results' = [i \in 1 .. n |-> IF i \in DOMAIN results THEN results[i] ELSE None]
  BY <1>1, <1>4 DEF prepare
<1>6. results' \in Seq(Entities \cup {None}) /\ Len(results') = n
  <2>1. PICK f : f = [i \in 1 .. n |-> IF i \in DOMAIN results THEN results[i] ELSE None]
    OBVIOUS
  <2>2. f \in [1 .. n -> Entities \cup {None}]
    BY <1>0, <2>1
  <2>3. f \in Seq(Entities \cup {None}) /\ Len(f) = n
    BY <2>2
  <2> QED
    BY <1>5, <2>1, <2>3
<1>7. \A w \in CullThreads : step'[w] = "idle" /\ Held(w)' = {}
  BY <1>0, <1>1 DEF Held
<1>8. Threads'
  <2>1. has_grid' /\ Len(results') = Len(entity_indices') /\ visible_count' <= Len(results')
    BY <1>1, <1>5, <1>6 DEF has_grid
  <2>2. unclaimed' \subseteq {d \in DOMAIN grid_cells' : grid_cells'[d].count > 0}
    BY <1>1, <1>2
  <2> QED
    BY <1>7, <2>1, <2>2 DEF Threads
<1>9. Found'
  <2>1. \A s : s \notin 1 .. visible_count'
    BY <1>5
  <2>2. \A p \in DOMAIN entity_indices' : entity_indices'[p] \in met' \cap Bounded => Open(p)'
    <3> SUFFICES ASSUME NEW p \in DOMAIN entity_indices, entity_indices[p] \in m
                 PROVE  Open(p)'
      BY <1>1
    <3>1. PICK d \in DOMAIN grid_cells : p \in Positions(d)
      BY <1>0 DEF Grid
    <3>2. entity_indices[p] \in InCell(d)
      BY <3>1 DEF InCell, Positions
    <3>3. grid_cells[d].count > 0
      <4>1. p \in Nat
        BY <1>0
      <4> QED
        BY <1>3, <3>1, <4>1 DEF Positions
    <3>4. d \in c
      BY <3>2, <3>3 DEF cull_grids
    <3>5. p \in Positions(d)'
      BY <1>1, <3>1 DEF Positions
    <3> QED
      BY <1>1, <3>4, <3>5 DEF Open
  <2> QED
    BY <2>1, <2>2 DEF Found
<1> QED
  BY <1>5, <1>6, <1>8, <1>9

\* The end of a cull: nothing is open and every slot is written.
LEMMA CullCommitted ==
  ASSUME RLTypes, Threads, Found, commit_visible_results
  PROVE  /\ visible' \in Seq(Entities \cup {None}) /\ IsInjective(visible')
         /\ ToSet(visible') \cap Bounded = met \cap ToSet(entity_indices)
<1> PICK m \in Nat : m = visible_count
  BY DEF RLTypes
<1>0. /\ results \in Seq(Entities \cup {None}) /\ entity_indices \in Seq(Entities)
      /\ met \subseteq Bounded /\ m <= Len(results) /\ Len(results) \in Nat
      /\ unclaimed = {} /\ \A w \in CullThreads : step[w] = "idle"
  BY DEF RLTypes, Threads, commit_visible_results, CullDone
<1>1. (\A p : ~Open(p)) /\ \A s \in 1 .. m : Written(s)
  BY <1>0 DEF Open, Held, Written
<1>2. visible' = SubSeq(results, 1, m)
  BY DEF commit_visible_results
<1> PICK v : v = SubSeq(results, 1, m)
  OBVIOUS
<1>3. v \in Seq(Entities \cup {None}) /\ DOMAIN v = 1 .. m /\ \A s \in 1 .. m : v[s] = results[s]
  BY <1>0
<1>4. \A s, t \in 1 .. m : results[s] = results[t] => s = t
  BY <1>1 DEF Found
<1>5. IsInjective(v)
  BY <1>3, <1>4 DEF IsInjective
<1>6. \A s \in 1 .. m : \E p \in DOMAIN entity_indices :
         results[s] = entity_indices[p] /\ is_visible(entity_indices[p])
  BY <1>1 DEF Found
<1>7. \A p \in DOMAIN entity_indices : entity_indices[p] \in met \cap Bounded =>
         \E s \in 1 .. m : results[s] = entity_indices[p]
  BY <1>1 DEF Found
<1>8. \A e : e \in ToSet(v) \cap Bounded <=> e \in met \cap ToSet(entity_indices)
  <2>1. ASSUME NEW e \in ToSet(v) \cap Bounded PROVE e \in met \cap ToSet(entity_indices)
    <3>1. PICK s \in 1 .. m : e = results[s]
      BY <1>3, <2>1 DEF ToSet
    <3>2. PICK p \in DOMAIN entity_indices : e = entity_indices[p] /\ is_visible(entity_indices[p])
      BY <1>6, <3>1
    <3> QED
      BY <2>1, <3>2 DEF is_visible, ToSet
  <2>2. ASSUME NEW e \in met \cap ToSet(entity_indices) PROVE e \in ToSet(v) \cap Bounded
    <3>1. PICK p \in DOMAIN entity_indices : e = entity_indices[p]
      BY <2>2 DEF ToSet
    <3>2. e \in Bounded
      BY <1>0, <2>2
    <3>3. PICK s \in 1 .. m : results[s] = e
      BY <1>7, <2>2, <3>1, <3>2
    <3> QED
      BY <1>3, <3>2, <3>3 DEF ToSet
  <2> QED
    BY <2>1, <2>2
<1> QED
  BY <1>2, <1>3, <1>5, <1>8

-----------------------------------------------------------------------------
(* The steps preserve the invariant.                                         *)

\* Steps that leave the scene, the cull and the queues alone.
LEMMA Kept ==
  ASSUME RLInv, UNCHANGED <<pcVars, drawing>>, Stages', to_record' \in Seq(PassSet),
         pc' \in {"culling", "committed"} => pc' = pc,
         pc \in {"update", "committed"} => pc' = pc /\ (scene_set => scene_set')
  PROVE  RLInv'
<1>0. RLTypes /\ Culling /\ CullExact /\ Drawable /\ QueuesFromOneCull
  BY DEF RLInv
<1>1. /\ entity_indices' = entity_indices /\ grid_cells' = grid_cells /\ met' = met
      /\ results' = results /\ visible_count' = visible_count /\ visible' = visible
      /\ unclaimed' = unclaimed /\ step' = step /\ cursor' = cursor /\ end' = end /\ slot' = slot
      /\ queues' = queues /\ initialized' = initialized /\ filled_from' = filled_from
  BY DEF pcVars, scene, tasks, drawing
<1>2. (has_grid' <=> has_grid) /\ (Grid' <=> Grid)
  BY <1>1 DEF has_grid, Grid, Positions
<1>3. RLTypes'
  BY <1>0, <1>1, <1>2 DEF RLTypes
<1>4. (\A p : Open(p)' <=> Open(p)) /\ (\A s : Written(s)' <=> Written(s))
      /\ (\A w : Held(w)' = Held(w)) /\ (\A e : is_visible(e)' <=> is_visible(e))
      /\ \A c : Positions(c)' = Positions(c)
  BY <1>1 DEF Open, Written, Held, is_visible, Positions
<1>5. Culling'
  <2> SUFFICES ASSUME pc' = "culling" PROVE Threads' /\ Found'
    BY DEF Culling
  <2>1. Threads /\ Found
    BY <1>0 DEF Culling
  <2>2. Threads'
    BY <1>1, <1>2, <2>1 DEF Threads, Held, Positions, is_visible
  <2>3. Found'
    BY <1>1, <1>4, <2>1 DEF Found, is_visible
  <2> QED
    BY <2>2, <2>3
<1>6. CullExact'
  BY <1>0, <1>1 DEF CullExact
<1>7. Drawable'
  BY <1>0, <1>1 DEF Drawable
<1>8. QueuesFromOneCull'
  BY <1>0, <1>1 DEF QueuesFromOneCull
<1> QED
  BY <1>3, <1>5, <1>6, <1>7, <1>8 DEF RLInv

\* What the loader does to the scene no cull sees.
LEMMA SceneLoaded ==
  ASSUME RLInv, loader = "loading", RLTypes',
         UNCHANGED <<visible, unclaimed, step, control, frame, drawing>>
  PROVE  RLInv'
<1>1. /\ visible' = visible /\ unclaimed' = unclaimed /\ step' = step
      /\ loader' = loader /\ task_set' = task_set /\ scene_set' = scene_set /\ pc' = pc
      /\ queues' = queues /\ initialized' = initialized /\ filled_from' = filled_from
  BY DEF control, frame, drawing
<1>2. pc \notin {"cull", "culling", "committed", "update"}
  BY DEF RLInv, Stages
<1>3. Stages'
  BY <1>1 DEF RLInv, Stages
<1>4. Culling' /\ CullExact'
  BY <1>1, <1>2 DEF Culling, CullExact
<1>5. Drawable'
  BY <1>1 DEF RLInv, Drawable
<1>6. QueuesFromOneCull'
  BY <1>1 DEF RLInv, QueuesFromOneCull
<1> QED
  BY <1>3, <1>4, <1>5, <1>6 DEF RLInv

LEMMA LoadEntity ==
  ASSUME RLInv, NEW e \in Entities, load_entity(e) PROVE RLInv'
<1>1. /\ loader = "loading" /\ e \notin ToSet(entity_indices)
      /\ entity_indices' = Append(entity_indices, e) /\ grid_cells' = <<>>
      /\ met' = met /\ results' = results /\ visible_count' = visible_count /\ visible' = visible
      /\ unclaimed' = unclaimed /\ step' = step /\ cursor' = cursor /\ end' = end /\ slot' = slot
      /\ UNCHANGED <<control, frame, drawing>>
  BY DEF load_entity, emplace_primitive, tasks
<1>2. queues' = queues /\ filled_from' = filled_from /\ to_record' = to_record
  BY <1>1 DEF frame, drawing
<1> PICK s : s = entity_indices
  OBVIOUS
<1>3. s \in Seq(Entities) /\ IsInjective(s)
  BY DEF RLInv, RLTypes
<1>4. /\ Append(s, e) \in Seq(Entities) /\ DOMAIN Append(s, e) = DOMAIN s \cup {Len(s) + 1}
      /\ \A k \in DOMAIN s : Append(s, e)[k] = s[k]
      /\ Append(s, e)[Len(s) + 1] = e
  BY <1>3
<1>5. IsInjective(Append(s, e))
  <2>1. \A k \in DOMAIN s : s[k] # e
    BY <1>1 DEF ToSet
  <2> QED
    BY <1>3, <1>4, <2>1 DEF IsInjective
<1>6. ~has_grid'
  BY <1>1 DEF has_grid
<1>7. entity_indices' \in Seq(Entities) /\ IsInjective(entity_indices')
  BY <1>1, <1>4, <1>5
<1>8. RLTypes'
  BY <1>1, <1>2, <1>6, <1>7 DEF RLInv, RLTypes
<1> QED
  BY <1>1, <1>8, SceneLoaded

LEMMA LoadGrid ==
  ASSUME RLInv, load_grid PROVE RLInv'
<1>1. PICK cell_of \in [DOMAIN entity_indices -> 1 .. Cells] : build_grid(cell_of)
  BY DEF load_grid
<1>2. /\ loader = "loading" /\ entity_indices # <<>>
      /\ met' = met /\ results' = results /\ visible_count' = visible_count /\ visible' = visible
      /\ unclaimed' = unclaimed /\ step' = step /\ cursor' = cursor /\ end' = end /\ slot' = slot
      /\ UNCHANGED <<control, frame, drawing>>
  BY DEF load_grid, tasks
<1>3. queues' = queues /\ filled_from' = filled_from /\ to_record' = to_record
  BY <1>2 DEF frame, drawing
<1>4. entity_indices \in Seq(Entities) /\ IsInjective(entity_indices)
  BY DEF RLInv, RLTypes
<1>5. entity_indices' \in Seq(Entities) /\ IsInjective(entity_indices') /\ Grid'
  BY <1>1, <1>2, <1>4, GridBuilt
<1>6. RLTypes'
  BY <1>2, <1>3, <1>5 DEF RLInv, RLTypes
<1> QED
  BY <1>2, <1>6, SceneLoaded

LEMMA CullSkipped ==
  ASSUME RLInv, cull_without_task PROVE RLInv'
<1>1. /\ pc = "cull" /\ pc' = "update"
      /\ entity_indices' = entity_indices /\ grid_cells' = grid_cells /\ met' = met
      /\ results' = results /\ visible_count' = visible_count
      /\ unclaimed' = unclaimed /\ step' = step /\ cursor' = cursor /\ end' = end /\ slot' = slot
      /\ loader' = loader /\ task_set' = task_set /\ scene_set' = scene_set
      /\ to_record' = to_record
      /\ queues' = queues /\ initialized' = initialized /\ filled_from' = filled_from
  BY DEF cull_without_task, Goto, scene, tasks, control, drawing
<1>2. \/ ~scene_set /\ visible' = visible
      \/ scene_set /\ visible' = entity_indices
      \/ scene_set /\ visible' = <<>>
  BY DEF cull_without_task
<1>3. /\ entity_indices \in Seq(Entities) /\ IsInjective(entity_indices)
      /\ visible \in Seq(Entities \cup {None}) /\ IsInjective(visible)
  BY DEF RLInv, RLTypes, Drawable
<1>4. visible' \in Seq(Entities \cup {None}) /\ IsInjective(visible')
  <2>1. entity_indices \in Seq(Entities \cup {None}) /\ <<>> \in Seq(Entities \cup {None})
    BY <1>3
  <2>2. IsInjective(<<>>)
    BY DEF IsInjective
  <2> QED
    BY <1>2, <1>3, <2>1, <2>2
<1>5. (has_grid' <=> has_grid) /\ (Grid' <=> Grid)
  BY <1>1 DEF has_grid, Grid, Positions
<1>6. RLTypes'
  BY <1>1, <1>4, <1>5 DEF RLInv, RLTypes
<1>7. Stages'
  BY <1>1 DEF RLInv, Stages
<1>8. Culling' /\ CullExact'
  BY <1>1 DEF Culling, CullExact
<1>9. Drawable'
  BY <1>1, <1>2, <1>4 DEF RLInv, Drawable
<1>10. QueuesFromOneCull'
  BY <1>1 DEF RLInv, QueuesFromOneCull
<1> QED
  BY <1>6, <1>7, <1>8, <1>9, <1>10 DEF RLInv

LEMMA CullStarted ==
  ASSUME RLInv, cull_visible_primitives_parallel PROVE RLInv'
<1>1. PICK m \in SUBSET Bounded, c \in SUBSET DOMAIN grid_cells :
         c # {} /\ cull_grids(m, c) /\ start_cull(m, c)
  BY DEF cull_visible_primitives_parallel
<1>2. /\ pc = "cull" /\ pc' = "culling" /\ scene_set /\ has_grid
      /\ entity_indices' = entity_indices /\ grid_cells' = grid_cells /\ met' = m
      /\ visible' = visible
      /\ step' = step /\ cursor' = cursor /\ end' = end /\ slot' = slot
      /\ loader' = loader /\ task_set' = task_set /\ scene_set' = scene_set
      /\ to_record' = to_record
      /\ queues' = queues /\ initialized' = initialized /\ filled_from' = filled_from
  BY <1>1 DEF cull_visible_primitives_parallel, start_cull, Goto, scene, control, drawing
<1>3. RLTypes /\ Stages
  BY DEF RLInv
<1>4. Threads' /\ Found' /\ results' \in Seq(Entities \cup {None}) /\ visible_count' \in Nat
  BY <1>1, <1>2, <1>3, StartCull
<1>5. (has_grid' <=> has_grid) /\ (Grid' <=> Grid)
  BY <1>2 DEF has_grid, Grid, Positions
<1>6. RLTypes'
  BY <1>1, <1>2, <1>4, <1>5 DEF RLInv, RLTypes
<1>7. Stages'
  BY <1>2 DEF RLInv, Stages
<1>8. Culling' /\ CullExact'
  BY <1>2, <1>4 DEF Culling, CullExact
<1>9. Drawable'
  BY <1>2 DEF RLInv, Drawable
<1>10. QueuesFromOneCull'
  BY <1>2 DEF RLInv, QueuesFromOneCull
<1> QED
  BY <1>6, <1>7, <1>8, <1>9, <1>10 DEF RLInv

LEMMA ThreadSteps ==
  ASSUME RLInv, NEW w \in CullThreads, CullStep(w) PROVE RLInv'
<1>1. /\ pc = "culling" /\ pc' = "culling" /\ ExecuteRange(w)
      /\ loader' = loader /\ task_set' = task_set /\ scene_set' = scene_set
      /\ to_record' = to_record
      /\ queues' = queues /\ initialized' = initialized /\ filled_from' = filled_from
  BY DEF CullStep, control, frame, drawing
<1>2. RLTypes /\ Threads /\ Found
  BY <1>1 DEF RLInv, Culling
<1>3. /\ entity_indices' = entity_indices /\ grid_cells' = grid_cells /\ met' = met
      /\ visible' = visible
  BY <1>1 DEF ExecuteRange, take_cell, test_entity, write_result, scene
<1>4. /\ Threads' /\ Found' /\ results' \in Seq(Entities \cup {None}) /\ visible_count' \in Nat
      /\ step' \in [CullThreads -> {"idle", "test", "write"}]
      /\ cursor' \in [CullThreads -> Nat] /\ end' \in [CullThreads -> Nat]
      /\ slot' \in [CullThreads -> Nat]
  <2>1. ASSUME NEW c \in unclaimed, take_cell(w, c)
        PROVE  /\ results' \in Seq(Entities \cup {None}) /\ visible_count' \in Nat
               /\ step' \in [CullThreads -> {"idle", "test", "write"}]
               /\ cursor' \in [CullThreads -> Nat] /\ end' \in [CullThreads -> Nat]
               /\ slot' \in [CullThreads -> Nat]
    <3>1. grid_cells[c].first \in Nat /\ grid_cells[c].first + grid_cells[c].count - 1 \in Nat
      <4>1. grid_cells[c] \in [first : Nat, count : Nat] /\ grid_cells[c].count > 0
        BY <1>2 DEF RLTypes, Threads, Grid
      <4> QED
        BY <4>1
    <3> QED
      BY <1>2, <2>1, <3>1 DEF take_cell, RLTypes
  <2>2. CASE \E c \in unclaimed : take_cell(w, c)
    BY <1>2, <2>1, <2>2, TakeCell
  <2>3. CASE test_entity(w)
    <3>1. results' \in Seq(Entities \cup {None})
      BY <1>2, <2>3 DEF test_entity, RLTypes
    <3> QED
      BY <1>2, <2>3, <3>1, TestEntity
  <2>4. CASE write_result(w)
    <3>1. visible_count' \in Nat
      BY <1>2, <2>4 DEF write_result, RLTypes
    <3> QED
      BY <1>2, <2>4, <3>1, WriteResult
  <2> QED
    BY <1>1, <2>2, <2>3, <2>4 DEF ExecuteRange
<1>5. (has_grid' <=> has_grid) /\ (Grid' <=> Grid)
  BY <1>3 DEF has_grid, Grid, Positions
<1>6. RLTypes'
  BY <1>1, <1>3, <1>4, <1>5 DEF RLInv, RLTypes
<1>7. Stages'
  BY <1>1 DEF RLInv, Stages
<1>8. Culling' /\ CullExact'
  BY <1>1, <1>4 DEF Culling, CullExact
<1>9. Drawable'
  BY <1>1, <1>3 DEF RLInv, Drawable
<1>10. QueuesFromOneCull'
  BY <1>1 DEF RLInv, QueuesFromOneCull
<1> QED
  BY <1>6, <1>7, <1>8, <1>9, <1>10 DEF RLInv

LEMMA CullEnds ==
  ASSUME RLInv, cull_wait PROVE RLInv'
<1>1. /\ pc = "culling" /\ pc' = "committed" /\ commit_visible_results
      /\ entity_indices' = entity_indices /\ grid_cells' = grid_cells /\ met' = met
      /\ results' = results /\ visible_count' = visible_count
      /\ unclaimed' = unclaimed /\ step' = step /\ cursor' = cursor /\ end' = end /\ slot' = slot
      /\ loader' = loader /\ task_set' = task_set /\ scene_set' = scene_set
      /\ to_record' = to_record
      /\ queues' = queues /\ initialized' = initialized /\ filled_from' = filled_from
  BY DEF cull_wait, commit_visible_results, Goto, scene, tasks, control, drawing
<1>2. RLTypes /\ Threads /\ Found
  BY <1>1 DEF RLInv, Culling
<1>3. /\ visible' \in Seq(Entities \cup {None}) /\ IsInjective(visible')
      /\ ToSet(visible') \cap Bounded = met \cap ToSet(entity_indices)
  BY <1>1, <1>2, CullCommitted
<1>4. (has_grid' <=> has_grid) /\ (Grid' <=> Grid)
  BY <1>1 DEF has_grid, Grid, Positions
<1>5. RLTypes'
  BY <1>1, <1>3, <1>4 DEF RLInv, RLTypes
<1>6. Stages'
  BY <1>1 DEF RLInv, Stages, commit_visible_results, CullDone
<1>7. Culling' /\ CullExact'
  <2>1. \A i, j \in DOMAIN visible' : visible'[i] = visible'[j] => i = j
    BY <1>3 DEF IsInjective
  <2> QED
    BY <1>1, <1>3, <2>1 DEF Culling, CullExact
<1>8. Drawable'
  <2>1. scene_set
    BY <1>1 DEF RLInv, Stages
  <2> QED
    BY <1>1, <1>3, <2>1 DEF Drawable
<1>9. QueuesFromOneCull'
  BY <1>1 DEF RLInv, QueuesFromOneCull
<1> QED
  BY <1>5, <1>6, <1>7, <1>8, <1>9 DEF RLInv

LEMMA ComponentsUpdated ==
  ASSUME RLInv, update_visible_render_components PROVE RLInv'
<1>1. /\ pc \in {"update", "committed"} /\ pc' = "begin"
      /\ initialized' = (IF scene_set THEN initialized \cup ToSet(visible) ELSE initialized)
      /\ met' = {}
      /\ entity_indices' = entity_indices /\ grid_cells' = grid_cells
      /\ results' = results /\ visible_count' = visible_count /\ visible' = visible
      /\ unclaimed' = unclaimed /\ step' = step /\ cursor' = cursor /\ end' = end /\ slot' = slot
      /\ loader' = loader /\ task_set' = task_set /\ scene_set' = scene_set
      /\ to_record' = to_record /\ queues' = queues /\ filled_from' = filled_from
  BY DEF update_visible_render_components, Goto, scene, tasks, control
<1>2. (has_grid' <=> has_grid) /\ (Grid' <=> Grid)
  BY <1>1 DEF has_grid, Grid, Positions
<1>3. RLTypes'
  BY <1>1, <1>2 DEF RLInv, RLTypes
<1>4. Stages'
  BY <1>1 DEF RLInv, Stages
<1>5. Culling' /\ CullExact'
  BY <1>1 DEF Culling, CullExact
<1>6. Drawable'
  BY <1>1 DEF RLInv, Drawable
<1>7. QueuesFromOneCull'
  <2>1. initialized \subseteq initialized'
    BY <1>1
  <2> QED
    BY <1>1, <2>1 DEF RLInv, QueuesFromOneCull
<1> QED
  BY <1>3, <1>4, <1>5, <1>6, <1>7 DEF RLInv

LEMMA PassRecorded ==
  ASSUME RLInv, record_pass PROVE RLInv'
<1>1. /\ pc = "record" /\ pc' = pc /\ to_record # <<>> /\ to_record' = Tail(to_record)
      /\ populate_render_pass_queues(Head(to_record))
      /\ entity_indices' = entity_indices /\ grid_cells' = grid_cells /\ met' = met
      /\ results' = results /\ visible_count' = visible_count /\ visible' = visible
      /\ unclaimed' = unclaimed /\ step' = step /\ cursor' = cursor /\ end' = end /\ slot' = slot
      /\ loader' = loader /\ task_set' = task_set /\ scene_set' = scene_set
      /\ initialized' = initialized
  BY DEF record_pass, pcVars, scene, tasks, control
<1>2. to_record \in Seq(PassSet)
  BY DEF RLInv, RLTypes
<1>3. Head(to_record) \in PassSet /\ to_record' \in Seq(PassSet)
  BY <1>1, <1>2
<1> PICK p \in PassSet : p = Head(to_record)
  BY <1>3
<1>4. /\ visible \in Seq(Entities \cup {None}) /\ IsInjective(visible)
      /\ ToSet(visible) \subseteq initialized
      /\ queues \in [PassSet -> Seq(Entities \cup {None})] /\ DOMAIN filled_from = PassSet
  BY <1>1 DEF RLInv, RLTypes, Drawable
<1>5. /\ Accepted(p) \in Seq(Entities \cup {None}) /\ IsInjective(Accepted(p))
      /\ ToSet(Accepted(p)) = ToSet(visible) \cap Accepts[p]
  BY <1>4, AcceptedFacts
<1>6. \/ queues' = queues /\ filled_from' = filled_from
      \/ /\ queues' = [queues EXCEPT ![p] = Accepted(p)]
         /\ filled_from' = [filled_from EXCEPT ![p] = ToSet(visible)]
  BY <1>1 DEF populate_render_pass_queues
<1>7. queues' \in [PassSet -> Seq(Entities \cup {None})] /\ DOMAIN filled_from' = PassSet
  BY <1>4, <1>5, <1>6
<1>8. (has_grid' <=> has_grid) /\ (Grid' <=> Grid)
  BY <1>1 DEF has_grid, Grid, Positions
<1>9. RLTypes'
  BY <1>1, <1>3, <1>7, <1>8 DEF RLInv, RLTypes
<1>10. Stages'
  BY <1>1 DEF RLInv, Stages
<1>11. Culling' /\ CullExact'
  BY <1>1 DEF Culling, CullExact
<1>12. Drawable'
  BY <1>1 DEF RLInv, Drawable
<1>13. QueuesFromOneCull'
  <2>1. QueuesFromOneCull
    BY DEF RLInv
  <2>2. CASE queues' = queues /\ filled_from' = filled_from
    BY <1>1, <2>1, <2>2 DEF QueuesFromOneCull
  <2>3. CASE /\ queues' = [queues EXCEPT ![p] = Accepted(p)]
             /\ filled_from' = [filled_from EXCEPT ![p] = ToSet(visible)]
    <3>1. queues'[p] = Accepted(p) /\ filled_from'[p] = ToSet(visible)
      BY <1>4, <2>3
    <3>2. \A r \in PassSet : r # p => queues'[r] = queues[r] /\ filled_from'[r] = filled_from[r]
      BY <1>4, <2>3
    <3>3. \A i, j \in DOMAIN queues'[p] : queues'[p][i] = queues'[p][j] => i = j
      BY <1>5, <3>1 DEF IsInjective
    <3>4. ToSet(queues'[p]) = filled_from'[p] \cap Accepts[p] /\ ToSet(queues'[p]) \subseteq initialized'
      BY <1>1, <1>4, <1>5, <3>1
    <3> QED
      BY <1>1, <2>1, <3>2, <3>3, <3>4 DEF QueuesFromOneCull
  <2> QED
    BY <1>6, <2>2, <2>3
<1> QED
  BY <1>9, <1>10, <1>11, <1>12, <1>13 DEF RLInv

-----------------------------------------------------------------------------

LEMMA NextRL == RLInv /\ [RLNext]_rlVars => RLInv'
<1> SUFFICES ASSUME RLInv, [RLNext]_rlVars PROVE RLInv'
  OBVIOUS
<1>0. Stages /\ to_record \in Seq(PassSet)
  BY DEF RLInv, RLTypes
<1>1. CASE load_grid
  BY <1>1, LoadGrid
<1>2. CASE load_complete
  BY <1>0, <1>2, Kept DEF load_complete, frame, pcVars, tasks, Stages
<1>3. CASE \E e \in Entities : load_entity(e)
  BY <1>3, LoadEntity
<1>4. CASE leave_loop
  BY <1>0, <1>4, Kept DEF leave_loop, Goto, control, pcVars, tasks, Stages
<1>5. CASE poll_async_loader_completion
  BY <1>0, <1>5, Kept DEF poll_async_loader_completion, Goto, pcVars, tasks, Stages
<1>6. CASE test_loading
  BY <1>0, <1>6, Kept DEF test_loading, is_async_loading, Goto, control, pcVars, tasks, Stages
<1>7. CASE cull_without_task
  BY <1>7, CullSkipped
<1>8. CASE cull_visible_primitives_parallel
  BY <1>8, CullStarted
<1>9. CASE cull_wait
  BY <1>9, CullEnds
<1>10. CASE update_visible_render_components
  BY <1>10, ComponentsUpdated
<1>11. CASE begin_frame
  <2>1. <<UIPass>> \in Seq(PassSet) /\ Passes \in Seq(PassSet)
    <3> PICK s : s = Passes
      OBVIOUS
    <3>1. s \in Seq(DOMAIN Accepts) /\ s # <<>> /\ UIPass = s[Len(s)]
      BY RLPasses DEF Last
    <3>2. UIPass \in ToSet(s) /\ \A i \in 1 .. Len(s) : s[i] \in ToSet(s)
      BY <3>1 DEF ToSet
    <3>3. s \in Seq(ToSet(s))
      BY <3>1, <3>2
    <3> QED
      BY <3>2, <3>3 DEF PassSet
  <2>2. to_record' \in Seq(PassSet)
    BY <1>0, <1>11, <2>1 DEF begin_frame
  <2> QED
    BY <1>0, <1>11, <2>2, Kept DEF begin_frame, Goto, control, pcVars, tasks, Stages
<1>12. CASE record_pass
  BY <1>12, PassRecorded
<1>13. CASE end_frame
  BY <1>0, <1>13, Kept DEF end_frame, Goto, control, pcVars, tasks, Stages
<1>14. CASE request_shutdown
  BY <1>0, <1>14, Kept DEF request_shutdown, frame, pcVars, tasks, Stages
<1>15. CASE \E w \in CullThreads : CullStep(w)
  BY <1>15, ThreadSteps
<1>16. CASE UNCHANGED rlVars
  BY <1>0, <1>16, Kept DEF rlVars, control, frame, pcVars, tasks, Stages
<1> QED
  BY <1>1, <1>2, <1>3, <1>4, <1>5, <1>6, <1>7, <1>8, <1>9, <1>10, <1>11, <1>12, <1>13,
     <1>14, <1>15, <1>16 DEF RLNext, LoaderStep, RenderStep

\* Culling in parallel loses nothing and reports nothing twice: every entity
\* with bounds is visible after a cull exactly when the frustum meets its box,
\* whatever cells the threads take and however their counting and writing
\* interleave.
THEOREM CullsAreExact == RLSpec => []CullExact
<1>1. RLInv => CullExact
  BY DEF RLInv
<1> QED
  BY <1>1, InitRL, NextRL, PTL DEF RLSpec

\* Each pass draws what it accepts of one cull, each entity once, and every
\* entity it draws has had its RenderComponent set up.
THEOREM QueuesComeFromOneCull == RLSpec => []QueuesFromOneCull
<1>1. RLInv => QueuesFromOneCull
  BY DEF RLInv
<1> QED
  BY <1>1, InitRL, NextRL, PTL DEF RLSpec
=============================================================================
