---------------------------- MODULE PrimitiveCull ----------------------------
(***************************************************************************)
(* The scene's grid and the parallel culling of its entities:              *)
(* Scene::build_grid and cull_grids, RendererPrimitiveCullTask and         *)
(* Renderer::cull_scene. Tasks of the scheduler take one visible cell each *)
(* and append the entities they find to one array through an atomic        *)
(* counter; the render thread waits for them, working as one of them.      *)
(*                                                                         *)
(* Geometry is a choice: which cell an entity's centre falls into, and     *)
(* which boxes the frustum meets. A cell's box encloses the boxes of its   *)
(* entities, so a cell is met when one of them is. Ranges of several cells *)
(* are their cells one after the other, and the groups of four lanes of    *)
(* ExecuteRange their entities one after the other.                        *)
(***************************************************************************)
EXTENDS Naturals, Sequences, SequencesExt, FiniteSets

CONSTANTS Entities,
          Bounded,      \* those whose mesh has local bounds
          None,         \* a slot of results nobody has written
          Cells,        \* bound: how many cells the grid has
          CullThreads   \* the workers and the render thread

ASSUME PCEntities == Bounded \subseteq Entities /\ None \notin Entities /\ Cells \in Nat

VARIABLES entity_indices,   \* Scene::entity_indices_
          grid_cells,       \* cell -> its range of entity_indices; <<>> when no
                            \* grid is built
          met,              \* the entities whose boxes this frame's frustum meets
          unclaimed,        \* visible cells no task has taken yet
          results,          \* cull_batch_results_
          visible_count,    \* visible_counts_
          visible,          \* visible_entity_indices_
          step,             \* where each thread is in ExecuteRange
          cursor, end,      \* its position in entity_indices, and the cell's last
          slot              \* the slot fetch_add gave it

scene == <<entity_indices, grid_cells>>
tasks == <<unclaimed, step, cursor, end, slot>>
pcVars == <<scene, met, results, visible_count, visible, tasks>>

has_grid == grid_cells # <<>>

PCInit ==
    /\ entity_indices = <<>> /\ grid_cells = <<>>
    /\ met = {} /\ results = <<>> /\ visible_count = 0 /\ visible = <<>>
    /\ unclaimed = {}
    /\ step = [w \in CullThreads |-> "idle"]
    /\ cursor = [w \in CullThreads |-> 0] /\ end = cursor /\ slot = cursor

-----------------------------------------------------------------------------
(* The loader's side.                                                      *)

emplace_primitive(e) ==
    /\ entity_indices' = Append(entity_indices, e)
    /\ grid_cells' = <<>>

\* build_grid reorders entity_indices so that every cell is one range of it:
\* a prefix sum of the cells' sizes, then each entity behind those of its own
\* cell that came before it. cell_of maps positions to cells.
first_entity(cell_of, c) == 1 + Cardinality({i \in DOMAIN cell_of : cell_of[i] < c})

entity_count(cell_of, c) == Cardinality({i \in DOMAIN cell_of : cell_of[i] = c})

write_cursor(cell_of, i) ==
    first_entity(cell_of, cell_of[i])
        + Cardinality({j \in 1 .. i - 1 : cell_of[j] = cell_of[i]})

build_grid(cell_of) ==
    /\ grid_cells' = IF entity_indices = <<>> THEN <<>> ELSE
           [c \in 1 .. Cells |-> [first |-> first_entity(cell_of, c),
                                  count |-> entity_count(cell_of, c)]]
    /\ entity_indices' = [k \in DOMAIN entity_indices |->
           entity_indices[CHOOSE i \in DOMAIN cell_of : write_cursor(cell_of, i) = k]]

-----------------------------------------------------------------------------
(* Scene::cull_grids for a frustum that meets the boxes of m.              *)

InCell(c) == {entity_indices[i] : i \in grid_cells[c].first ..
                                        grid_cells[c].first + grid_cells[c].count - 1}

cull_grids(m, visible_cells) ==
    LET Occupied == {c \in DOMAIN grid_cells : grid_cells[c].count > 0} IN
    /\ visible_cells \subseteq Occupied
    /\ \A c \in Occupied :
           \/ InCell(c) \cap Bounded = {}
           \/ InCell(c) \cap m # {}
           => c \in visible_cells

\* RendererPrimitiveCullTask::prepare sizes the array and resets the counter.
prepare(n) ==
    IF n = 0 THEN UNCHANGED <<results, visible_count>>
    ELSE /\ results' = [i \in 1 .. n |->
                           IF i \in DOMAIN results THEN results[i] ELSE None]
         /\ visible_count' = 0

\* cull_visible_primitives_parallel up to the wait.
start_cull(m, visible_cells) ==
    /\ prepare(Len(entity_indices))
    /\ unclaimed' = visible_cells /\ met' = m
    /\ UNCHANGED <<scene, visible, step, cursor, end, slot>>

-----------------------------------------------------------------------------
(* ExecuteRange on thread w.                                               *)

take_cell(w, c) ==
    /\ step[w] = "idle" /\ c \in unclaimed
    /\ unclaimed' = unclaimed \ {c}
    /\ step' = [step EXCEPT ![w] = "test"]
    /\ cursor' = [cursor EXCEPT ![w] = grid_cells[c].first]
    /\ end' = [end EXCEPT ![w] = grid_cells[c].first + grid_cells[c].count - 1]
    /\ UNCHANGED <<scene, met, results, visible_count, visible, slot>>

\* On to the next entity of the cell, or done with it.
Advance(w) ==
    /\ step' = [step EXCEPT ![w] = IF cursor[w] = end[w] THEN "idle" ELSE "test"]
    /\ cursor' = [cursor EXCEPT ![w] = IF cursor[w] = end[w] THEN 0 ELSE @ + 1]
    /\ end' = [end EXCEPT ![w] = IF cursor[w] = end[w] THEN 0 ELSE @]

is_visible(e) == e \in Bounded => e \in met

\* The test, and fetch_add on the counter when the entity is visible.
test_entity(w) ==
    /\ step[w] = "test"
    /\ IF is_visible(entity_indices[cursor[w]])
       THEN /\ slot' = [slot EXCEPT ![w] = visible_count + 1]
            /\ visible_count' = visible_count + 1
            /\ step' = [step EXCEPT ![w] = "write"]
            /\ UNCHANGED <<cursor, end>>
       ELSE Advance(w) /\ UNCHANGED <<slot, visible_count>>
    /\ UNCHANGED <<scene, met, results, visible, unclaimed>>

write_result(w) ==
    /\ step[w] = "write"
    /\ results' = [results EXCEPT ![slot[w]] = entity_indices[cursor[w]]]
    /\ slot' = [slot EXCEPT ![w] = 0]
    /\ Advance(w)
    /\ UNCHANGED <<scene, met, visible_count, visible, unclaimed>>

ExecuteRange(w) ==
    \/ \E c \in unclaimed : take_cell(w, c)
    \/ test_entity(w)
    \/ write_result(w)

\* Mutant: the wait ends when every cell was taken.
CullDone_AllTaken == unclaimed = {}

CullDone == unclaimed = {} /\ \A w \in CullThreads : step[w] = "idle"

\* After WaitforTask.
commit_visible_results ==
    /\ CullDone
    /\ visible' = SubSeq(results, 1, visible_count)
    /\ UNCHANGED <<scene, met, results, visible_count, tasks>>

=============================================================================
