----------------------- MODULE BindlessTextureRegistry -----------------------
(***************************************************************************)
(* BindlessTextureRegistry, src/src/framework/bindless_texture_registry.cpp*)
(* the process-wide allocator of slots in the bindless texture array. Every*)
(* operation runs under its mutex and is one step here.                    *)
(*                                                                         *)
(* The operations are what the rest of the program calls; the clients of   *)
(* BTRSpec are any that keep to the header's contract: a slot is           *)
(* bound and released by the one who was given it, a texture is bound to   *)
(* one slot at a time, and what was released may be released again.        *)
(***************************************************************************)
EXTENDS Integers, Sequences, SequencesExt

CONSTANTS Textures,     \* the Texture objects a client may register
          None,         \* nullptr
          MaxSlots      \* bound: the length of texture_order_

ASSUME NoneIsNoTexture == None \notin Textures

VARIABLES texture_order,     \* slot -> the texture in it; slots count from 1 here
          texture_to_index,  \* texture -> its slot, 0 when it has none
          free_indices,      \* the released slots, reused from the back
          taken              \* history: the slots given out and not released

registry == <<texture_order, texture_to_index, free_indices>>

RegistryInit ==
    /\ texture_order = <<>>
    /\ texture_to_index = [t \in Textures |-> 0]
    /\ free_indices = <<>>

-----------------------------------------------------------------------------
\* The part allocate_slot and allocate_index share. The slots on the free list
\* are slots of texture_order_, which never shrinks, so the code's test
\* `index < texture_order_.size()` always holds.

\* Mutant: the vector does not grow.
TakeSlot_NotGrown(i, t) ==
    IF free_indices # <<>>
    THEN /\ i = Last(free_indices)
         /\ free_indices' = Front(free_indices)
         /\ texture_order' = [texture_order EXCEPT ![i] = t]
    ELSE i = Len(texture_order) + 1 /\ UNCHANGED <<texture_order, free_indices>>

TakeSlot(i, t) ==
    IF free_indices # <<>>
    THEN /\ i = Last(free_indices)
         /\ free_indices' = Front(free_indices)
         /\ texture_order' = [texture_order EXCEPT ![i] = t]
    ELSE /\ i = Len(texture_order) + 1
         /\ texture_order' = Append(texture_order, t)
         /\ UNCHANGED free_indices

allocate_slot(i) == TakeSlot(i, None) /\ UNCHANGED texture_to_index

allocate_index(t, i) ==
    IF texture_to_index[t] # 0
    THEN i = texture_to_index[t] /\ UNCHANGED registry
    ELSE /\ TakeSlot(i, t)
         /\ texture_to_index' = [texture_to_index EXCEPT ![t] = i]

bind_texture(i, t) ==
    IF i \in DOMAIN texture_order
    THEN /\ texture_order' = [texture_order EXCEPT ![i] = t]
         /\ texture_to_index' = [x \in Textures |->
                IF x = t THEN i
                ELSE IF x = texture_order[i] THEN 0 ELSE texture_to_index[x]]
         /\ UNCHANGED free_indices
    ELSE UNCHANGED registry

\* Mutant: the slot keeps the texture that was in it.
release_index_KeepsTexture(i) ==
    /\ i \in DOMAIN texture_order
    /\ texture_to_index' = [x \in Textures |->
           IF x = texture_order[i] THEN 0 ELSE texture_to_index[x]]
    /\ texture_order' = texture_order
    /\ free_indices' = Append(free_indices, i)

\* Mutant: a slot whose texture was never bound is not put on the free list.
release_index_NeverBound(i) ==
    /\ i \in DOMAIN texture_order
    /\ texture_to_index' = [x \in Textures |->
           IF x = texture_order[i] THEN 0 ELSE texture_to_index[x]]
    /\ texture_order' = [texture_order EXCEPT ![i] = None]
    /\ free_indices' = IF texture_order[i] = None THEN free_indices
                                                  ELSE Append(free_indices, i)

release_index(i) ==
    IF i \in DOMAIN texture_order
    THEN /\ texture_to_index' = [x \in Textures |->
                IF x = texture_order[i] THEN 0 ELSE texture_to_index[x]]
         /\ texture_order' = [texture_order EXCEPT ![i] = None]
         /\ free_indices' = IF \E j \in DOMAIN free_indices : free_indices[j] = i
                            THEN free_indices ELSE Append(free_indices, i)
    ELSE UNCHANGED registry

release_texture(t) ==
    IF texture_to_index[t] # 0 THEN release_index(texture_to_index[t])
                               ELSE UNCHANGED registry

-----------------------------------------------------------------------------
(* Clients.                                                                *)

BTRInit == RegistryInit /\ taken = {}

Slots == 1 .. MaxSlots

AllocateSlot == \E i \in Slots : allocate_slot(i) /\ taken' = taken \cup {i}

AllocateIndex(t) ==
    \E i \in Slots : allocate_index(t, i) /\ taken' = taken \cup {i}

BindTexture(t) == \E i \in taken :
    /\ texture_to_index[t] \in {0, i}
    /\ bind_texture(i, t)
    /\ UNCHANGED taken

ReleaseIndex == \E i \in taken \cup {free_indices[j] : j \in DOMAIN free_indices} :
    release_index(i) /\ taken' = taken \ {i}

ReleaseTexture(t) ==
    release_texture(t) /\ taken' = taken \ {texture_to_index[t]}

BTRNext ==
    \/ AllocateSlot
    \/ ReleaseIndex
    \/ \E t \in Textures : AllocateIndex(t) \/ BindTexture(t) \/ ReleaseTexture(t)

btrVars == <<texture_order, texture_to_index, free_indices, taken>>

BTRSpec == BTRInit /\ [][BTRNext]_btrVars

-----------------------------------------------------------------------------
(* Properties.                                                             *)

BTRTypeOK ==
    /\ texture_order \in Seq(Textures \cup {None})
    /\ texture_to_index \in [Textures -> Nat]
    /\ free_indices \in Seq(DOMAIN texture_order)
    /\ taken \subseteq DOMAIN texture_order

\* The vector and the map of the registry are inverse to each other: a lookup
\* by slot and one by texture never disagree (get_texture, get_index), and no
\* texture is found in a slot that was released.
MapsAgree ==
    \A t \in Textures :
        /\ texture_to_index[t] \in taken \cup {0}
        /\ \A i \in DOMAIN texture_order :
               texture_to_index[t] = i <=> texture_order[i] = t

\* No slot is lost or counted twice: each is given out or on the free list,
\* once, and a free slot holds no texture.
SlotsAccounted ==
    /\ \A i \in DOMAIN texture_order :
        i \in taken <=> \A j \in DOMAIN free_indices : free_indices[j] # i
    /\ \A j, k \in DOMAIN free_indices :
        free_indices[j] = free_indices[k] => j = k
    /\ \A j \in DOMAIN free_indices : texture_order[free_indices[j]] = None

\* allocate_slot never hands out a slot that somebody still has.
HandsOutFreeSlots ==
    [][\A i \in Slots : allocate_slot(i) => i \notin taken]_btrVars
=============================================================================
