------------------------- MODULE TextureUploadsProofs -------------------------
(***************************************************************************)
(* Proofs about BindlessTextureRegistry, for any number of textures and    *)
(* slots: the free list and the slots given out partition texture_order_;  *)
(* everything else rests on that. Then about TextureUploads, which extends *)
(* it, for any keys, callers and number of calls: no two keys share a slot,*)
(* and every handle returned for a key has the key's slot. The reason is   *)
(* ownership: a slot taken from the registry is held by the call that took *)
(* it until the cache holds it or the registry has it back, and never by   *)
(* two.                                                                    *)
(***************************************************************************)
EXTENDS TextureUploads, TLAPS

LEMMA SeqAppend ==
  ASSUME NEW S, NEW s \in Seq(S), NEW x \in S
  PROVE  /\ Append(s, x) \in Seq(S)
         /\ Len(Append(s, x)) = Len(s) + 1
         /\ DOMAIN Append(s, x) = DOMAIN s \cup {Len(s) + 1}
         /\ \A i \in DOMAIN s : Append(s, x)[i] = s[i]
         /\ Append(s, x)[Len(s) + 1] = x
OBVIOUS

LEMMA SeqUpdate ==
  ASSUME NEW S, NEW s \in Seq(S), NEW x \in S, NEW n \in DOMAIN s
  PROVE  /\ [s EXCEPT ![n] = x] \in Seq(S)
         /\ DOMAIN [s EXCEPT ![n] = x] = DOMAIN s
         /\ \A i \in DOMAIN s : [s EXCEPT ![n] = x][i] = IF i = n THEN x ELSE s[i]
OBVIOUS

LEMMA SeqFront ==
  ASSUME NEW S, NEW s \in Seq(S), s # <<>>
  PROVE  /\ Front(s) \in Seq(S)
         /\ Len(s) \in Nat \ {0} /\ Len(s) \in DOMAIN s /\ Last(s) = s[Len(s)]
         /\ Last(s) \in S
         /\ DOMAIN Front(s) = DOMAIN s \ {Len(s)}
         /\ \A i \in DOMAIN Front(s) : Front(s)[i] = s[i]
BY DEF Front, Last

LEMMA SeqSupset ==
  ASSUME NEW S, NEW T, S \subseteq T, NEW s \in Seq(S)
  PROVE  s \in Seq(T)
OBVIOUS

(* The slots given out and the free list.                                   *)

Partition == BTRTypeOK /\ SlotsAccounted

LEMMA Taking ==
  ASSUME Partition, NEW i, NEW t \in Textures \cup {None}, TakeSlot(i, t),
         taken' = taken \cup {i}
  PROVE  /\ i \notin taken /\ i \in Nat \ {0}
         /\ DOMAIN texture_order' = DOMAIN texture_order \cup {i}
         /\ texture_order' \in Seq(Textures \cup {None})
         /\ i \in DOMAIN texture_order => texture_order[i] = None
         /\ \A n \in DOMAIN texture_order' :
                texture_order'[n] = IF n = i THEN t ELSE texture_order[n]
         /\ free_indices' \in Seq(DOMAIN texture_order')
         /\ taken' \subseteq DOMAIN texture_order'
         /\ SlotsAccounted'
<1> USE DEF Partition, BTRTypeOK
<1>1. CASE free_indices # <<>>
  <2>1. /\ i = Last(free_indices) /\ free_indices' = Front(free_indices)
        /\ texture_order' = [texture_order EXCEPT ![i] = t]
    BY <1>1 DEF TakeSlot
  <2> DEFINE n == Len(free_indices)
  <2>2. /\ n \in DOMAIN free_indices /\ i = free_indices[n] /\ i \in DOMAIN texture_order
        /\ free_indices' \in Seq(DOMAIN texture_order)
        /\ DOMAIN free_indices' = DOMAIN free_indices \ {n}
        /\ \A j \in DOMAIN free_indices' : free_indices'[j] = free_indices[j]
    BY <1>1, <2>1, SeqFront
  <2>3. /\ texture_order' \in Seq(Textures \cup {None})
        /\ DOMAIN texture_order' = DOMAIN texture_order
        /\ \A m \in DOMAIN texture_order : texture_order'[m] = IF m = i THEN t ELSE texture_order[m]
    BY <2>1, <2>2, SeqUpdate
  <2>4. i \notin taken /\ texture_order[i] = None
    BY <2>2 DEF SlotsAccounted
  <2>7. i \in Nat \ {0} /\ taken' \subseteq DOMAIN texture_order'
    BY <2>2, <2>3
  <2>8. DOMAIN texture_order' = DOMAIN texture_order \cup {i}
    BY <2>2, <2>3
  <2>5. \A j \in DOMAIN free_indices' : free_indices'[j] # i
    BY <2>2 DEF SlotsAccounted
  <2>6. SlotsAccounted'
    <3>1. \A m \in DOMAIN texture_order' :
              m \in taken' <=> \A j \in DOMAIN free_indices' : free_indices'[j] # m
      BY <2>2, <2>3, <2>5 DEF SlotsAccounted
    <3>2. \A j, k \in DOMAIN free_indices' : free_indices'[j] = free_indices'[k] => j = k
      BY <2>2 DEF SlotsAccounted
    <3>3. \A j \in DOMAIN free_indices' : texture_order'[free_indices'[j]] = None
      BY <2>2, <2>3, <2>5 DEF SlotsAccounted
    <3> QED
      BY <3>1, <3>2, <3>3 DEF SlotsAccounted
  <2> HIDE DEF n
  <2> QED
    BY <2>2, <2>3, <2>4, <2>6, <2>7, <2>8
<1>2. CASE free_indices = <<>>
  <2>1. /\ i = Len(texture_order) + 1 /\ free_indices' = free_indices
        /\ texture_order' = Append(texture_order, t)
    BY <1>2 DEF TakeSlot
  <2>2. /\ texture_order' \in Seq(Textures \cup {None})
        /\ DOMAIN texture_order' = DOMAIN texture_order \cup {i}
        /\ \A m \in DOMAIN texture_order : texture_order'[m] = texture_order[m]
        /\ texture_order'[i] = t /\ i \notin DOMAIN texture_order /\ i \in Nat \ {0}
    BY <2>1, SeqAppend
  <2>3. DOMAIN free_indices' = {} /\ free_indices' \in Seq(DOMAIN texture_order')
    BY <1>2, <2>1
  <2>4. SlotsAccounted'
    BY <1>2, <2>1, <2>2, <2>3 DEF SlotsAccounted
  <2> QED
    BY <2>2, <2>3, <2>4
<1> QED
  BY <1>1, <1>2

LEMMA Releasing ==
  ASSUME Partition, NEW i \in DOMAIN texture_order, release_index(i),
         taken' = taken \ {i}
  PROVE  /\ DOMAIN texture_order' = DOMAIN texture_order
         /\ texture_order' \in Seq(Textures \cup {None})
         /\ \A n \in DOMAIN texture_order :
                texture_order'[n] = IF n = i THEN None ELSE texture_order[n]
         /\ texture_to_index' = [x \in Textures |->
                IF x = texture_order[i] THEN 0 ELSE texture_to_index[x]]
         /\ free_indices' \in Seq(DOMAIN texture_order')
         /\ SlotsAccounted'
<1> USE DEF Partition, BTRTypeOK
<1>1. /\ texture_order' = [texture_order EXCEPT ![i] = None]
      /\ texture_to_index' = [x \in Textures |->
             IF x = texture_order[i] THEN 0 ELSE texture_to_index[x]]
  BY DEF release_index
<1>2. /\ texture_order' \in Seq(Textures \cup {None})
      /\ DOMAIN texture_order' = DOMAIN texture_order
      /\ \A n \in DOMAIN texture_order : texture_order'[n] = IF n = i THEN None ELSE texture_order[n]
  BY <1>1, SeqUpdate
<1>3. CASE \E j \in DOMAIN free_indices : free_indices[j] = i
  <2>1. free_indices' = free_indices
    BY <1>3 DEF release_index
  <2>2. i \notin taken
    BY <1>3 DEF SlotsAccounted
  <2>3. SlotsAccounted'
    BY <1>2, <2>1, <2>2 DEF SlotsAccounted
  <2> QED
    BY <1>1, <1>2, <2>1, <2>3
<1>4. CASE \A j \in DOMAIN free_indices : free_indices[j] # i
  <2>1. free_indices' = Append(free_indices, i)
    BY <1>4 DEF release_index
  <2> DEFINE n == Len(free_indices) + 1
  <2>2. /\ free_indices' \in Seq(DOMAIN texture_order)
        /\ DOMAIN free_indices' = DOMAIN free_indices \cup {n} /\ n \notin DOMAIN free_indices
        /\ \A j \in DOMAIN free_indices : free_indices'[j] = free_indices[j]
        /\ free_indices'[n] = i
    BY <2>1, SeqAppend
  <2> HIDE DEF n
  <2>3. \A m \in DOMAIN texture_order' :
            m \in taken' <=> \A j \in DOMAIN free_indices' : free_indices'[j] # m
    <3> SUFFICES ASSUME NEW m \in DOMAIN texture_order
                 PROVE  m \in taken' <=> \A j \in DOMAIN free_indices' : free_indices'[j] # m
      BY <1>2
    <3>1. CASE m = i
      BY <3>1, <2>2
    <3>2. CASE m # i
      BY <3>2, <2>2 DEF SlotsAccounted
    <3> QED
      BY <3>1, <3>2
  <2>4. \A j, k \in DOMAIN free_indices' : free_indices'[j] = free_indices'[k] => j = k
    BY <1>4, <2>2 DEF SlotsAccounted
  <2>5. \A j \in DOMAIN free_indices' : texture_order'[free_indices'[j]] = None
    BY <1>2, <2>2 DEF SlotsAccounted
  <2>6. SlotsAccounted'
    BY <2>3, <2>4, <2>5 DEF SlotsAccounted
  <2> QED
    BY <1>1, <1>2, <2>2, <2>6
<1> QED
  BY <1>3, <1>4

LEMMA Binding ==
  ASSUME Partition, NEW i \in DOMAIN texture_order, NEW t \in Textures,
         i \in taken, bind_texture(i, t), UNCHANGED taken
  PROVE  /\ DOMAIN texture_order' = DOMAIN texture_order
         /\ texture_order' \in Seq(Textures \cup {None})
         /\ \A n \in DOMAIN texture_order :
                texture_order'[n] = IF n = i THEN t ELSE texture_order[n]
         /\ texture_to_index' = [x \in Textures |->
                IF x = t THEN i
                ELSE IF x = texture_order[i] THEN 0 ELSE texture_to_index[x]]
         /\ UNCHANGED free_indices
         /\ SlotsAccounted'
<1> USE DEF Partition, BTRTypeOK
<1>1. /\ texture_order' = [texture_order EXCEPT ![i] = t]
      /\ texture_to_index' = [x \in Textures |->
             IF x = t THEN i
             ELSE IF x = texture_order[i] THEN 0 ELSE texture_to_index[x]]
      /\ UNCHANGED free_indices
  BY DEF bind_texture
<1>2. /\ texture_order' \in Seq(Textures \cup {None})
      /\ DOMAIN texture_order' = DOMAIN texture_order
      /\ \A n \in DOMAIN texture_order : texture_order'[n] = IF n = i THEN t ELSE texture_order[n]
  BY <1>1, SeqUpdate
<1>3. SlotsAccounted'
  BY <1>1, <1>2 DEF SlotsAccounted
<1> QED
  BY <1>1, <1>2, <1>3

(* The vector and the map. A slot without a holder is empty, so the slot     *)
(* that is handed out next has no entry in the map to go stale.              *)

IInv == Partition /\ MapsAgree

LEMMA InitIInv == BTRInit => IInv
BY DEF BTRInit, RegistryInit, IInv, Partition, BTRTypeOK, MapsAgree, SlotsAccounted

LEMMA AllocateSlotStep == ASSUME IInv, AllocateSlot PROVE IInv'
<1> PICK i \in Slots : allocate_slot(i) /\ taken' = taken \cup {i}
  BY DEF AllocateSlot
<1>1. TakeSlot(i, None) /\ texture_to_index' = texture_to_index
  BY DEF allocate_slot
<1>2. /\ i \notin taken /\ i \in Nat \ {0}
      /\ DOMAIN texture_order' = DOMAIN texture_order \cup {i}
      /\ texture_order' \in Seq(Textures \cup {None})
      /\ i \in DOMAIN texture_order => texture_order[i] = None
      /\ \A n \in DOMAIN texture_order' :
             texture_order'[n] = IF n = i THEN None ELSE texture_order[n]
      /\ free_indices' \in Seq(DOMAIN texture_order')
      /\ taken' \subseteq DOMAIN texture_order'
      /\ SlotsAccounted'
  BY <1>1, Taking DEF IInv
<1>3. \A t \in Textures : texture_to_index[t] # i
  BY <1>2 DEF IInv, MapsAgree
<1>4. MapsAgree'
  BY <1>1, <1>2, <1>3, NoneIsNoTexture DEF IInv, MapsAgree
<1> QED
  BY <1>1, <1>2, <1>4 DEF IInv, Partition, BTRTypeOK

LEMMA AllocateIndexStep ==
  ASSUME IInv, NEW t \in Textures, AllocateIndex(t)  PROVE IInv'
<1> PICK i \in Slots : allocate_index(t, i) /\ taken' = taken \cup {i}
  BY DEF AllocateIndex
<1>1. CASE texture_to_index[t] # 0
  <2>1. UNCHANGED registry /\ i \in taken
    BY <1>1 DEF allocate_index, IInv, MapsAgree, Partition, BTRTypeOK
  <2>2. taken' = taken
    BY <2>1
  <2> QED
    BY <2>1, <2>2 DEF registry, IInv, Partition, BTRTypeOK, SlotsAccounted, MapsAgree
<1>2. CASE texture_to_index[t] = 0
  <2>1. TakeSlot(i, t) /\ texture_to_index' = [texture_to_index EXCEPT ![t] = i]
    BY <1>2 DEF allocate_index
  <2>2. /\ i \notin taken /\ i \in Nat \ {0}
        /\ DOMAIN texture_order' = DOMAIN texture_order \cup {i}
        /\ texture_order' \in Seq(Textures \cup {None})
        /\ i \in DOMAIN texture_order => texture_order[i] = None
        /\ \A n \in DOMAIN texture_order' :
               texture_order'[n] = IF n = i THEN t ELSE texture_order[n]
        /\ free_indices' \in Seq(DOMAIN texture_order')
        /\ taken' \subseteq DOMAIN texture_order'
        /\ SlotsAccounted'
    BY <2>1, Taking DEF IInv
  <2>3. texture_to_index' \in [Textures -> Nat]
    BY <2>1, <2>2 DEF IInv, Partition, BTRTypeOK
  <2>4. ASSUME NEW x \in Textures
        PROVE  /\ texture_to_index'[x] \in taken' \cup {0}
               /\ \A n \in DOMAIN texture_order' :
                     texture_to_index'[x] = n <=> texture_order'[n] = x
    <3>1. CASE x = t
      BY <3>1, <1>2, <2>1, <2>2 DEF IInv, MapsAgree, Partition, BTRTypeOK
    <3>2. CASE x # t
      BY <3>2, <2>1, <2>2 DEF IInv, MapsAgree, Partition, BTRTypeOK
    <3> QED
      BY <3>1, <3>2
  <2>5. MapsAgree'
    BY <2>4 DEF MapsAgree
  <2> QED
    BY <2>2, <2>3, <2>5 DEF IInv, Partition, BTRTypeOK
<1> QED
  BY <1>1, <1>2

LEMMA BindTextureStep ==
  ASSUME IInv, NEW t \in Textures, BindTexture(t)  PROVE IInv'
<1> PICK i \in taken : /\ texture_to_index[t] \in {0, i}
                      /\ bind_texture(i, t)
                      /\ UNCHANGED taken
  BY DEF BindTexture
<1>1. i \in DOMAIN texture_order /\ i \in Nat \ {0}
  BY DEF IInv, Partition, BTRTypeOK
<1>2. /\ DOMAIN texture_order' = DOMAIN texture_order
      /\ texture_order' \in Seq(Textures \cup {None})
      /\ \A n \in DOMAIN texture_order :
             texture_order'[n] = IF n = i THEN t ELSE texture_order[n]
      /\ texture_to_index' = [x \in Textures |->
             IF x = t THEN i
             ELSE IF x = texture_order[i] THEN 0 ELSE texture_to_index[x]]
      /\ UNCHANGED free_indices
      /\ SlotsAccounted'
  BY <1>1, Binding DEF IInv
<1>3. BTRTypeOK'
  BY <1>1, <1>2 DEF IInv, Partition, BTRTypeOK
<1>4. ASSUME NEW x \in Textures
      PROVE  /\ texture_to_index'[x] \in taken' \cup {0}
             /\ \A n \in DOMAIN texture_order' :
                   texture_to_index'[x] = n <=> texture_order'[n] = x
  <2>1. CASE x = t
    BY <2>1, <1>1, <1>2 DEF IInv, MapsAgree
  <2>2. CASE x # t
    BY <2>2, <1>1, <1>2 DEF IInv, MapsAgree
  <2> QED
    BY <2>1, <2>2
<1>5. MapsAgree'
  BY <1>4 DEF MapsAgree
<1> QED
  BY <1>2, <1>3, <1>5 DEF IInv, Partition

LEMMA ReleaseStep ==
  ASSUME IInv, NEW i \in DOMAIN texture_order, release_index(i), taken' = taken \ {i}
  PROVE  IInv'
<1>1. /\ DOMAIN texture_order' = DOMAIN texture_order
      /\ texture_order' \in Seq(Textures \cup {None})
      /\ \A n \in DOMAIN texture_order :
             texture_order'[n] = IF n = i THEN None ELSE texture_order[n]
      /\ texture_to_index' = [x \in Textures |->
             IF x = texture_order[i] THEN 0 ELSE texture_to_index[x]]
      /\ free_indices' \in Seq(DOMAIN texture_order')
      /\ SlotsAccounted'
  BY Releasing DEF IInv
<1>2. BTRTypeOK'
  BY <1>1 DEF IInv, Partition, BTRTypeOK
<1>3. ASSUME NEW x \in Textures
      PROVE  /\ texture_to_index'[x] \in taken' \cup {0}
             /\ \A n \in DOMAIN texture_order' :
                   texture_to_index'[x] = n <=> texture_order'[n] = x
  BY <1>1, NoneIsNoTexture DEF IInv, MapsAgree, Partition, BTRTypeOK
<1>4. MapsAgree'
  BY <1>3 DEF MapsAgree
<1> QED
  BY <1>1, <1>2, <1>4 DEF IInv, Partition

LEMMA NextIInv == ASSUME IInv, [BTRNext]_btrVars PROVE IInv'
<1>1. CASE ReleaseIndex
  <2> PICK i \in taken \cup {free_indices[j] : j \in DOMAIN free_indices} :
             release_index(i) /\ taken' = taken \ {i}
    BY <1>1 DEF ReleaseIndex
  <2>1. i \in DOMAIN texture_order
    BY DEF IInv, Partition, BTRTypeOK
  <2> QED
    BY <2>1, ReleaseStep
<1>2. ASSUME NEW t \in Textures, ReleaseTexture(t) PROVE IInv'
  <2>1. CASE texture_to_index[t] = 0
    <3>1. UNCHANGED registry /\ taken' = taken
      BY <1>2, <2>1 DEF ReleaseTexture, release_texture, IInv, Partition, BTRTypeOK
    <3> QED
      BY <3>1 DEF registry, IInv, Partition, BTRTypeOK, SlotsAccounted, MapsAgree
  <2>2. CASE texture_to_index[t] # 0
    <3>1. /\ release_index(texture_to_index[t])
          /\ taken' = taken \ {texture_to_index[t]}
          /\ texture_to_index[t] \in DOMAIN texture_order
      BY <1>2, <2>2 DEF ReleaseTexture, release_texture, IInv, Partition, BTRTypeOK, MapsAgree
    <3> QED
      BY <3>1, ReleaseStep
  <2> QED
    BY <2>1, <2>2
<1>3. CASE UNCHANGED btrVars
  BY <1>3 DEF btrVars, IInv, Partition, BTRTypeOK, SlotsAccounted, MapsAgree
<1> QED
  BY <1>1, <1>2, <1>3, AllocateSlotStep, AllocateIndexStep, BindTextureStep DEF BTRNext

LEMMA Invariance == BTRSpec => []IInv
BY InitIInv, NextIInv, PTL DEF BTRSpec

\* The types of the registry's state.
THEOREM TypeCorrect == BTRSpec => []BTRTypeOK
BY Invariance, PTL DEF IInv, Partition

\* Lookups by slot and by texture agree, and a released slot holds nothing,
\* for any number of textures.
THEOREM LookupsAgree == BTRSpec => []MapsAgree
BY Invariance, PTL DEF IInv

\* The slots given out and the free list split the array between them.
THEOREM EverySlotAccounted == BTRSpec => []SlotsAccounted
BY Invariance, PTL DEF IInv, Partition

\* allocate_slot gives a slot that nobody holds.
THEOREM NeverHandsOutTwice == BTRSpec => HandsOutFreeSlots
<1>1. IInv /\ [BTRNext]_btrVars => [\A i \in Slots : allocate_slot(i) => i \notin taken]_btrVars
  <2> SUFFICES ASSUME IInv, NEW i \in Slots, allocate_slot(i) PROVE i \notin taken
    OBVIOUS
  <2>1. CASE free_indices # <<>>
    <3>1. i = Last(free_indices) /\ free_indices \in Seq(DOMAIN texture_order)
      BY <2>1 DEF allocate_slot, TakeSlot, IInv, Partition, BTRTypeOK
    <3>2. /\ Len(free_indices) \in DOMAIN free_indices
          /\ i = free_indices[Len(free_indices)] /\ i \in DOMAIN texture_order
      BY <2>1, <3>1, SeqFront
    <3> QED
      BY <3>2 DEF IInv, Partition, SlotsAccounted
  <2>2. CASE free_indices = <<>>
    BY <2>2 DEF allocate_slot, TakeSlot, IInv, Partition, BTRTypeOK
  <2> QED
    BY <2>1, <2>2
<1> QED
  BY <1>1, Invariance, PTL DEF BTRSpec, HandsOutFreeSlots

-----------------------------------------------------------------------------
(* TextureUploads: who owns a slot.                                        *)

\* Where a caller holds the slot in its job and the cache does not.
Holding == {"reserved", "create", "created", "bound", "queued"}
Processing == {"create", "created", "bound", "queued"}

\* The slot of a job is the slot its key has in the cache.
Filed(j) == Cached(j.key) /\ textures[j.key].index = j.index

Types ==
    /\ pc \in [Threads -> Steps] /\ job \in [Threads -> Job]
    /\ requests \in Seq(Job)
    /\ returned \subseteq AllKeys \X Slots
    /\ DOMAIN textures \subseteq AllKeys
    /\ \A k \in DOMAIN textures : textures[k] \in Handle

CacheHolds ==
    \A k \in DOMAIN textures :
        /\ textures[k].index \in taken
        /\ k \in Targets => textures[k].texture # None

CallersHold ==
    \A c \in Callers : pc[c] \in Holding =>
        /\ job[c].index \in taken
        /\ \A k \in DOMAIN textures : textures[k].index # job[c].index
        /\ \A d \in Callers \ {c} :
               pc[d] \in Holding => job[d].index # job[c].index

JobsFiled ==
    /\ \A c \in Callers : pc[c] = "inserted" => Filed(job[c])
    /\ pc[GPU] # "idle" => Filed(job[GPU])
    /\ \A n \in DOMAIN requests : Filed(requests[n])

JobsSorted ==
    /\ \A c \in Callers :
        /\ pc[c] \in {"missed", "reserved", "inserted"} => job[c].key \in Keys
        /\ pc[c] \in Processing \cup {"target_missed"} => job[c].key \in Targets
    /\ pc[GPU] \in Processing \cup {"idle"}
    /\ \A t \in Threads : pc[t] \in {"created", "bound", "queued"} => job[t].texture \in Textures

TUInv == /\ Partition /\ Types /\ CacheHolds /\ SlotsNotShared
         /\ CallersHold /\ JobsFiled /\ JobsSorted /\ HandlesAgree

LEMMA TUInitInv == TUInit => TUInv
<1> SUFFICES ASSUME TUInit PROVE TUInv
  OBVIOUS
<1>1. Partition
  BY DEF TUInit, RegistryInit, Partition, BTRTypeOK, SlotsAccounted
<1>2. Types
  BY DEF TUInit, Types, Steps, Job, NoJob
<1> QED
  BY <1>1, <1>2 DEF TUInit, TUInv, CacheHolds, SlotsNotShared, CallersHold, Holding,
     JobsFiled, JobsSorted, Processing, HandlesAgree, Threads

LEMMA PutFacts ==
  ASSUME NEW f, NEW x, NEW v
  PROVE  /\ DOMAIN Put(f, x, v) = DOMAIN f \cup {x}
         /\ Put(f, x, v)[x] = v
         /\ \A y \in DOMAIN f \ {x} : Put(f, x, v)[y] = f[y]
BY DEF Put

LEMMA PartitionSame ==
  ASSUME Partition, UNCHANGED <<registry, taken>>  PROVE Partition'
BY DEF Partition, BTRTypeOK, SlotsAccounted, registry

LEMMA HitInv ==
  ASSUME TUInv, NEW c \in Callers, NEW k \in AllKeys, Cached(k),
         returned' = returned \cup {<<k, textures[k].index>>},
         UNCHANGED <<registry, taken, textures, requests, state, pending, flush, pc, job>>
  PROVE  TUInv'
<1>1. Partition'
  BY PartitionSame DEF TUInv
<1>2. Types'
  BY DEF TUInv, Types, Cached, Handle
<1>3. HandlesAgree'
  BY DEF TUInv, HandlesAgree, Cached
<1> QED
  BY <1>1, <1>2, <1>3 DEF TUInv, CacheHolds, SlotsNotShared, CallersHold, JobsFiled, Filed,
     Cached, JobsSorted

LEMMA MissInv ==
  ASSUME TUInv, NEW c \in Callers, NEW k, NEW s,
         \/ k \in Keys /\ s = "missed"
         \/ k \in Targets /\ s = "target_missed",
         Begin(c, k, 0, s), pc[c] = "idle",
         UNCHANGED <<registry, taken, textures, requests, returned, state, pending, flush>>
  PROVE  TUInv'
<1>0. /\ pc' = [pc EXCEPT ![c] = s]
      /\ job' = [job EXCEPT ![c] = [NoJob EXCEPT !.key = k, !.index = 0]]
      /\ s \in Steps \ (Holding \cup {"inserted", "created", "bound", "queued"})
      /\ c \in Threads /\ c # GPU
  BY ThreadsDiffer DEF Begin, Steps, Holding, Threads
<1>1. Partition'
  BY PartitionSame DEF TUInv
<1>2. Types'
  BY <1>0 DEF TUInv, Types, NoJob, Job, AllKeys
<1>3. CallersHold'
  BY <1>0 DEF TUInv, Types, CallersHold, Threads
<1>4. JobsFiled'
  BY <1>0 DEF TUInv, Types, JobsFiled, Filed, Cached, Threads
<1>5. JobsSorted'
  BY <1>0 DEF TUInv, Types, JobsSorted, Processing, NoJob, Threads
<1> QED
  BY <1>1, <1>2, <1>3, <1>4, <1>5 DEF TUInv, CacheHolds, SlotsNotShared, HandlesAgree, Cached

LEMMA ReserveInv == ASSUME TUInv, NEW c \in Callers, reserve(c) PROVE TUInv'
<1> PICK i \in Slots : /\ allocate_slot(i)
                      /\ taken' = taken \cup {i}
                      /\ job' = [job EXCEPT ![c].index = i]
  BY DEF reserve
<1> DEFINE s == IF pc[c] = "missed" THEN "reserved" ELSE "create"
<1>0. /\ pc[c] \in {"missed", "target_missed"}
      /\ pc' = [pc EXCEPT ![c] = s]
      /\ s \in {"reserved", "create"} /\ UNCHANGED <<textures, requests, returned>>
      /\ c \in Threads /\ c # GPU
  BY ThreadsDiffer DEF reserve, cache, Threads
<1>1. i \notin taken /\ Partition'
  <2>1. TakeSlot(i, None)
    BY DEF allocate_slot
  <2>2. /\ i \notin taken
        /\ texture_order' \in Seq(Textures \cup {None})
        /\ free_indices' \in Seq(DOMAIN texture_order')
        /\ taken' \subseteq DOMAIN texture_order'
        /\ SlotsAccounted'
    BY <2>1, Taking DEF TUInv
  <2>3. texture_to_index' \in [Textures -> Nat]
    BY DEF allocate_slot, TUInv, Partition, BTRTypeOK
  <2> QED
    BY <2>2, <2>3 DEF Partition, BTRTypeOK
<1>2. Types'
  BY <1>0 DEF TUInv, Types, Job, Steps
<1> HIDE DEF s
<1>3. CallersHold'
  <2> SUFFICES ASSUME NEW d \in Callers, pc'[d] \in Holding
               PROVE  /\ job'[d].index \in taken'
                      /\ \A k \in DOMAIN textures : textures[k].index # job'[d].index
                      /\ \A e \in Callers \ {d} :
                             pc'[e] \in Holding => job'[e].index # job'[d].index
    BY <1>0 DEF CallersHold
  <2>1. CASE d = c
    BY <2>1, <1>0, <1>1 DEF TUInv, Types, Job, CallersHold, CacheHolds, Threads
  <2>2. CASE d # c
    BY <2>2, <1>0, <1>1 DEF TUInv, Types, Job, CallersHold, CacheHolds, Threads
  <2> QED
    BY <2>1, <2>2
<1>4. JobsFiled'
  BY <1>0 DEF TUInv, Types, JobsFiled, Filed, Cached, Threads
<1>5. JobsSorted'
  <2>1. job'[c].key = job[c].key /\ \A t \in Threads \ {c} : job'[t] = job[t] /\ pc'[t] = pc[t]
    BY <1>0 DEF TUInv, Types, Job
  <2>2. /\ pc'[c] \in {"reserved", "create"}
        /\ pc'[c] = "reserved" => job[c].key \in Keys
        /\ pc'[c] = "create" => job[c].key \in Targets
    BY <1>0 DEF TUInv, Types, JobsSorted, s
  <2> QED
    BY <1>0, <2>1, <2>2 DEF TUInv, JobsSorted, Processing, Threads
<1>6. CacheHolds'
  BY <1>0 DEF TUInv, CacheHolds
<1> QED
  BY <1>0, <1>1, <1>2, <1>3, <1>4, <1>5, <1>6 DEF TUInv, SlotsNotShared, HandlesAgree, Cached

LEMMA ReturnFacts ==
  ASSUME Types, NEW c \in Callers, NEW k \in AllKeys, NEW i \in Slots, Return(c, k, i)
  PROVE  /\ pc' = [pc EXCEPT ![c] = "idle"] /\ pc' \in [Threads -> Steps]
         /\ job' = [job EXCEPT ![c] = NoJob] /\ job' \in [Threads -> Job]
         /\ returned' = returned \cup {<<k, i>>} /\ returned' \subseteq AllKeys \X Slots
         /\ c \in Threads /\ c # GPU
BY ThreadsDiffer DEF Return, Types, NoJob, Job, Steps, Threads

LEMMA EnqueueInv == ASSUME TUInv, NEW c \in Callers, enqueue(c) PROVE TUInv'
<1>0. /\ pc[c] = "inserted" /\ job[c].key \in AllKeys /\ Filed(job[c])
      /\ job[c].index \in Slots /\ job[c] \in Job
      /\ requests' = Append(requests, job[c])
      /\ UNCHANGED <<registry, taken, textures>>
  BY DEF enqueue, TUInv, Types, JobsFiled, JobsSorted, AllKeys, Filed, Cached, Handle, Threads
<1>1. /\ pc' = [pc EXCEPT ![c] = "idle"] /\ pc' \in [Threads -> Steps]
      /\ job' = [job EXCEPT ![c] = NoJob] /\ job' \in [Threads -> Job]
      /\ returned' = returned \cup {<<job[c].key, job[c].index>>}
      /\ returned' \subseteq AllKeys \X Slots
      /\ c \in Threads /\ c # GPU
  BY <1>0, ReturnFacts DEF enqueue, TUInv
<1>2. Partition'
  BY <1>0, PartitionSame DEF TUInv
<1>3. Types'
  BY <1>0, <1>1 DEF TUInv, Types
<1>4. CallersHold'
  BY <1>0, <1>1 DEF TUInv, Types, CallersHold, Threads, Holding
<1>5. JobsFiled'
  <2>1. \A j : Filed(j) => (Cached(j.key) /\ textures[j.key].index = j.index)'
    BY <1>0 DEF Filed, Cached
  <2>2. \A n \in DOMAIN requests' : Filed(requests'[n])
    BY <1>0, SeqAppend DEF TUInv, Types, JobsFiled
  <2> QED
    BY <1>0, <1>1, <2>1, <2>2 DEF TUInv, Types, JobsFiled, Filed, Threads
<1>6. JobsSorted'
  BY <1>1 DEF TUInv, Types, JobsSorted, Processing, Threads
<1>7. HandlesAgree'
  BY <1>0, <1>1 DEF TUInv, HandlesAgree, Filed, Cached
<1> QED
  BY <1>0, <1>2, <1>3, <1>4, <1>5, <1>6, <1>7 DEF TUInv, CacheHolds, SlotsNotShared

LEMMA InsertInv == ASSUME TUInv, NEW c \in Callers, insert(c) PROVE TUInv'
<1> DEFINE k == job[c].key
           h == [index |-> job[c].index, texture |-> None]
<1>0. /\ pc[c] = "reserved" /\ k \in Keys /\ k \in AllKeys
      /\ job[c].index \in taken /\ job[c].index \in Slots
      /\ c \in Threads /\ c # GPU
      /\ UNCHANGED <<registry, taken, requests>>
  <2>1. /\ pc[c] = "reserved" /\ k \in Keys /\ k \in AllKeys /\ job[c].index \in taken
        /\ c \in Threads /\ c # GPU
        /\ UNCHANGED <<registry, taken, requests>>
    BY ThreadsDiffer
    DEF insert, TUInv, JobsSorted, CallersHold, Holding, AllKeys, Threads
  <2>2. job[c].index \in Nat \ {0}
    BY <2>1 DEF TUInv, Partition, BTRTypeOK
  <2>3. job[c].index \in Slots
    BY <2>1, <2>2 DEF TUInv, Types, Job
  <2> QED
    BY <2>1, <2>3
<1>1. Partition'
  BY <1>0, PartitionSame DEF TUInv
<1>2. CASE Cached(k)
  <2>1. Return(c, k, textures[k].index) /\ UNCHANGED textures
    BY <1>2 DEF insert
  <2>2. textures[k].index \in Slots
    BY <1>2 DEF TUInv, Types, Cached, Handle
  <2>3. /\ pc' = [pc EXCEPT ![c] = "idle"] /\ pc' \in [Threads -> Steps]
        /\ job' = [job EXCEPT ![c] = NoJob] /\ job' \in [Threads -> Job]
        /\ returned' = returned \cup {<<k, textures[k].index>>}
        /\ returned' \subseteq AllKeys \X Slots
    BY <1>0, <2>1, <2>2, ReturnFacts DEF TUInv
  <2>4. Types'
    BY <1>0, <2>1, <2>3 DEF TUInv, Types
  <2>5. CallersHold'
    BY <1>0, <2>1, <2>3 DEF TUInv, Types, CallersHold, Threads, Holding
  <2>6. JobsFiled'
    BY <1>0, <2>1, <2>3 DEF TUInv, Types, JobsFiled, Filed, Cached, Threads
  <2>7. JobsSorted'
    BY <2>3 DEF TUInv, Types, JobsSorted, Processing, Threads
  <2>8. HandlesAgree'
    BY <1>2, <2>1, <2>3 DEF TUInv, HandlesAgree, Cached
  <2> QED
    BY <1>0, <1>1, <2>1, <2>4, <2>5, <2>6, <2>7, <2>8 DEF TUInv, CacheHolds, SlotsNotShared
<1>3. CASE ~Cached(k)
  <2>1. /\ textures' = Put(textures, k, h)
        /\ pc' = [pc EXCEPT ![c] = "inserted"] /\ UNCHANGED <<job, returned>>
    BY <1>3 DEF insert
  <2>2. /\ DOMAIN textures' = DOMAIN textures \cup {k}
        /\ textures'[k].index = job[c].index /\ textures'[k] \in Handle
        /\ k \notin DOMAIN textures
        /\ \A y \in DOMAIN textures : textures'[y] = textures[y]
    <3>1. k \notin DOMAIN textures /\ h \in Handle /\ h.index = job[c].index
      BY <1>0, <1>3 DEF Cached, Handle
    <3> HIDE DEF k, h
    <3> QED
      BY <2>1, <3>1 DEF Put
  <2> HIDE DEF k, h
  <2>3. Types'
    BY <1>0, <2>1, <2>2 DEF TUInv, Types, Steps
  <2>4. CacheHolds' /\ SlotsNotShared'
    BY <1>0, <2>2, KeysDiffer DEF TUInv, CacheHolds, SlotsNotShared, CallersHold, Holding
  <2>5. CallersHold'
    BY <1>0, <2>1, <2>2 DEF TUInv, Types, CallersHold, Threads, Holding
  <2>6. Filed(job[c])'
    BY <2>1, <2>2 DEF Filed, Cached, k
  <2>7. \A j : Filed(j) => (Cached(j.key) /\ textures[j.key].index = j.index)'
    BY <2>2 DEF Filed, Cached
  <2>8. JobsFiled'
    BY <1>0, <2>1, <2>6, <2>7 DEF TUInv, Types, JobsFiled, Filed, Threads
  <2>9. JobsSorted'
    BY <1>0, <2>1 DEF TUInv, Types, JobsSorted, Processing, Threads, k
  <2>10. HandlesAgree'
    BY <2>1, <2>2 DEF TUInv, HandlesAgree, Cached
  <2> QED
    BY <1>1, <2>3, <2>4, <2>5, <2>8, <2>9, <2>10 DEF TUInv
<1> QED
  BY <1>2, <1>3

LEMMA InsertTargetInv == ASSUME TUInv, NEW c \in Callers, insert_target(c) PROVE TUInv'
<1> DEFINE k == job[c].key
           i == job[c].index
           h == [index |-> i, texture |-> job[c].texture]
<1>0. /\ pc[c] = "queued" /\ k \in Targets /\ k \in AllKeys
      /\ i \in taken /\ i \in Slots /\ i \in DOMAIN texture_order
      /\ job[c].texture \in Textures
      /\ c \in Threads /\ c # GPU
      /\ UNCHANGED requests
  <2>1. /\ pc[c] = "queued" /\ k \in Targets /\ k \in AllKeys /\ i \in taken
        /\ c \in Threads /\ c # GPU
        /\ UNCHANGED requests
    BY ThreadsDiffer
    DEF insert_target, TUInv, JobsSorted, CallersHold, Holding, Processing, AllKeys, Threads
  <2>2. i \in DOMAIN texture_order /\ i \in Nat \ {0}
    BY <2>1 DEF TUInv, Partition, BTRTypeOK
  <2>3. job[c] \in Job /\ job[c].texture \in Textures
    BY <2>1 DEF TUInv, Types, JobsSorted
  <2>4. i \in Slots
    BY <2>2, <2>3 DEF Job
  <2> QED
    BY <2>1, <2>2, <2>3, <2>4
<1>1. CASE Finished(k)
  <2>0. /\ release_index(i) /\ taken' = taken \ {i}
        /\ Return(c, k, textures[k].index) /\ UNCHANGED textures
        /\ textures[k].index \in Slots /\ Cached(k)
    BY <1>1 DEF insert_target, TUInv, Types, Finished, Cached, Handle
  <2>1. /\ pc' = [pc EXCEPT ![c] = "idle"] /\ pc' \in [Threads -> Steps]
        /\ job' = [job EXCEPT ![c] = NoJob] /\ job' \in [Threads -> Job]
        /\ returned' = returned \cup {<<k, textures[k].index>>}
        /\ returned' \subseteq AllKeys \X Slots
    BY <1>0, <2>0, ReturnFacts DEF TUInv
  <2>2. Partition'
    <3>1. /\ DOMAIN texture_order' = DOMAIN texture_order
          /\ texture_order' \in Seq(Textures \cup {None})
          /\ texture_to_index' = [x \in Textures |->
                 IF x = texture_order[i] THEN 0 ELSE texture_to_index[x]]
          /\ free_indices' \in Seq(DOMAIN texture_order')
          /\ SlotsAccounted'
      BY <1>0, <2>0, Releasing DEF TUInv
    <3> QED
      BY <2>0, <3>1 DEF TUInv, Partition, BTRTypeOK
  <2>3. Types'
    BY <1>0, <2>0, <2>1 DEF TUInv, Types
  <2> HIDE DEF i, k
  <2>4. \A key \in DOMAIN textures : textures[key].index # i
    BY <1>0 DEF TUInv, CallersHold, Holding, i
  <2>5. CacheHolds' /\ SlotsNotShared'
    BY <2>0, <2>4 DEF TUInv, CacheHolds, SlotsNotShared
  <2>6. CallersHold'
    <3>1. \A d \in Callers \ {c} : pc[d] \in Holding => job[d].index # i
      BY <1>0 DEF TUInv, CallersHold, Holding, i
    <3> QED
      BY <1>0, <2>0, <2>1, <3>1 DEF TUInv, Types, CallersHold, Threads, Holding
  <2>7. JobsFiled'
    BY <1>0, <2>0, <2>1 DEF TUInv, Types, JobsFiled, Filed, Cached, Threads
  <2>8. JobsSorted'
    BY <2>1 DEF TUInv, Types, JobsSorted, Processing, Threads
  <2>9. HandlesAgree'
    BY <2>0, <2>1 DEF TUInv, HandlesAgree, Cached
  <2> QED
    BY <2>2, <2>3, <2>5, <2>6, <2>7, <2>8, <2>9 DEF TUInv
<1>2. CASE ~Finished(k)
  <2>0. /\ textures' = Put(textures, k, h) /\ Return(c, k, i)
        /\ UNCHANGED <<registry, taken>>
    BY <1>2 DEF insert_target
  <2>1. /\ pc' = [pc EXCEPT ![c] = "idle"] /\ pc' \in [Threads -> Steps]
        /\ job' = [job EXCEPT ![c] = NoJob] /\ job' \in [Threads -> Job]
        /\ returned' = returned \cup {<<k, i>>}
        /\ returned' \subseteq AllKeys \X Slots
    BY <1>0, <2>0, ReturnFacts DEF TUInv
  <2>2. Partition'
    BY <2>0, PartitionSame DEF TUInv
  <2>3. /\ DOMAIN textures' = DOMAIN textures \cup {k} /\ k \notin DOMAIN textures
        /\ textures'[k].index = i /\ textures'[k] \in Handle
        /\ textures'[k].texture # None
        /\ \A y \in DOMAIN textures : textures'[y] = textures[y]
    <3>1. k \notin DOMAIN textures
      BY <1>0, <1>2 DEF Finished, Cached, TUInv, CacheHolds
    <3>2. h \in Handle /\ h.index = i /\ h.texture # None
      BY <1>0, NoneIsNoTexture DEF Handle
    <3> HIDE DEF k, h, i
    <3> QED
      BY <2>0, <3>1, <3>2 DEF Put
  <2> HIDE DEF k, h, i
  <2>4. Types'
    BY <1>0, <2>1, <2>3 DEF TUInv, Types
  <2>5. \A key \in DOMAIN textures : textures[key].index # i
    BY <1>0 DEF TUInv, CallersHold, Holding, i
  <2>6. CacheHolds' /\ SlotsNotShared'
    BY <1>0, <2>0, <2>3, <2>5 DEF TUInv, CacheHolds, SlotsNotShared
  <2>7. CallersHold'
    <3>1. \A d \in Callers \ {c} : pc[d] \in Holding => job[d].index # i
      BY <1>0 DEF TUInv, CallersHold, Holding, i
    <3> QED
      BY <1>0, <2>0, <2>1, <2>3, <3>1 DEF TUInv, Types, CallersHold, Threads, Holding
  <2>8. \A j : Filed(j) => (Cached(j.key) /\ textures[j.key].index = j.index)'
    BY <2>3 DEF Filed, Cached
  <2>9. JobsFiled'
    BY <1>0, <2>1, <2>8 DEF TUInv, Types, JobsFiled, Filed, Threads
  <2>10. JobsSorted'
    BY <2>1 DEF TUInv, Types, JobsSorted, Processing, Threads
  <2>11. HandlesAgree'
    BY <2>1, <2>3 DEF TUInv, HandlesAgree, Cached
  <2> QED
    BY <2>2, <2>4, <2>6, <2>7, <2>9, <2>10, <2>11 DEF TUInv
<1> QED
  BY <1>1, <1>2

LEMMA DequeueInv == ASSUME TUInv, dequeue PROVE TUInv'
<1>0. /\ requests # <<>> /\ Head(requests) \in Job /\ requests' \in Seq(Job)
      /\ Filed(Head(requests))
      /\ \A n \in DOMAIN requests' : Filed(requests'[n])
      /\ job' = [job EXCEPT ![GPU] = Head(requests)]
      /\ pc' = [pc EXCEPT ![GPU] = "create"]
      /\ UNCHANGED <<registry, taken, textures, returned>>
      /\ GPU \in Threads /\ GPU \notin Callers
  BY ThreadsDiffer DEF dequeue, TUInv, Types, JobsFiled, Threads
<1>1. Partition'
  BY <1>0, PartitionSame DEF TUInv
<1>2. Types'
  BY <1>0 DEF TUInv, Types, Steps
<1>3. CallersHold'
  BY <1>0 DEF TUInv, Types, CallersHold, Threads
<1>4. JobsFiled'
  BY <1>0 DEF TUInv, Types, JobsFiled, Filed, Cached, Threads
<1>5. JobsSorted'
  BY <1>0 DEF TUInv, Types, JobsSorted, Processing, Threads
<1> QED
  BY <1>0, <1>1, <1>2, <1>3, <1>4, <1>5
  DEF TUInv, CacheHolds, SlotsNotShared, HandlesAgree, Cached

LEMMA CreateInv == ASSUME TUInv, NEW t \in Threads, create(t) PROVE TUInv'
<1> PICK x \in Textures : job' = [job EXCEPT ![t].texture = x]
  BY DEF create
<1>0. /\ pc[t] = "create" /\ pc' = [pc EXCEPT ![t] = "created"]
      /\ UNCHANGED <<registry, taken, textures, requests, returned>>
  BY DEF create, cache
<1>1. /\ job' \in [Threads -> Job] /\ pc' \in [Threads -> Steps]
      /\ job'[t].texture = x
      /\ \A d \in Threads : job'[d].key = job[d].key /\ job'[d].index = job[d].index
      /\ \A d \in Threads \ {t} : job'[d] = job[d]
  BY <1>0 DEF TUInv, Types, Job, Steps
<1>2. Partition'
  BY <1>0, PartitionSame DEF TUInv
<1>3. Types'
  BY <1>0, <1>1 DEF TUInv, Types
<1>4. CallersHold'
  BY <1>0, <1>1 DEF TUInv, Types, CallersHold, Threads, Holding
<1>5. JobsFiled'
  BY <1>0, <1>1 DEF TUInv, Types, JobsFiled, Filed, Cached, Threads
<1>6. JobsSorted'
  BY <1>0, <1>1 DEF TUInv, Types, JobsSorted, Processing, Threads
<1> QED
  BY <1>0, <1>2, <1>3, <1>4, <1>5, <1>6
  DEF TUInv, CacheHolds, SlotsNotShared, HandlesAgree, Cached

\* The steps that only move a thread on within process().
LEMMA AdvanceInv ==
  ASSUME TUInv, Partition', NEW t \in Threads, NEW s \in {"bound", "queued"},
         pc[t] \in {"created", "bound"}, pc' = [pc EXCEPT ![t] = s],
         UNCHANGED <<taken, textures, requests, returned, job>>
  PROVE  TUInv'
<1>1. Types'
  BY DEF TUInv, Types, Steps
<1>2. CallersHold'
  BY DEF TUInv, Types, CallersHold, Threads, Holding
<1>3. JobsFiled'
  BY DEF TUInv, Types, JobsFiled, Filed, Cached, Threads
<1>4. JobsSorted'
  BY DEF TUInv, Types, JobsSorted, Processing, Threads
<1> QED
  BY <1>1, <1>2, <1>3, <1>4 DEF TUInv, CacheHolds, SlotsNotShared, HandlesAgree, Cached

LEMMA BindInv == ASSUME TUInv, NEW t \in Threads, bind(t) PROVE TUInv'
<1>0. /\ pc[t] = "created" /\ pc' = [pc EXCEPT ![t] = "bound"]
      /\ bind_texture(job[t].index, job[t].texture)
      /\ UNCHANGED <<taken, textures, requests, returned, job>>
  BY DEF bind, cache
<1>1. job[t].index \in taken /\ job[t].texture \in Textures
  BY <1>0, ThreadsDiffer DEF TUInv, JobsSorted, JobsFiled, Filed, Cached, CacheHolds,
     CallersHold, Holding, Threads
<1>2. job[t].index \in DOMAIN texture_order /\ job[t].index \in Nat
  BY <1>1 DEF TUInv, Partition, BTRTypeOK
<1> DEFINE i == job[t].index
           x == job[t].texture
<1>3. /\ DOMAIN texture_order' = DOMAIN texture_order
      /\ texture_order' \in Seq(Textures \cup {None})
      /\ texture_to_index' = [y \in Textures |->
             IF y = x THEN i ELSE IF y = texture_order[i] THEN 0 ELSE texture_to_index[y]]
      /\ UNCHANGED free_indices
      /\ SlotsAccounted'
  <2> HIDE DEF i, x
  <2> QED
    BY <1>0, <1>1, <1>2, Binding DEF TUInv, i, x
<1>4. Partition'
  BY <1>0, <1>2, <1>3 DEF TUInv, Partition, BTRTypeOK
<1> QED
  BY <1>0, <1>4, AdvanceInv

LEMMA QueueInv ==
  ASSUME TUInv, NEW t \in Threads, queue_bindless_texture_update(t)  PROVE TUInv'
<1>0. /\ pc[t] = "bound" /\ pc' = [pc EXCEPT ![t] = "queued"]
      /\ UNCHANGED <<registry, taken, textures, requests, returned, job>>
  BY DEF queue_bindless_texture_update, cache
<1>1. Partition'
  BY <1>0, PartitionSame DEF TUInv
<1> QED
  BY <1>0, <1>1, AdvanceInv

LEMMA CompleteInv == ASSUME TUInv, complete_texture PROVE TUInv'
<1> DEFINE k == job[GPU].key
           x == job[GPU].texture
<1>0. /\ pc[GPU] = "queued" /\ Cached(k) /\ x \in Textures
      /\ textures' = [textures EXCEPT ![k].texture = x]
      /\ pc' = [pc EXCEPT ![GPU] = "idle"] /\ job' = [job EXCEPT ![GPU] = NoJob]
      /\ UNCHANGED <<registry, taken, requests, returned>>
      /\ GPU \in Threads /\ GPU \notin Callers
  BY ThreadsDiffer
  DEF complete_texture, TUInv, JobsFiled, Filed, JobsSorted, Threads
<1>1. /\ DOMAIN textures' = DOMAIN textures
      /\ \A y \in DOMAIN textures : /\ textures'[y] \in Handle
                                    /\ textures'[y].index = textures[y].index
                                    /\ textures'[y].texture \in {textures[y].texture, x}
  BY <1>0 DEF TUInv, Types, Handle, Cached
<1>2. Partition'
  BY <1>0, PartitionSame DEF TUInv
<1>3. Types'
  BY <1>0, <1>1 DEF TUInv, Types, Steps, NoJob, Job
<1>4. CacheHolds' /\ SlotsNotShared' /\ HandlesAgree'
  BY <1>0, <1>1, NoneIsNoTexture DEF TUInv, CacheHolds, SlotsNotShared, HandlesAgree, Cached
<1>5. CallersHold'
  BY <1>0, <1>1 DEF TUInv, Types, CallersHold, Threads
<1>6. \A j : Filed(j) => (Cached(j.key) /\ textures[j.key].index = j.index)'
  BY <1>1 DEF Filed, Cached
<1>7. JobsFiled'
  BY <1>0, <1>6 DEF TUInv, Types, JobsFiled, Filed, Threads
<1>8. JobsSorted'
  BY <1>0 DEF TUInv, Types, JobsSorted, Processing, Threads
<1> QED
  BY <1>2, <1>3, <1>4, <1>5, <1>7, <1>8 DEF TUInv

LEMMA SameInv ==
  ASSUME TUInv, UNCHANGED <<registry, taken, textures, requests, returned, pc, job>>
  PROVE  TUInv'
BY PartitionSame DEF TUInv, Types, CacheHolds, SlotsNotShared, CallersHold, JobsFiled, Filed,
   Cached, JobsSorted, HandlesAgree

LEMMA TUNextInv == ASSUME TUInv, [TUNext]_tuVars PROVE TUInv'
<1>1. ASSUME NEW c \in Callers, NEW k \in Keys,
             create_texture_hit(c, k) \/ create_texture_miss(c, k)
      PROVE  TUInv'
  BY <1>1, HitInv, MissInv DEF create_texture_hit, create_texture_miss, AllKeys
<1>2. ASSUME NEW c \in TargetCallers, NEW k \in Targets,
             create_target_hit(c, k) \/ create_target_miss(c, k)
      PROVE  TUInv'
  BY <1>2, HitInv, MissInv, ThreadsDiffer
  DEF create_target_hit, create_target_miss, AllKeys, Finished
<1>3. ASSUME NEW c \in Callers, CallerStep(c) PROVE TUInv'
  BY <1>3, ReserveInv, InsertInv, EnqueueInv, InsertTargetInv DEF CallerStep
<1>4. ASSUME NEW t \in Threads, ProcessStep(t) PROVE TUInv'
  BY <1>4, CreateInv, BindInv, QueueInv DEF ProcessStep
<1>5. CASE GPUStep
  BY <1>4, <1>5, DequeueInv, CompleteInv DEF GPUStep, Threads
<1>6. CASE create_descriptor_set \/ Flush \/ UNCHANGED tuVars
  BY <1>6, SameInv DEF create_descriptor_set, Flush, flush_begin, flush_write, flush_defer,
     flush_requeue, cache, tuVars
<1> QED
  BY <1>1, <1>2, <1>3, <1>4, <1>5, <1>6 DEF TUNext, Threads

LEMMA TUInvariance == TUSpec => []TUInv
BY TUInitInv, TUNextInv, PTL DEF TUSpec

\* However callers race on keys, no two keys of the cache are given one slot
\* of the bindless array.
THEOREM NoSharedSlots == TUSpec => []SlotsNotShared
BY TUInvariance, PTL DEF TUInv

\* Whichever caller wins a race on a key, all get a handle with the key's slot.
THEOREM EveryHandleAgrees == TUSpec => []HandlesAgree
BY TUInvariance, PTL DEF TUInv

(* The types of the state the ownership argument does not look at.           *)

Queues == /\ state \in [Textures -> {"none", "GPU_Ready", "GPU_Visible", "destroyed"}]
          /\ pending \in Seq(Update) /\ deferred \in Seq(Update)
          /\ set_exists \in BOOLEAN
          /\ DOMAIN descriptors \subseteq Slots
          /\ \A i \in DOMAIN descriptors : descriptors[i] \in Textures
          /\ calls \in [Callers -> 0 .. MaxCalls]
          /\ render \in {"idle", "write", "defer", "requeue"}

LEMMA QueuesNext == ASSUME TUInv, Queues, [TUNext]_tuVars PROVE Queues'
<1> USE DEF Queues
<1>1. ASSUME NEW c \in Callers, calls[c] > 0, calls' = [calls EXCEPT ![c] = @ - 1],
             UNCHANGED <<state, pending, flush>>
      PROVE  Queues'
  <2>1. calls' \in [Callers -> 0 .. MaxCalls]
    BY <1>1, CallsBounded
  <2> QED
    BY <1>1, <2>1 DEF flush
<1>2. ASSUME NEW c \in Callers, NEW k,
             \/ create_texture_hit(c, k) \/ create_texture_miss(c, k)
             \/ create_target_hit(c, k) \/ create_target_miss(c, k)
      PROVE  Queues'
  BY <1>1, <1>2
  DEF create_texture_hit, create_texture_miss, create_target_hit, create_target_miss, Begin
<1>3. ASSUME NEW c \in Callers, reserve(c) \/ insert(c) \/ enqueue(c) PROVE Queues'
  BY <1>3 DEF reserve, insert, enqueue, flush, cache
<1>4. ASSUME NEW c \in Callers, insert_target(c) PROVE Queues'
  BY <1>4 DEF insert_target, flush
<1>5. ASSUME NEW t \in Threads, create(t) \/ bind(t) PROVE Queues'
  BY <1>5 DEF create, bind, flush, cache
<1>6. ASSUME NEW t \in Threads, queue_bindless_texture_update(t) PROVE Queues'
  <2> DEFINE u == [index |-> job[t].index, texture |-> job[t].texture]
  <2>1. job[t].texture \in Textures
    BY <1>6 DEF queue_bindless_texture_update, TUInv, JobsSorted
  <2>2. job[t].index \in taken
    BY <1>6, ThreadsDiffer DEF queue_bindless_texture_update, TUInv, JobsSorted, JobsFiled,
       Filed, Cached, CacheHolds, CallersHold, Holding, Threads
  <2>3. job[t].index \in Nat \ {0} /\ job[t].index \in Slots \cup {0}
    BY <2>2 DEF TUInv, Types, Job, Partition, BTRTypeOK
  <2>4. u \in Update
    BY <2>1, <2>3 DEF Update
  <2>5. pending' = Append(pending, u) /\ UNCHANGED <<state, flush, calls>>
    BY <1>6 DEF queue_bindless_texture_update, cache
  <2> HIDE DEF u
  <2> QED
    BY <2>4, <2>5 DEF flush
<1>7. CASE dequeue \/ complete_texture \/ create_descriptor_set \/ flush_begin
  BY <1>7 DEF dequeue, complete_texture, create_descriptor_set, flush_begin, flush, cache
<1>8. CASE flush_write
  <2>1. CASE pending = <<>>
    BY <2>1, <1>8 DEF flush_write, cache
  <2>2. CASE pending # <<>>
    <3>1. Head(pending) \in Update /\ Tail(pending) \in Seq(Update)
      BY <2>2
    <3>2. /\ DOMAIN Written(Head(pending)) \subseteq Slots
          /\ \A i \in DOMAIN Written(Head(pending)) : Written(Head(pending))[i] \in Textures
      BY <3>1 DEF Written, Put, Update
    <3> QED
      BY <1>8, <2>2, <3>1, <3>2 DEF flush_write, Update, cache
  <2> QED
    BY <2>1, <2>2
<1>9. CASE flush_defer \/ flush_requeue
  <2>1. ASSUME NEW s \in Seq(Update), NEW r \in Seq(Update), s # <<>>
        PROVE  Append(r, Head(s)) \in Seq(Update) /\ Tail(s) \in Seq(Update)
    BY <2>1, SeqAppend
  <2>2. CASE flush_defer
    <3>1. pending' \in Seq(Update) /\ deferred' \in Seq(Update)
      BY <2>1, <2>2 DEF flush_defer
    <3> QED
      BY <2>2, <3>1 DEF flush_defer, cache
  <2>3. CASE flush_requeue
    <3>1. pending' \in Seq(Update) /\ deferred' \in Seq(Update)
      BY <2>1, <2>3 DEF flush_requeue
    <3> QED
      BY <2>3, <3>1 DEF flush_requeue, cache
  <2> QED
    BY <1>9, <2>2, <2>3
<1>10. CASE UNCHANGED tuVars
  BY <1>10 DEF tuVars
<1> HIDE DEF Queues
<1>11. ASSUME NEW t \in Threads, ProcessStep(t) PROVE Queues'
  BY <1>5, <1>6, <1>11 DEF ProcessStep
<1>12. ASSUME NEW c \in Callers, CallerStep(c) PROVE Queues'
  BY <1>3, <1>4, <1>12 DEF CallerStep
<1>13. CASE GPUStep \/ create_descriptor_set \/ Flush
  <2>1. GPU \in Threads
    BY DEF Threads
  <2>2. ProcessStep(GPU) => Queues'
    BY <2>1, <1>11
  <2>3. CASE GPUStep
    BY <1>7, <2>2, <2>3 DEF GPUStep
  <2>4. CASE create_descriptor_set \/ Flush
    BY <1>7, <1>8, <1>9, <2>4 DEF Flush
  <2> QED
    BY <1>13, <2>3, <2>4
<1> QED
  BY <1>2, <1>10, <1>11, <1>12, <1>13, ThreadsDiffer DEF TUNext, Threads

LEMMA QueuesInit == ASSUME TUInit PROVE Queues
<1>1. calls \in [Callers -> 0 .. MaxCalls]
  BY CallsBounded DEF TUInit
<1>2. DOMAIN descriptors = {}
  BY DEF TUInit
<1>3. pending \in Seq(Update) /\ deferred \in Seq(Update)
  BY DEF TUInit
<1>4. state \in [Textures -> {"none", "GPU_Ready", "GPU_Visible", "destroyed"}]
  BY DEF TUInit
<1>5. set_exists \in BOOLEAN /\ render \in {"idle", "write", "defer", "requeue"}
  BY DEF TUInit
<1> QED
  BY <1>1, <1>2, <1>3, <1>4, <1>5 DEF Queues

\* The types of every variable of TextureUploads.
THEOREM TUTypeCorrect == TUSpec => []TUTypeOK
<1>1. TUInit => Queues
  BY QueuesInit
<1>2. TUInv /\ Queues => TUTypeOK
  BY DEF TUInv, Partition, Types, Queues, TUTypeOK
<1> QED
  BY <1>1, <1>2, TUInvariance, QueuesNext, PTL DEF TUSpec

-----------------------------------------------------------------------------
(* TextureUploads: a texture is uploaded once and its slot is bound once.    *)

Waiting(j) == j.key \in Keys /\ ~Finished(j.key)

\* The upload of a key is in one place: with the caller that inserted the key,
\* in the queue or on the GPU thread.
InOnePlace ==
    /\ \A c \in Callers : pc[c] = "inserted" =>
          /\ Waiting(job[c])
          /\ \A d \in Callers \ {c} : pc[d] = "inserted" => job[d].key # job[c].key
          /\ \A n \in DOMAIN requests : requests[n].key # job[c].key
          /\ pc[GPU] # "idle" => job[GPU].key # job[c].key
    /\ \A n \in DOMAIN requests :
          /\ Waiting(requests[n])
          /\ \A m \in DOMAIN requests : requests[m].key = requests[n].key => m = n
          /\ pc[GPU] # "idle" => job[GPU].key # requests[n].key
    /\ pc[GPU] # "idle" => Waiting(job[GPU])

\* Until a request has bound its texture nothing is in its slot.
Early == {"reserved", "inserted", "create", "created"}
Empty(i) == i \in DOMAIN texture_order /\ texture_order[i] = None

Unbound ==
    /\ \A t \in Threads : pc[t] \in Early => Empty(job[t].index)
    /\ \A n \in DOMAIN requests : Empty(requests[n].index)

\* A target is made by the one thread that makes them, so none loses a race.
TargetsAlone ==
    \A c \in Callers : pc[c] \in Processing \cup {"target_missed"} =>
        c \in TargetCallers /\ ~Finished(job[c].key)

\* What is queued for the descriptors is what the registry has in the slot.
Names(u) == u.index \in DOMAIN texture_order /\ texture_order[u.index] = u.texture

UpdatesCurrent ==
    /\ \A n \in DOMAIN pending : Names(pending[n])
    /\ \A n \in DOMAIN deferred : Names(deferred[n])
    /\ \A t \in Threads : pc[t] = "bound" => Names(job[t])

\* What waits stays where it is.
LEMMA PlacesKept ==
  ASSUME InOnePlace, UNCHANGED <<textures, requests>>,
         \A c \in Callers : pc'[c] = "inserted" => pc[c] = "inserted" /\ job'[c].key = job[c].key,
         pc'[GPU] # "idle" => pc[GPU] # "idle" /\ job'[GPU].key = job[GPU].key
  PROVE  InOnePlace'
<1>1. \A k : Finished(k)' <=> Finished(k)
  BY DEF Finished, Cached
<1> QED
  BY <1>1 DEF InOnePlace, Waiting

LEMMA PlacesInsert == ASSUME TUInv, InOnePlace, NEW c \in Callers, insert(c) PROVE InOnePlace'
<1> PICK k : k = job[c].key
  OBVIOUS
<1>0. pc[c] = "reserved" /\ k \in Keys /\ requests' = requests /\ c # GPU
      /\ c \in Threads /\ pc \in [Threads -> Steps] /\ job \in [Threads -> Job] /\ Callers \subseteq Threads
      /\ GPU \in Threads
  BY ThreadsDiffer DEF insert, TUInv, JobsSorted, Types, Threads
<1>1. CASE Cached(k)
  <2>1. textures' = textures /\ pc' = [pc EXCEPT ![c] = "idle"] /\ job' = [job EXCEPT ![c] = NoJob]
    BY <1>1 DEF insert, Return
  <2> QED
    BY <1>0, <2>1, PlacesKept
<1>2. CASE ~Cached(k)
  <2>1. /\ textures' = Put(textures, k, [index |-> job[c].index, texture |-> None])
        /\ pc' = [pc EXCEPT ![c] = "inserted"] /\ job' = job
    BY <1>2 DEF insert
  <2>2. /\ DOMAIN textures' = DOMAIN textures \cup {k} /\ textures'[k].texture = None
        /\ \A y \in DOMAIN textures \ {k} : textures'[y] = textures[y]
    <3> PICK h : h = [index |-> job[c].index, texture |-> None]
      OBVIOUS
    <3>1. textures' = Put(textures, k, h) /\ h.texture = None
      BY <2>1
    <3> QED
      BY <3>1 DEF Put
  <2>3. \A y : Finished(y)' <=> Finished(y)
    BY <1>2, <2>2 DEF Finished, Cached
  <2>4. /\ \A d \in Callers : pc[d] = "inserted" => job[d].key # k
        /\ \A n \in DOMAIN requests : requests[n].key # k
        /\ pc[GPU] # "idle" => job[GPU].key # k
    BY <1>2 DEF TUInv, JobsFiled, Filed
  <2>5. ~Finished(k)
    BY <1>2 DEF Finished
  <2>6. pc'[c] = "inserted" /\ \A t \in Threads \ {c} : pc'[t] = pc[t]
    BY <1>0, <2>1
  <2>7. \A j : Waiting(j)' <=> Waiting(j)
    BY <2>3 DEF Waiting
  <2>8. Waiting(job[c])
    BY <1>0, <2>5 DEF Waiting
  <2>9. /\ \A d \in Callers : pc'[d] = "inserted" => d = c \/ pc[d] = "inserted"
        /\ pc'[GPU] = pc[GPU]
    BY <1>0, <2>6
  <2> QED
    BY <1>0, <2>1, <2>4, <2>7, <2>8, <2>9 DEF InOnePlace
<1> QED
  BY <1>1, <1>2

LEMMA PlacesInsertTarget ==
  ASSUME TUInv, InOnePlace, NEW c \in Callers, insert_target(c) PROVE InOnePlace'
<1> PICK k : k = job[c].key
  OBVIOUS
<1>0. pc[c] = "queued" /\ k \in Targets /\ k \notin Keys /\ requests' = requests /\ c # GPU
      /\ pc' = [pc EXCEPT ![c] = "idle"] /\ job' = [job EXCEPT ![c] = NoJob]
      /\ c \in Threads /\ pc \in [Threads -> Steps] /\ job \in [Threads -> Job] /\ Callers \subseteq Threads
      /\ GPU \in Threads
  BY ThreadsDiffer, KeysDiffer DEF insert_target, Return, TUInv, JobsSorted, Types, Threads, Processing
<1>1. \A y \in Keys : Finished(y)' <=> Finished(y)
  <2>1. \/ textures' = textures
        \/ textures' = Put(textures, k, [index |-> job[c].index, texture |-> job[c].texture])
    BY DEF insert_target
  <2>2. CASE textures' = Put(textures, k, [index |-> job[c].index, texture |-> job[c].texture])
    <3>1. /\ DOMAIN textures' = DOMAIN textures \cup {k}
          /\ \A y \in DOMAIN textures \ {k} : textures'[y] = textures[y]
      BY <2>2 DEF Put
    <3> QED
      BY <1>0, <3>1 DEF Finished, Cached
  <2> QED
    BY <2>1, <2>2 DEF Finished, Cached
<1>2. \A j : Waiting(j)' <=> Waiting(j)
  BY <1>1 DEF Waiting
<1>3. /\ \A d \in Callers : pc'[d] = "inserted" => pc[d] = "inserted" /\ job'[d] = job[d]
      /\ pc'[GPU] = pc[GPU] /\ job'[GPU] = job[GPU]
  BY <1>0
<1> QED
  BY <1>0, <1>2, <1>3 DEF InOnePlace

LEMMA PlacesEnqueue == ASSUME TUInv, InOnePlace, NEW c \in Callers, enqueue(c) PROVE InOnePlace'
<1>0. pc[c] = "inserted" /\ requests' = Append(requests, job[c]) /\ c # GPU
      /\ pc' = [pc EXCEPT ![c] = "idle"] /\ job' = [job EXCEPT ![c] = NoJob]
      /\ textures' = textures
      /\ c \in Threads /\ pc \in [Threads -> Steps] /\ job \in [Threads -> Job] /\ Callers \subseteq Threads
      /\ GPU \in Threads /\ requests \in Seq(Job) /\ job[c] \in Job
  BY ThreadsDiffer DEF enqueue, Return, TUInv, Types, Threads
<1>1. \A j : Waiting(j)' <=> Waiting(j)
  BY <1>0 DEF Waiting, Finished, Cached
<1>2. /\ \A d \in Callers : pc'[d] = "inserted" => d # c /\ pc[d] = "inserted" /\ job'[d] = job[d]
      /\ pc'[GPU] = pc[GPU] /\ job'[GPU] = job[GPU]
  BY <1>0
<1>3. /\ DOMAIN requests' = DOMAIN requests \cup {Len(requests) + 1}
      /\ requests'[Len(requests) + 1] = job[c]
      /\ \A n \in DOMAIN requests : requests'[n] = requests[n]
  BY <1>0
<1>4. /\ Waiting(job[c])
      /\ \A d \in Callers \ {c} : pc[d] = "inserted" => job[d].key # job[c].key
      /\ \A n \in DOMAIN requests : requests[n].key # job[c].key
      /\ pc[GPU] # "idle" => job[GPU].key # job[c].key
  BY <1>0 DEF InOnePlace
<1>5. \A d \in Callers : pc'[d] = "inserted" =>
         /\ Waiting(job[d])'
         /\ \A e \in Callers \ {d} : pc'[e] = "inserted" => job'[e].key # job'[d].key
         /\ \A n \in DOMAIN requests' : requests'[n].key # job'[d].key
         /\ pc'[GPU] # "idle" => job'[GPU].key # job'[d].key
  BY <1>1, <1>2, <1>3, <1>4 DEF InOnePlace
<1>6. \A n \in DOMAIN requests' :
         /\ Waiting(requests[n])'
         /\ \A m \in DOMAIN requests' : requests'[m].key = requests'[n].key => m = n
         /\ pc'[GPU] # "idle" => job'[GPU].key # requests'[n].key
  BY <1>1, <1>2, <1>3, <1>4 DEF InOnePlace
<1> QED
  BY <1>1, <1>2, <1>5, <1>6 DEF InOnePlace

LEMMA PlacesDequeue == ASSUME TUInv, InOnePlace, dequeue PROVE InOnePlace'
<1>0. pc[GPU] = "idle" /\ requests # <<>> /\ requests' = Tail(requests)
      /\ pc' = [pc EXCEPT ![GPU] = "create"] /\ job' = [job EXCEPT ![GPU] = Head(requests)]
      /\ textures' = textures
      /\ pc \in [Threads -> Steps] /\ job \in [Threads -> Job] /\ Callers \subseteq Threads
      /\ GPU \in Threads /\ requests \in Seq(Job) /\ GPU \notin Callers
  BY ThreadsDiffer DEF dequeue, TUInv, Types, Threads
<1>1. \A j : Waiting(j)' <=> Waiting(j)
  BY <1>0 DEF Waiting, Finished, Cached
<1>2. /\ \A d \in Callers : pc'[d] = pc[d] /\ job'[d] = job[d]
      /\ pc'[GPU] = "create" /\ job'[GPU] = requests[1]
  BY <1>0
<1>3. /\ 1 \in DOMAIN requests
      /\ \A n \in DOMAIN requests' : n \in Nat /\ n + 1 \in DOMAIN requests /\ n + 1 # 1 /\ requests'[n] = requests[n + 1]
  BY <1>0
<1>4. \A d \in Callers : pc'[d] = "inserted" =>
         /\ Waiting(job[d])'
         /\ \A e \in Callers \ {d} : pc'[e] = "inserted" => job'[e].key # job'[d].key
         /\ \A n \in DOMAIN requests' : requests'[n].key # job'[d].key
         /\ pc'[GPU] # "idle" => job'[GPU].key # job'[d].key
  BY <1>1, <1>2, <1>3 DEF InOnePlace
<1>5. \A n \in DOMAIN requests' :
         /\ Waiting(requests[n])'
         /\ \A m \in DOMAIN requests' : requests'[m].key = requests'[n].key => m = n
         /\ pc'[GPU] # "idle" => job'[GPU].key # requests'[n].key
  <2>1. \A n \in DOMAIN requests' : Waiting(requests'[n]) /\ requests'[n].key # requests[1].key
    BY <1>3 DEF InOnePlace
  <2>2. \A n, m \in DOMAIN requests' : requests'[m].key = requests'[n].key => m + 1 = n + 1
    BY <1>3 DEF InOnePlace
  <2>3. \A n, m \in DOMAIN requests' : requests'[m].key = requests'[n].key => m = n
    BY <1>3, <2>2
  <2> QED
    BY <1>1, <1>2, <2>1, <2>3
<1>6. Waiting(job[GPU])'
  BY <1>1, <1>2, <1>3 DEF InOnePlace
<1> QED
  BY <1>4, <1>5, <1>6 DEF InOnePlace

LEMMA PlacesComplete == ASSUME TUInv, InOnePlace, complete_texture PROVE InOnePlace'
<1> PICK k : k = job[GPU].key
  OBVIOUS
<1>0. pc[GPU] = "queued" /\ requests' = requests
      /\ pc' = [pc EXCEPT ![GPU] = "idle"] /\ job' = [job EXCEPT ![GPU] = NoJob]
      /\ textures' \in {textures, [textures EXCEPT ![k].texture = job[GPU].texture]}
      /\ pc \in [Threads -> Steps] /\ job \in [Threads -> Job] /\ Callers \subseteq Threads
      /\ GPU \in Threads /\ GPU \notin Callers
  BY ThreadsDiffer DEF complete_texture, TUInv, Types, Threads
<1>1. \A y : y # k => (Finished(y)' <=> Finished(y))
  BY <1>0 DEF Finished, Cached
<1>2. \A j : j.key # k => (Waiting(j)' <=> Waiting(j))
  BY <1>1 DEF Waiting
<1>3. /\ \A d \in Callers : pc'[d] = pc[d] /\ job'[d] = job[d]
      /\ pc'[GPU] = "idle"
  BY <1>0
<1>4. /\ \A d \in Callers : pc[d] = "inserted" => job[d].key # k
      /\ \A n \in DOMAIN requests : requests[n].key # k
  BY <1>0 DEF InOnePlace
<1> QED
  BY <1>0, <1>2, <1>3, <1>4 DEF InOnePlace

LEMMA PlacesNext == ASSUME TUInv, InOnePlace, [TUNext]_tuVars PROVE InOnePlace'
<1>0. pc \in [Threads -> Steps] /\ job \in [Threads -> Job] /\ Callers \subseteq Threads
      /\ GPU \in Threads /\ GPU \notin Callers
  BY ThreadsDiffer DEF TUInv, Types, Threads
<1>1. ASSUME NEW c \in Callers, NEW k,
             create_texture_hit(c, k) \/ create_target_hit(c, k) \/ create_texture_miss(c, k)
                \/ create_target_miss(c, k)
      PROVE  InOnePlace'
  <2>1. CASE create_texture_hit(c, k) \/ create_target_hit(c, k)
    BY <2>1, PlacesKept DEF create_texture_hit, create_target_hit
  <2>2. CASE create_texture_miss(c, k) \/ create_target_miss(c, k)
    BY <1>0, <2>2, PlacesKept DEF create_texture_miss, create_target_miss, Begin
  <2> QED
    BY <1>1, <2>1, <2>2
<1>2. ASSUME NEW c \in Callers, CallerStep(c) PROVE InOnePlace'
  <2>1. CASE reserve(c)
    <3>1. PICK i \in Slots : job' = [job EXCEPT ![c].index = i]
      BY <2>1 DEF reserve
    <3>2. /\ UNCHANGED <<textures, requests>>
          /\ \A d \in Callers : pc'[d] = "inserted" => pc[d] = "inserted"
          /\ pc'[GPU] = pc[GPU]
      BY <1>0, <2>1 DEF reserve, cache
    <3>3. \A t \in Threads : job'[t].key = job[t].key
      <4>1. \A t \in Threads \ {c} : job'[t] = job[t]
        BY <1>0, <3>1
      <4>2. job'[c] = [job[c] EXCEPT !.index = i]
        BY <1>0, <3>1
      <4>3. job[c] \in Job
        BY <1>0
      <4>4. job'[c].key = job[c].key
        BY <4>2, <4>3 DEF Job
      <4> QED
        BY <4>1, <4>4
    <3> QED
      BY <1>0, <3>2, <3>3, PlacesKept
  <2> QED
    BY <1>2, <2>1, PlacesInsert, PlacesEnqueue, PlacesInsertTarget DEF CallerStep
<1>3. ASSUME NEW t \in Threads, ProcessStep(t) PROVE InOnePlace'
  <2>1. /\ UNCHANGED <<textures, requests>>
        /\ \A u \in Threads : pc'[u] \in {"idle", "inserted"} <=> pc[u] \in {"idle", "inserted"}
        /\ \A u \in Threads : pc'[u] = "idle" <=> pc[u] = "idle"
        /\ \A u \in Threads : pc'[u] = "inserted" => pc[u] = "inserted"
    BY <1>0, <1>3 DEF ProcessStep, create, bind, queue_bindless_texture_update, cache
  <2>2. \A u \in Threads : job'[u].key = job[u].key
    <3>1. CASE create(t)
      <4>1. PICK x : job' = [job EXCEPT ![t].texture = x]
        BY <3>1 DEF create
      <4> QED
        BY <1>0, <4>1 DEF Job
    <3> QED
      BY <1>3, <3>1 DEF ProcessStep, bind, queue_bindless_texture_update
  <2>3. \A c \in Callers : pc'[c] = "inserted" => pc[c] = "inserted" /\ job'[c].key = job[c].key
    BY <1>0, <2>1, <2>2
  <2>4. pc'[GPU] # "idle" => pc[GPU] # "idle" /\ job'[GPU].key = job[GPU].key
    BY <1>0, <2>1, <2>2
  <2> QED
    BY <2>1, <2>3, <2>4, PlacesKept
<1>4. CASE create_descriptor_set \/ Flush \/ UNCHANGED tuVars
  BY <1>4, PlacesKept DEF create_descriptor_set, Flush, flush_begin, flush_write, flush_defer,
     flush_requeue, cache, tuVars
<1> QED
  BY <1>0, <1>1, <1>2, <1>3, <1>4, PlacesDequeue, PlacesComplete, ThreadsDiffer DEF TUNext, GPUStep

LEMMA PlacesInvariance == TUSpec => [](TUInv /\ InOnePlace)
<1>1. TUInit => InOnePlace
  BY DEF TUInit, InOnePlace, Threads
<1> QED
  BY <1>1, TUInvariance, PlacesNext, PTL DEF TUSpec

\* However callers race, the texture of a key is uploaded once, into the slot
\* of its key: its request is made by the caller whose insert came first.
THEOREM UploadsHappenOnce == TUSpec => []UploadedOnce
<1>1. TUInv /\ InOnePlace => UploadedOnce
  BY DEF TUInv, JobsFiled, Filed, InOnePlace, Waiting, UploadedOnce, SlotOf
<1> QED
  BY <1>1, PlacesInvariance, PTL

-----------------------------------------------------------------------------
(* TextureUploads: what is queued for a descriptor is what the slot holds,   *)
(* so that a key's texture, once in the array, stays. It needs one thread    *)
(* that makes render targets: see BindingsHold.                              *)

Fresh == TargetsAlone /\ Unbound /\ UpdatesCurrent
AsTarget == Processing \cup {"target_missed"}

\* No slot that has a texture changes; nothing new is queued for the array.
LEMMA FreshKept ==
  ASSUME Fresh,
         \A j \in DOMAIN texture_order :
            j \in DOMAIN texture_order' /\ texture_order'[j] = texture_order[j],
         \A y \in Targets : Finished(y)' => Finished(y),
         \A c \in Callers : pc'[c] \in AsTarget =>
            c \in TargetCallers /\ job'[c].key \in Targets /\ ~Finished(job'[c].key),
         \A t \in Threads : pc'[t] \in Early =>
            \/ pc[t] \in Early /\ job'[t].index = job[t].index
            \/ Empty(job[t].index)',
         \A n \in DOMAIN requests' : Empty(requests'[n].index),
         \A t \in Threads : pc'[t] = "bound" => pc[t] = "bound" /\ job'[t] = job[t],
         UNCHANGED <<pending, deferred>>
  PROVE  Fresh'
<1>1. TargetsAlone'
  <2>1. \A c \in Callers : pc'[c] \in AsTarget => c \in TargetCallers /\ ~Finished(job[c].key)'
    <3> SUFFICES ASSUME NEW c \in Callers, pc'[c] \in AsTarget
                 PROVE  c \in TargetCallers /\ ~Finished(job[c].key)'
      OBVIOUS
    <3> PICK k : k = job'[c].key
      OBVIOUS
    <3>1. c \in TargetCallers /\ k \in Targets /\ ~Finished(k)
      OBVIOUS
    <3>2. Finished(k)' => Finished(k)
      BY <3>1
    <3>3. Finished(job[c].key)' => Finished(k)'
      BY DEF Finished, Cached
    <3> QED
      BY <3>1, <3>2, <3>3
  <2> QED
    BY <2>1 DEF TargetsAlone, AsTarget
<1>2. \A i : Empty(i) => Empty(i)'
  BY DEF Empty
<1>3. \A u : Names(u) => Names(u)'
  BY DEF Names
<1>4. Unbound'
  <2>1. \A t \in Threads : pc'[t] \in Early => Empty(job[t].index)'
    BY <1>2 DEF Fresh, Unbound, Empty
  <2>2. \A n \in DOMAIN requests' : Empty(requests[n].index)'
    BY <1>2 DEF Empty
  <2> QED
    BY <2>1, <2>2 DEF Unbound
<1>5. UpdatesCurrent'
  BY <1>3 DEF Fresh, UpdatesCurrent, Names
<1> QED
  BY <1>1, <1>4, <1>5 DEF Fresh

LEMMA FreshFacts ==
  ASSUME TUInv, Fresh
  PROVE  /\ pc \in [Threads -> Steps] /\ job \in [Threads -> Job] /\ requests \in Seq(Job)
         /\ Callers \subseteq Threads /\ GPU \in Threads /\ GPU \notin Callers
         /\ \A c \in Callers : pc[c] \in AsTarget =>
               c \in TargetCallers /\ job[c].key \in Targets /\ ~Finished(job[c].key)
         /\ \A n \in DOMAIN requests : Empty(requests[n].index)
         /\ \A t \in Threads : pc[t] \in Early => Empty(job[t].index)
BY ThreadsDiffer DEF Fresh, TargetsAlone, Unbound, AsTarget, TUInv, Types, JobsSorted, Threads

LEMMA FreshMiss ==
  ASSUME TUInv, Fresh, NEW c \in Callers, NEW k, pc[c] = "idle",
         \/ create_texture_miss(c, k)
         \/ create_target_miss(c, k) /\ c \in TargetCallers /\ k \in Targets
  PROVE  Fresh'
<1>1. /\ UNCHANGED <<texture_order, textures, requests, pending, deferred>>
      /\ job' = [job EXCEPT ![c] = [NoJob EXCEPT !.key = k, !.index = 0]]
      /\ \/ pc' = [pc EXCEPT ![c] = "missed"]
         \/ pc' = [pc EXCEPT ![c] = "target_missed"] /\ c \in TargetCallers /\ k \in Targets
            /\ ~Finished(k)
  BY DEF create_texture_miss, create_target_miss, Begin, registry, flush
<1>2. /\ \A t \in Threads \ {c} : pc'[t] = pc[t] /\ job'[t] = job[t]
      /\ pc'[c] \in {"missed", "target_missed"}
      /\ pc'[c] = "target_missed" => c \in TargetCallers /\ k \in Targets /\ ~Finished(k)
      /\ job'[c].key = k
  BY <1>1, FreshFacts DEF NoJob
<1>3. \A d \in Callers : pc'[d] \in AsTarget =>
         d \in TargetCallers /\ job'[d].key \in Targets /\ ~Finished(job'[d].key)
  BY <1>2, FreshFacts DEF AsTarget, Processing
<1>4. \A t \in Threads : pc'[t] \in Early => pc[t] \in Early /\ job'[t].index = job[t].index
  BY <1>2 DEF Early
<1>5. \A t \in Threads : pc'[t] = "bound" => pc[t] = "bound" /\ job'[t] = job[t]
  BY <1>2
<1>6. \A y \in Targets : Finished(y)' => Finished(y)
  BY <1>1 DEF Finished, Cached
<1> QED
  BY <1>1, <1>3, <1>4, <1>5, <1>6, FreshFacts, FreshKept

LEMMA FreshReserve == ASSUME TUInv, Fresh, NEW c \in Callers, reserve(c) PROVE Fresh'
<1> PICK i \in Slots : /\ TakeSlot(i, None) /\ taken' = taken \cup {i}
                      /\ job' = [job EXCEPT ![c].index = i]
  BY DEF reserve, allocate_slot
<1>1. /\ DOMAIN texture_order' = DOMAIN texture_order \cup {i}
      /\ i \in DOMAIN texture_order => texture_order[i] = None
      /\ \A n \in DOMAIN texture_order' : texture_order'[n] = IF n = i THEN None ELSE texture_order[n]
  BY Taking DEF TUInv
<1>2. /\ \A j \in DOMAIN texture_order :
            j \in DOMAIN texture_order' /\ texture_order'[j] = texture_order[j]
      /\ Empty(i)'
  BY <1>1 DEF Empty
<1>3. /\ UNCHANGED <<textures, requests, pending, deferred>>
      /\ pc[c] \in {"missed", "target_missed"}
      /\ pc' = [pc EXCEPT ![c] = IF pc[c] = "missed" THEN "reserved" ELSE "create"]
  BY DEF reserve, cache, flush
<1>4. /\ \A t \in Threads \ {c} : pc'[t] = pc[t] /\ job'[t] = job[t]
      /\ pc'[c] \in {"reserved", "create"}
      /\ pc'[c] = "create" => pc[c] = "target_missed"
      /\ job'[c].key = job[c].key /\ job'[c].index = i
  <2>1. job'[c] = [job[c] EXCEPT !.index = i] /\ job[c] \in Job /\ c \in Threads
    BY FreshFacts
  <2>2. job'[c].key = job[c].key /\ job'[c].index = i
    BY <2>1 DEF Job
  <2> QED
    BY <1>3, <2>2, FreshFacts
<1>5. \A d \in Callers : pc'[d] \in AsTarget =>
         d \in TargetCallers /\ job'[d].key \in Targets /\ ~Finished(job'[d].key)
  BY <1>4, FreshFacts DEF AsTarget, Processing
<1>6. \A t \in Threads : pc'[t] \in Early =>
         \/ pc[t] \in Early /\ job'[t].index = job[t].index
         \/ Empty(job[t].index)'
  BY <1>2, <1>4 DEF Empty
<1>7. \A t \in Threads : pc'[t] = "bound" => pc[t] = "bound" /\ job'[t] = job[t]
  BY <1>4
<1>8. \A y \in Targets : Finished(y)' => Finished(y)
  BY <1>3 DEF Finished, Cached
<1>9. \A n \in DOMAIN requests' : Empty(requests'[n].index)
  BY <1>3, FreshFacts
<1> QED
  BY <1>2, <1>3, <1>5, <1>6, <1>7, <1>8, <1>9, FreshKept

LEMMA FreshInsert == ASSUME TUInv, Fresh, NEW c \in Callers, insert(c) PROVE Fresh'
<1> PICK k : k = job[c].key
  OBVIOUS
<1>1. /\ pc[c] = "reserved" /\ k \in Keys /\ k \notin Targets
      /\ UNCHANGED <<texture_order, requests, pending, deferred>>
  BY KeysDiffer DEF insert, TUInv, JobsSorted, registry, flush
<1>2. \/ /\ textures' = textures /\ pc' = [pc EXCEPT ![c] = "idle"]
         /\ job' = [job EXCEPT ![c] = NoJob]
      \/ /\ textures' = Put(textures, k, [index |-> job[c].index, texture |-> None])
         /\ pc' = [pc EXCEPT ![c] = "inserted"] /\ job' = job
  BY DEF insert, Return
<1>3. \A y \in Targets : Finished(y)' => Finished(y)
  BY <1>1, <1>2 DEF Finished, Cached, Put
<1>4. /\ \A t \in Threads \ {c} : pc'[t] = pc[t] /\ job'[t] = job[t]
      /\ pc'[c] \in {"idle", "inserted"}
      /\ pc'[c] = "inserted" => job'[c] = job[c]
  BY <1>2, FreshFacts
<1>5. \A d \in Callers : pc'[d] \in AsTarget =>
         d \in TargetCallers /\ job'[d].key \in Targets /\ ~Finished(job'[d].key)
  BY <1>4, FreshFacts DEF AsTarget, Processing
<1>6. \A t \in Threads : pc'[t] \in Early => pc[t] \in Early /\ job'[t].index = job[t].index
  BY <1>1, <1>4 DEF Early
<1>7. \A t \in Threads : pc'[t] = "bound" => pc[t] = "bound" /\ job'[t] = job[t]
  BY <1>4
<1> QED
  BY <1>1, <1>3, <1>5, <1>6, <1>7, FreshFacts, FreshKept

LEMMA FreshEnqueue == ASSUME TUInv, Fresh, NEW c \in Callers, enqueue(c) PROVE Fresh'
<1>1. /\ pc[c] = "inserted" /\ requests' = Append(requests, job[c]) /\ job[c] \in Job
      /\ UNCHANGED <<texture_order, textures, pending, deferred>>
      /\ pc' = [pc EXCEPT ![c] = "idle"] /\ job' = [job EXCEPT ![c] = NoJob]
  BY FreshFacts DEF enqueue, Return, registry, flush
<1>2. /\ \A t \in Threads \ {c} : pc'[t] = pc[t] /\ job'[t] = job[t]
      /\ pc'[c] = "idle"
  BY <1>1, FreshFacts
<1>3. /\ DOMAIN requests' = DOMAIN requests \cup {Len(requests) + 1}
      /\ requests'[Len(requests) + 1] = job[c]
      /\ \A n \in DOMAIN requests : requests'[n] = requests[n]
  BY <1>1, FreshFacts
<1>4. Empty(job[c].index)
  BY <1>1, FreshFacts DEF Early
<1>5. \A n \in DOMAIN requests' : Empty(requests'[n].index)
  BY <1>3, <1>4, FreshFacts
<1>6. \A d \in Callers : pc'[d] \in AsTarget =>
         d \in TargetCallers /\ job'[d].key \in Targets /\ ~Finished(job'[d].key)
  BY <1>2, FreshFacts DEF AsTarget, Processing
<1>7. \A t \in Threads : pc'[t] \in Early => pc[t] \in Early /\ job'[t].index = job[t].index
  BY <1>2 DEF Early
<1>8. \A y \in Targets : Finished(y)' => Finished(y)
  BY <1>1 DEF Finished, Cached
<1>9. \A t \in Threads : pc'[t] = "bound" => pc[t] = "bound" /\ job'[t] = job[t]
  BY <1>2
<1> QED
  BY <1>1, <1>5, <1>6, <1>7, <1>8, <1>9, FreshKept

LEMMA FreshDequeue == ASSUME TUInv, Fresh, dequeue PROVE Fresh'
<1>1. /\ requests # <<>> /\ requests' = Tail(requests)
      /\ UNCHANGED <<texture_order, textures, pending, deferred>>
      /\ pc' = [pc EXCEPT ![GPU] = "create"] /\ job' = [job EXCEPT ![GPU] = requests[1]]
  BY DEF dequeue, registry, flush
<1>2. /\ \A t \in Threads \ {GPU} : pc'[t] = pc[t] /\ job'[t] = job[t]
      /\ pc'[GPU] = "create" /\ job'[GPU] = requests[1]
  BY <1>1, FreshFacts
<1>3. /\ 1 \in DOMAIN requests
      /\ \A n \in DOMAIN requests' : n + 1 \in DOMAIN requests /\ requests'[n] = requests[n + 1]
  BY <1>1, FreshFacts
<1>4. Empty(requests[1].index)
  BY <1>3, FreshFacts
<1>5. \A n \in DOMAIN requests' : Empty(requests'[n].index)
  BY <1>3, FreshFacts
<1>6. \A d \in Callers : pc'[d] \in AsTarget =>
         d \in TargetCallers /\ job'[d].key \in Targets /\ ~Finished(job'[d].key)
  BY <1>2, FreshFacts
<1>7. \A t \in Threads : pc'[t] \in Early =>
         \/ pc[t] \in Early /\ job'[t].index = job[t].index
         \/ Empty(job[t].index)'
  BY <1>1, <1>2, <1>4 DEF Empty
<1>8. \A y \in Targets : Finished(y)' => Finished(y)
  BY <1>1 DEF Finished, Cached
<1>9. \A t \in Threads : pc'[t] = "bound" => pc[t] = "bound" /\ job'[t] = job[t]
  BY <1>2
<1>10. \A j \in DOMAIN texture_order :
          j \in DOMAIN texture_order' /\ texture_order'[j] = texture_order[j]
  BY <1>1
<1> QED
  BY <1>1, <1>5, <1>6, <1>7, <1>8, <1>9, <1>10, FreshKept

LEMMA FreshCreate == ASSUME TUInv, Fresh, NEW t \in Threads, create(t) PROVE Fresh'
<1> PICK x : job' = [job EXCEPT ![t].texture = x]
  BY DEF create
<1>1. /\ pc[t] = "create" /\ pc' = [pc EXCEPT ![t] = "created"]
      /\ UNCHANGED <<texture_order, textures, requests, pending, deferred>>
  BY DEF create, registry, cache, flush
<1>2. /\ \A u \in Threads \ {t} : pc'[u] = pc[u] /\ job'[u] = job[u]
      /\ pc'[t] = "created" /\ job'[t].key = job[t].key /\ job'[t].index = job[t].index
  <2>1. job'[t] = [job[t] EXCEPT !.texture = x] /\ job[t] \in Job
    BY FreshFacts
  <2>2. job'[t].key = job[t].key /\ job'[t].index = job[t].index
    BY <2>1 DEF Job
  <2> QED
    BY <1>1, <2>2, FreshFacts
<1>3. \A d \in Callers : pc'[d] \in AsTarget =>
         d \in TargetCallers /\ job'[d].key \in Targets /\ ~Finished(job'[d].key)
  BY <1>1, <1>2, FreshFacts DEF AsTarget, Processing
<1>4. \A u \in Threads : pc'[u] \in Early => pc[u] \in Early /\ job'[u].index = job[u].index
  BY <1>1, <1>2 DEF Early
<1>5. \A y \in Targets : Finished(y)' => Finished(y)
  BY <1>1 DEF Finished, Cached
<1>6. \A u \in Threads : pc'[u] = "bound" => pc[u] = "bound" /\ job'[u] = job[u]
  BY <1>2
<1> QED
  BY <1>1, <1>3, <1>4, <1>5, <1>6, FreshFacts, FreshKept

\* The slot of a request that is processed is in no other request.
LEMMA SlotIsOwn ==
  ASSUME TUInv, InOnePlace, NEW t \in Threads, pc[t] \in Processing
  PROVE  /\ job[t].index \in taken
         /\ \A u \in Threads \ {t} :
               pc[u] \in Early \cup {"bound", "queued"} => job[u].index # job[t].index
         /\ \A n \in DOMAIN requests : requests[n].index # job[t].index
<1>1. CASE t = GPU
  <2> PICK k : k = job[GPU].key
    OBVIOUS
  <2>1. /\ k \in DOMAIN textures /\ textures[k].index = job[t].index /\ pc[GPU] # "idle"
    BY <1>1 DEF TUInv, JobsFiled, Filed, Cached, Processing
  <2>2. job[t].index \in taken
    BY <2>1 DEF TUInv, CacheHolds
  <2>3. \A c \in Callers : pc[c] \in Holding => job[c].index # job[t].index
    BY <2>1 DEF TUInv, CallersHold
  <2>4. \A c \in Callers : pc[c] = "inserted" => job[c].index # job[t].index
    BY <2>1 DEF TUInv, JobsFiled, Filed, Cached, SlotsNotShared, InOnePlace
  <2>5. \A n \in DOMAIN requests : requests[n].index # job[t].index
    BY <2>1 DEF TUInv, JobsFiled, Filed, Cached, SlotsNotShared, InOnePlace
  <2> QED
    BY <1>1, <2>2, <2>3, <2>4, <2>5 DEF Threads, Holding, Early
<1>2. CASE t \in Callers
  <2>1. /\ pc[t] \in Holding /\ job[t].index \in taken
        /\ \A k \in DOMAIN textures : textures[k].index # job[t].index
        /\ \A d \in Callers \ {t} : pc[d] \in Holding => job[d].index # job[t].index
    BY <1>2 DEF TUInv, CallersHold, Holding, Processing
  <2>2. \A c \in Callers : pc[c] = "inserted" => job[c].index # job[t].index
    BY <2>1 DEF TUInv, JobsFiled, Filed, Cached
  <2>3. pc[GPU] # "idle" => job[GPU].index # job[t].index
    BY <2>1 DEF TUInv, JobsFiled, Filed, Cached
  <2>4. \A n \in DOMAIN requests : requests[n].index # job[t].index
    BY <2>1 DEF TUInv, JobsFiled, Filed, Cached
  <2> QED
    BY <1>2, <2>1, <2>2, <2>3, <2>4 DEF Threads, Holding, Early
<1> QED
  BY <1>1, <1>2 DEF Threads

\* Where a texture is bound nothing was.
LEMMA BindFacts ==
  ASSUME TUInv, Queues, InOnePlace, Fresh, NEW t \in Threads, bind(t)
  PROVE  /\ Empty(job[t].index) /\ DOMAIN texture_order' = DOMAIN texture_order
         /\ texture_order'[job[t].index] = job[t].texture
         /\ \A j \in DOMAIN texture_order \ {job[t].index} : texture_order'[j] = texture_order[j]
<1>1. Empty(job[t].index)
  BY FreshFacts DEF bind, Early
<1>2. texture_order' = [texture_order EXCEPT ![job[t].index] = job[t].texture]
  BY <1>1 DEF bind, bind_texture, Empty
<1> QED
  BY <1>1, <1>2 DEF Empty

LEMMA FreshBind ==
  ASSUME TUInv, Queues, InOnePlace, Fresh, NEW t \in Threads, bind(t)  PROVE Fresh'
<1> PICK i : i = job[t].index
  OBVIOUS
<1>1. /\ pc[t] = "created" /\ pc' = [pc EXCEPT ![t] = "bound"]
      /\ UNCHANGED <<textures, requests, pending, deferred, job>>
  BY DEF bind, cache, flush
<1>2. /\ \A u \in Threads \ {t} : pc'[u] = pc[u]
      /\ pc'[t] = "bound"
  BY <1>1, FreshFacts
<1>3. /\ \A u \in Threads \ {t} :
            pc[u] \in Early \cup {"bound", "queued"} => job[u].index # i
      /\ \A n \in DOMAIN requests : requests[n].index # i
  BY <1>1, SlotIsOwn DEF Processing
<1>4. \A u : Empty(u) /\ u # i => Empty(u)'
  BY BindFacts DEF Empty
<1>5. \A u : Names(u) /\ u.index # i => Names(u)'
  BY BindFacts DEF Names
<1>6. TargetsAlone'
  BY <1>1, <1>2 DEF Fresh, TargetsAlone, Finished, Cached, Processing
<1>7. Unbound'
  <2>1. \A u \in Threads : pc'[u] \in Early => Empty(job[u].index)'
    <3> SUFFICES ASSUME NEW u \in Threads, pc'[u] \in Early PROVE Empty(job[u].index)'
      OBVIOUS
    <3>1. u # t /\ pc[u] \in Early
      BY <1>2 DEF Early
    <3>2. Empty(job[u].index) /\ job[u].index # i
      BY <1>3, <3>1, FreshFacts
    <3> QED
      BY <1>1, <1>4, <3>2 DEF Empty
  <2>2. \A n \in DOMAIN requests' : Empty(requests[n].index)'
    BY <1>1, <1>3, <1>4, FreshFacts DEF Empty
  <2> QED
    BY <2>1, <2>2 DEF Unbound
<1>8. UpdatesCurrent'
  <2>1. \A u : Names(u) /\ u.texture \in Textures => Names(u)'
    <3> SUFFICES ASSUME NEW u, Names(u), u.texture \in Textures PROVE Names(u)'
      OBVIOUS
    <3>1. texture_order[i] = None
      BY BindFacts DEF Empty
    <3>2. u.index # i
      BY <3>1, NoneIsNoTexture DEF Names
    <3> QED
      BY <1>5, <3>2
  <2>2. /\ \A n \in DOMAIN pending : pending[n].texture \in Textures
        /\ \A n \in DOMAIN deferred : deferred[n].texture \in Textures
    <3>1. \A u \in Update : u.texture \in Textures
      BY DEF Update
    <3>2. /\ \A n \in DOMAIN pending : pending[n] \in Update
          /\ \A n \in DOMAIN deferred : deferred[n] \in Update
      BY DEF Queues
    <3> QED
      BY <3>1, <3>2
  <2>3. \A n \in DOMAIN pending' : Names(pending[n])'
    BY <1>1, <2>1, <2>2 DEF Fresh, UpdatesCurrent, Names
  <2>4. \A n \in DOMAIN deferred' : Names(deferred[n])'
    BY <1>1, <2>1, <2>2 DEF Fresh, UpdatesCurrent, Names
  <2>5. \A u \in Threads : pc'[u] = "bound" => Names(job[u])'
    <3>1. Names(job[t])'
      BY <1>1, BindFacts DEF Names, Empty
    <3>2. ASSUME NEW u \in Threads \ {t}, pc'[u] = "bound" PROVE Names(job[u])'
      <4>1. Names(job[u]) /\ job[u].index # i
        BY <1>2, <1>3, <3>2 DEF Fresh, UpdatesCurrent
      <4> QED
        BY <1>1, <1>5, <4>1 DEF Names
    <3> QED
      BY <3>1, <3>2
  <2> QED
    BY <2>3, <2>4, <2>5 DEF UpdatesCurrent
<1> QED
  BY <1>6, <1>7, <1>8 DEF Fresh

LEMMA FreshQueue ==
  ASSUME TUInv, Queues, Queues', Fresh, NEW t \in Threads, queue_bindless_texture_update(t)
  PROVE  Fresh'
<1> PICK u : u = [index |-> job[t].index, texture |-> job[t].texture]
  OBVIOUS
<1>1. /\ pc[t] = "bound" /\ pc' = [pc EXCEPT ![t] = "queued"]
      /\ pending' = Append(pending, u)
      /\ UNCHANGED <<texture_order, textures, requests, deferred, job>>
  BY DEF queue_bindless_texture_update, registry, cache, flush
<1>2. /\ \A v \in Threads \ {t} : pc'[v] = pc[v]
      /\ pc'[t] = "queued"
  BY <1>1, FreshFacts
<1>3. Names(u)
  <2>1. u.index = job[t].index /\ u.texture = job[t].texture
    OBVIOUS
  <2> QED
    BY <1>1, <2>1 DEF Fresh, UpdatesCurrent, Names
<1>4. \A n \in DOMAIN pending' : pending'[n] = u \/ (n \in DOMAIN pending /\ pending'[n] = pending[n])
  <2>1. pending \in Seq(Update) /\ pending' \in Seq(Update)
    BY DEF Queues
  <2>2. DOMAIN pending' = DOMAIN pending \cup {Len(pending) + 1}
    BY <1>1, <2>1
  <2>3. /\ pending'[Len(pending) + 1] = u
        /\ \A n \in DOMAIN pending : pending'[n] = pending[n]
    BY <1>1, <2>1
  <2> SUFFICES ASSUME NEW n \in DOMAIN pending'
               PROVE  pending'[n] = u \/ (n \in DOMAIN pending /\ pending'[n] = pending[n])
    OBVIOUS
  <2>4. n = Len(pending) + 1 \/ n \in DOMAIN pending
    BY <2>2
  <2> QED
    BY <2>3, <2>4
<1>5. TargetsAlone'
  BY <1>1, <1>2 DEF Fresh, TargetsAlone, Finished, Cached, Processing
<1>6. Unbound'
  BY <1>1, <1>2 DEF Fresh, Unbound, Empty, Early
<1>7. UpdatesCurrent'
  BY <1>1, <1>2, <1>3, <1>4 DEF Fresh, UpdatesCurrent, Names
<1> QED
  BY <1>5, <1>6, <1>7 DEF Fresh

\* A target finds its key still without a texture: it does not lose a race.
LEMMA TargetFacts ==
  ASSUME TUInv, Fresh, NEW c \in Callers, insert_target(c)
  PROVE  /\ pc[c] = "queued" /\ job[c].key \in Targets /\ ~Cached(job[c].key)
         /\ textures' = Put(textures, job[c].key,
                            [index |-> job[c].index, texture |-> job[c].texture])
         /\ pc' = [pc EXCEPT ![c] = "idle"] /\ job' = [job EXCEPT ![c] = NoJob]
         /\ UNCHANGED <<registry, taken, requests, pending, flush>>
<1>1. pc[c] = "queued"
  BY DEF insert_target
<1>2. job[c].key \in Targets /\ ~Finished(job[c].key)
  BY <1>1, FreshFacts DEF AsTarget, Processing
<1>3. ~Cached(job[c].key)
  BY <1>2 DEF Finished, Cached, TUInv, CacheHolds
<1> QED
  BY <1>1, <1>2, <1>3 DEF insert_target, Return

LEMMA FreshInsertTarget ==
  ASSUME TUInv, Fresh, \A c, d \in TargetCallers : c = d, NEW c \in Callers, insert_target(c)
  PROVE  Fresh'
<1>1. /\ \A t \in Threads \ {c} : pc'[t] = pc[t] /\ job'[t] = job[t]
      /\ pc'[c] = "idle"
  BY TargetFacts, FreshFacts
<1>2. UNCHANGED <<texture_order, requests, pending, deferred>>
  BY TargetFacts DEF registry, flush
<1>3. \A d \in Callers : pc'[d] \notin AsTarget
  <2>1. c \in TargetCallers
    BY TargetFacts, FreshFacts DEF AsTarget, Processing
  <2> QED
    BY <1>1, <2>1, FreshFacts DEF AsTarget, Processing
<1>4. TargetsAlone'
  BY <1>3 DEF TargetsAlone, AsTarget
<1>5. Unbound'
  BY <1>1, <1>2 DEF Fresh, Unbound, Empty, Early
<1>6. UpdatesCurrent'
  BY <1>1, <1>2 DEF Fresh, UpdatesCurrent, Names
<1> QED
  BY <1>4, <1>5, <1>6 DEF Fresh

\* The key whose upload is done is cached, and keeps its slot.
LEMMA CompleteFacts ==
  ASSUME TUInv, InOnePlace, complete_texture
  PROVE  /\ job[GPU].key \in Keys
         /\ DOMAIN textures' = DOMAIN textures
         /\ \A k \in DOMAIN textures : textures'[k].index = textures[k].index
         /\ \A k \in Targets : Finished(k)' <=> Finished(k)
<1> PICK k : k = job[GPU].key
  OBVIOUS
<1> PICK x : x = job[GPU].texture
  OBVIOUS
<1>1. k \in Keys /\ Cached(k) /\ k \notin Targets
  BY KeysDiffer DEF complete_texture, TUInv, JobsFiled, Filed, InOnePlace, Waiting
<1>2. textures' = [textures EXCEPT ![k].texture = x]
  BY <1>1 DEF complete_texture
<1>3. textures[k] \in Handle
  BY <1>1 DEF TUInv, Types, Cached
<1>4. textures'[k].index = textures[k].index
  BY <1>1, <1>2, <1>3 DEF Cached, Handle
<1>5. \A y \in DOMAIN textures \ {k} : textures'[y] = textures[y]
  BY <1>2
<1> QED
  BY <1>1, <1>2, <1>4, <1>5 DEF Finished, Cached

LEMMA FreshComplete == ASSUME TUInv, InOnePlace, Fresh, complete_texture PROVE Fresh'
<1>1. /\ UNCHANGED <<texture_order, requests, pending, deferred>>
      /\ pc' = [pc EXCEPT ![GPU] = "idle"] /\ job' = [job EXCEPT ![GPU] = NoJob]
  BY DEF complete_texture, registry, flush
<1>2. /\ \A t \in Threads \ {GPU} : pc'[t] = pc[t] /\ job'[t] = job[t]
      /\ pc'[GPU] = "idle"
  BY <1>1, FreshFacts
<1>3. TargetsAlone'
  <2> SUFFICES ASSUME NEW c \in Callers, pc'[c] \in AsTarget
               PROVE  c \in TargetCallers /\ ~Finished(job[c].key)'
    BY DEF TargetsAlone, AsTarget
  <2> PICK k : k = job[c].key
    OBVIOUS
  <2>1. pc[c] \in AsTarget /\ job'[c] = job[c]
    BY <1>2, FreshFacts
  <2>2. c \in TargetCallers /\ k \in Targets /\ ~Finished(k)
    BY <2>1, FreshFacts
  <2>3. ~Finished(k)'
    BY <2>2, CompleteFacts
  <2> QED
    BY <2>1, <2>2, <2>3 DEF Finished, Cached
<1>4. Unbound'
  BY <1>1, <1>2 DEF Fresh, Unbound, Empty, Early
<1>5. UpdatesCurrent'
  BY <1>1, <1>2 DEF Fresh, UpdatesCurrent, Names
<1> QED
  BY <1>3, <1>4, <1>5 DEF Fresh

LEMMA FreshFlush == ASSUME TUInv, Queues, Queues', Fresh, Flush PROVE Fresh'
<1>1. UNCHANGED <<texture_order, textures, requests, pc, job>>
  BY DEF Flush, flush_begin, flush_write, flush_defer, flush_requeue, registry, cache
<1>2. \/ UNCHANGED <<pending, deferred>>
      \/ pending # <<>> /\ pending' = Tail(pending) /\ deferred' = deferred
      \/ pending # <<>> /\ pending' = Tail(pending) /\ deferred' = Append(deferred, Head(pending))
      \/ deferred # <<>> /\ deferred' = Tail(deferred) /\ pending' = Append(pending, Head(deferred))
  BY DEF Flush, flush_begin, flush_write, flush_defer, flush_requeue
<1>3. /\ \A n \in DOMAIN pending : Names(pending[n])
      /\ \A n \in DOMAIN deferred : Names(deferred[n])
  BY DEF Fresh, UpdatesCurrent
<1>4. /\ \A n \in DOMAIN pending' : Names(pending'[n])
      /\ \A n \in DOMAIN deferred' : Names(deferred'[n])
  <2>1. ASSUME NEW s \in Seq(Update), NEW n \in DOMAIN Tail(s), s # <<>>
        PROVE  \E m \in DOMAIN s : Tail(s)[n] = s[m]
    <3>1. n + 1 \in DOMAIN s /\ Tail(s)[n] = s[n + 1]
      BY <2>1
    <3> QED
      BY <3>1
  <2>2. ASSUME NEW s \in Seq(Update), NEW r \in Seq(Update), NEW n \in DOMAIN Append(s, Head(r)),
               r # <<>>
        PROVE  \/ \E m \in DOMAIN s : Append(s, Head(r))[n] = s[m]
               \/ \E m \in DOMAIN r : Append(s, Head(r))[n] = r[m]
    <3>1. 1 \in DOMAIN r /\ Head(r) = r[1] /\ r[1] \in Update
      BY <2>2
    <3>2. n \in DOMAIN s \cup {Len(s) + 1}
      BY <3>1, <2>2, SeqAppend
    <3>3. CASE n \in DOMAIN s
      BY <3>1, <3>3, SeqAppend
    <3>4. CASE n = Len(s) + 1
      BY <3>1, <3>4, SeqAppend
    <3> QED
      BY <3>2, <3>3, <3>4
  <2>3. pending \in Seq(Update) /\ deferred \in Seq(Update)
    BY DEF Queues
  <2>4. CASE UNCHANGED <<pending, deferred>>
    BY <1>3, <2>4
  <2>5. CASE pending # <<>> /\ pending' = Tail(pending) /\ deferred' = deferred
    BY <1>3, <2>1, <2>3, <2>5
  <2>6. CASE pending # <<>> /\ pending' = Tail(pending) /\ deferred' = Append(deferred, Head(pending))
    <3>1. \A n \in DOMAIN pending' : Names(pending'[n])
      BY <1>3, <2>1, <2>3, <2>6
    <3>2. \A n \in DOMAIN deferred' : Names(deferred'[n])
      BY <1>3, <2>2, <2>3, <2>6
    <3> QED
      BY <3>1, <3>2
  <2>7. CASE deferred # <<>> /\ deferred' = Tail(deferred) /\ pending' = Append(pending, Head(deferred))
    <3>1. \A n \in DOMAIN deferred' : Names(deferred'[n])
      BY <1>3, <2>1, <2>3, <2>7
    <3>2. \A n \in DOMAIN pending' : Names(pending'[n])
      BY <1>3, <2>2, <2>3, <2>7
    <3> QED
      BY <3>1, <3>2
  <2> QED
    BY <1>2, <2>4, <2>5, <2>6, <2>7
<1> QED
  BY <1>1, <1>4 DEF Fresh, TargetsAlone, Unbound, UpdatesCurrent, Finished, Cached, Empty, Names

TUBound == TUInv /\ Queues /\ InOnePlace /\ Fresh

LEMMA FreshSame ==
  ASSUME Fresh, UNCHANGED <<texture_order, textures, requests, pending, deferred, pc, job>>
  PROVE  Fresh'
BY DEF Fresh, TargetsAlone, Unbound, UpdatesCurrent, Finished, Cached, Empty, Names

LEMMA FreshNext ==
  ASSUME TUBound, TUInv', Queues', \A c, d \in TargetCallers : c = d, [TUNext]_tuVars
  PROVE  Fresh'
<1> USE DEF TUBound
<1>1. ASSUME NEW c \in Callers, NEW k, create_texture_hit(c, k) \/ create_target_hit(c, k)
      PROVE  Fresh'
  BY <1>1, FreshSame DEF create_texture_hit, create_target_hit, registry, flush
<1>2. ASSUME NEW c \in Callers, NEW k \in Keys, create_texture_miss(c, k) PROVE Fresh'
  BY <1>2, FreshMiss DEF create_texture_miss
<1>3. ASSUME NEW c \in TargetCallers, NEW k \in Targets, create_target_miss(c, k) PROVE Fresh'
  BY <1>3, FreshMiss, ThreadsDiffer DEF create_target_miss
<1>4. ASSUME NEW c \in Callers, CallerStep(c) PROVE Fresh'
  BY <1>4, FreshReserve, FreshInsert, FreshEnqueue, FreshInsertTarget DEF CallerStep
<1>5. ASSUME NEW t \in Threads, ProcessStep(t) PROVE Fresh'
  BY <1>5, FreshCreate, FreshBind, FreshQueue DEF ProcessStep
<1>6. CASE create_descriptor_set \/ UNCHANGED tuVars
  BY <1>6, FreshSame DEF create_descriptor_set, cache, registry, tuVars
<1>7. CASE Flush
  BY <1>7, FreshFlush
<1>8. CASE GPUStep
  BY <1>5, <1>8, FreshDequeue, FreshComplete DEF GPUStep, Threads
<1> QED
  BY <1>1, <1>2, <1>3, <1>4, <1>5, <1>6, <1>7, <1>8, ThreadsDiffer DEF TUNext, Threads

LEMMA BoundFacts ==
  ASSUME TUBound
  PROVE  /\ \A k \in AllKeys : Cached(k) <=> SlotOf(k) # 0
         /\ \A k \in AllKeys : SlotOf(k) # 0 =>
               /\ SlotOf(k) \in Slots /\ SlotOf(k) \in taken
               /\ SlotOf(k) \in DOMAIN texture_order
               /\ \A o \in AllKeys : SlotOf(o) = SlotOf(k) => o = k
         /\ 0 \notin DOMAIN descriptors
<1>1. 0 \notin Slots
  BY DEF Slots
<1>2. \A k \in DOMAIN textures :
         /\ textures[k].index \in Slots /\ textures[k].index \in taken
         /\ textures[k].index \in DOMAIN texture_order
  BY DEF TUBound, TUInv, Types, Handle, CacheHolds, Partition, BTRTypeOK
<1>3. \A k \in AllKeys : IF Cached(k) THEN SlotOf(k) = textures[k].index ELSE SlotOf(k) = 0
  BY DEF SlotOf
<1>4. \A k \in AllKeys : Cached(k) <=> SlotOf(k) # 0
  BY <1>1, <1>2, <1>3 DEF Cached
<1>5. \A k \in AllKeys : SlotOf(k) # 0 => k \in DOMAIN textures /\ SlotOf(k) = textures[k].index
  BY <1>3, <1>4 DEF Cached
<1>6. \A k, o \in AllKeys : SlotOf(k) # 0 /\ SlotOf(o) = SlotOf(k) => o = k
  BY <1>5 DEF TUBound, TUInv, SlotsNotShared
<1>7. 0 \notin DOMAIN descriptors
  BY <1>1 DEF TUBound, Queues
<1> QED
  BY <1>2, <1>4, <1>5, <1>6, <1>7

\* Whether a key is shown depends on its own slot only.
LEMMA ShownKept ==
  ASSUME TUBound, TUBound', NEW k \in AllKeys, SlotOf(k)' = SlotOf(k),
         SlotOf(k) # 0 => texture_order'[SlotOf(k)] = texture_order[SlotOf(k)],
         SlotOf(k) \in DOMAIN descriptors' <=> SlotOf(k) \in DOMAIN descriptors,
         SlotOf(k) \in DOMAIN descriptors => descriptors'[SlotOf(k)] = descriptors[SlotOf(k)]
  PROVE  (k \in Shown)' <=> k \in Shown
<1>1. 0 \notin DOMAIN descriptors
  BY BoundFacts
<1> QED
  BY <1>1 DEF Shown

LEMMA MapsSame ==
  ASSUME \A k \in AllKeys : SlotOf(k)' = SlotOf(k),
         \A k \in AllKeys : (k \in Shown)' <=> k \in Shown
  PROVE  UNCHANGED TB!tbVars
<1>1. Shown' = Shown
  BY DEF Shown
<1>2. [k \in AllKeys |-> SlotOf(k)]' = [k \in AllKeys |-> SlotOf(k)]
  OBVIOUS
<1> QED
  BY <1>1, <1>2 DEF TB!tbVars

LEMMA MapsShow ==
  ASSUME \A o \in AllKeys : SlotOf(o)' = SlotOf(o),
         NEW k \in AllKeys, SlotOf(k) # 0, (k \in Shown)',
         \A o \in AllKeys \ {k} : (o \in Shown)' <=> o \in Shown
  PROVE  TB!Next
<1>1. Shown' = Shown \cup {k}
  BY DEF Shown
<1>2. [o \in AllKeys |-> SlotOf(o)]' = [o \in AllKeys |-> SlotOf(o)]
  OBVIOUS
<1>3. TB!Show(k)
  BY <1>1, <1>2 DEF TB!Show
<1> QED
  BY <1>3 DEF TB!Next

LEMMA MapsAssign ==
  ASSUME NEW k \in AllKeys, NEW i \in Slots, SlotOf(k) = 0, SlotOf(k)' = i,
         \A o \in AllKeys : SlotOf(o) # i,
         \A o \in AllKeys \ {k} : SlotOf(o)' = SlotOf(o),
         \A o \in AllKeys \ {k} : (o \in Shown)' <=> o \in Shown,
         k \notin Shown
  PROVE  TB!Next
<1> PICK f : f = [o \in AllKeys |-> SlotOf(o)]
  OBVIOUS
<1>1. [o \in AllKeys |-> SlotOf(o)]' = [f EXCEPT ![k] = i]
  OBVIOUS
<1> PICK s : s = IF (k \in Shown)' THEN {k} ELSE {}
  OBVIOUS
<1>2. Shown' = Shown \cup s /\ s \in SUBSET {k}
  BY DEF Shown
<1>3. TB!Assign(k, i, s)
  BY <1>1, <1>2 DEF TB!Assign
<1> QED
  BY <1>2, <1>3 DEF TB!Next

\* A step that leaves the slots of the keys, what they hold and the descriptors.
LEMMA MapsKept ==
  ASSUME TUBound, TUBound', \A k \in AllKeys : SlotOf(k)' = SlotOf(k),
         \A j \in DOMAIN texture_order : texture_order'[j] = texture_order[j],
         UNCHANGED descriptors
  PROVE  UNCHANGED TB!tbVars
<1>1. \A k \in AllKeys : (k \in Shown)' <=> k \in Shown
  BY BoundFacts, ShownKept
<1> QED
  BY <1>1, MapsSame

\* A key gets its slot: the caller's own, where no other key has it.
LEMMA MapsInsert ==
  ASSUME TUBound, TUBound', NEW c \in Callers, pc[c] \in Holding,
         ~Cached(job[c].key), job[c].key \in AllKeys, NEW x,
         textures' = Put(textures, job[c].key, [index |-> job[c].index, texture |-> x]),
         UNCHANGED <<texture_order, descriptors>>
  PROVE  TB!Next
<1> PICK k : k = job[c].key
  OBVIOUS
<1> PICK i : i = job[c].index
  OBVIOUS
<1> PICK h : h = [index |-> i, texture |-> x]
  OBVIOUS
<1>1. /\ textures' = Put(textures, k, h) /\ h.index = i
      /\ k \in AllKeys /\ ~Cached(k)
  OBVIOUS
<1>2. /\ DOMAIN textures' = DOMAIN textures \cup {k}
      /\ textures'[k].index = i
      /\ \A y \in DOMAIN textures \ {k} : textures'[y] = textures[y]
  BY <1>1 DEF Put
<1>3. SlotOf(k) = 0 /\ SlotOf(k)' = i
  BY <1>1, <1>2 DEF SlotOf, Cached
<1>4. \A o \in AllKeys \ {k} : SlotOf(o)' = SlotOf(o)
  BY <1>2 DEF SlotOf, Cached
<1>5. i \in Slots
  <2>1. i \in taken /\ job[c] \in Job
    BY DEF TUBound, TUInv, CallersHold, Types, Threads
  <2>2. i \in Slots \cup {0}
    BY <2>1 DEF Job
  <2>3. i # 0
    BY <2>1 DEF TUBound, TUInv, Partition, BTRTypeOK
  <2> QED
    BY <2>2, <2>3
<1>6. \A o \in AllKeys : SlotOf(o) # i
  <2>1. 0 # i
    BY <1>5 DEF Slots
  <2>2. \A o \in DOMAIN textures : textures[o].index # i
    BY DEF TUBound, TUInv, CallersHold
  <2> QED
    BY <2>1, <2>2 DEF SlotOf, Cached
<1>7. \A o \in AllKeys \ {k} : (o \in Shown)' <=> o \in Shown
  BY <1>4, ShownKept
<1>8. k \notin Shown
  BY <1>3, BoundFacts DEF Shown
<1> QED
  BY <1>1, <1>3, <1>4, <1>5, <1>6, <1>7, <1>8, MapsAssign

\* A step that changes one slot's texture or descriptor, and shows its key.
LEMMA MapsSlot ==
  ASSUME TUBound, TUBound', NEW i \in Slots, \A k \in AllKeys : SlotOf(k)' = SlotOf(k),
         \A k \in AllKeys : SlotOf(k) # i => ((k \in Shown)' <=> k \in Shown),
         \A k \in AllKeys : SlotOf(k) = i /\ k \in Shown => (k \in Shown)'
  PROVE  [TB!Next]_(TB!tbVars)
<1>1. i # 0
  BY DEF Slots
<1>2. CASE \A k \in AllKeys : SlotOf(k) = i => ((k \in Shown)' <=> k \in Shown)
  BY <1>2, MapsSame
<1>3. CASE \E k \in AllKeys : SlotOf(k) = i /\ (k \in Shown)' /\ k \notin Shown
  <2> PICK k \in AllKeys : SlotOf(k) = i /\ (k \in Shown)'
    BY <1>3
  <2>1. \A o \in AllKeys \ {k} : SlotOf(o) # i
    BY <1>1, BoundFacts
  <2>2. \A o \in AllKeys \ {k} : (o \in Shown)' <=> o \in Shown
    BY <2>1
  <2> QED
    BY <1>1, <2>2, MapsShow
<1> QED
  BY <1>2, <1>3

LEMMA MapsBind ==
  ASSUME TUBound, TUBound', NEW t \in Threads, bind(t)  PROVE [TB!Next]_(TB!tbVars)
<1> PICK i : i = job[t].index
  OBVIOUS
<1>1. /\ Empty(i)
      /\ \A j \in DOMAIN texture_order \ {i} : texture_order'[j] = texture_order[j]
      /\ UNCHANGED <<textures, descriptors>>
  BY BindFacts DEF TUBound, bind, cache, flush
<1>2. i \in Slots
  <2>1. pc[t] \in Processing /\ job[t] \in Job
    BY DEF TUBound, bind, Processing, TUInv, Types
  <2>2. i \in taken /\ i \in Slots \cup {0}
    BY <2>1, SlotIsOwn DEF TUBound, Job
  <2>3. i # 0
    BY <2>2 DEF TUBound, TUInv, Partition, BTRTypeOK
  <2> QED
    BY <2>2, <2>3
<1>3. \A k \in AllKeys : SlotOf(k)' = SlotOf(k)
  BY <1>1 DEF SlotOf, Cached
<1>4. \A k \in AllKeys : SlotOf(k) # i => ((k \in Shown)' <=> k \in Shown)
  BY <1>1, <1>3, BoundFacts, ShownKept
<1>5. \A k \in AllKeys : SlotOf(k) = i => k \notin Shown
  BY <1>1 DEF Empty, Shown
<1> QED
  BY <1>2, <1>3, <1>4, <1>5, MapsSlot

\* The descriptor written is the texture the registry has in that slot.
LEMMA MapsWrite ==
  ASSUME TUBound, TUBound', flush_write  PROVE [TB!Next]_(TB!tbVars)
<1>1. UNCHANGED <<textures, texture_order>>
  BY DEF flush_write, cache, registry
<1>2. \A k \in AllKeys : SlotOf(k)' = SlotOf(k)
  BY <1>1 DEF SlotOf, Cached
<1>3. CASE descriptors' = descriptors
  BY <1>1, <1>2, <1>3, MapsKept
<1>4. CASE descriptors' # descriptors
  <2> PICK u : u = Head(pending)
    OBVIOUS
  <2>1. pending # <<>> /\ descriptors' = Put(descriptors, u.index, u.texture)
    BY <1>4 DEF flush_write, Written
  <2>2. u \in Update /\ Names(u)
    <3>1. pending \in Seq(Update) /\ \A n \in DOMAIN pending : Names(pending[n])
      BY DEF TUBound, Queues, Fresh, UpdatesCurrent
    <3>2. 1 \in DOMAIN pending /\ u = pending[1] /\ pending[1] \in Update
      BY <2>1, <3>1
    <3> QED
      BY <3>1, <3>2
  <2>3. u.index \in Slots /\ u.texture = texture_order[u.index]
    BY <2>2 DEF Update, Names
  <2>4. /\ DOMAIN descriptors' = DOMAIN descriptors \cup {u.index}
        /\ descriptors'[u.index] = u.texture
        /\ \A j \in DOMAIN descriptors \ {u.index} : descriptors'[j] = descriptors[j]
    BY <1>4, <2>1 DEF Put
  <2>5. \A k \in AllKeys : SlotOf(k) # u.index => ((k \in Shown)' <=> k \in Shown)
    BY <1>1, <1>2, <2>4, ShownKept
  <2>6. \A k \in AllKeys : SlotOf(k) = u.index /\ k \in Shown => (k \in Shown)'
    BY <1>1, <1>2, <2>3, <2>4 DEF Shown
  <2> QED
    BY <1>2, <2>3, <2>5, <2>6, MapsSlot
<1> QED
  BY <1>3, <1>4

LEMMA MapsNext ==
  ASSUME TUBound, TUBound', [TUNext]_tuVars  PROVE [TB!Next]_(TB!tbVars)
<1>1. ASSUME UNCHANGED <<texture_order, textures, descriptors>>
      PROVE  UNCHANGED TB!tbVars
  <2>1. \A k \in AllKeys : SlotOf(k)' = SlotOf(k)
    BY <1>1 DEF SlotOf, Cached
  <2> QED
    BY <1>1, <2>1, MapsKept
<1>2. ASSUME NEW c \in Callers, NEW k,
             create_texture_hit(c, k) \/ create_target_hit(c, k) \/ create_texture_miss(c, k)
                \/ create_target_miss(c, k) \/ enqueue(c)
      PROVE  UNCHANGED TB!tbVars
  BY <1>1, <1>2 DEF create_texture_hit, create_target_hit, create_texture_miss,
     create_target_miss, enqueue, registry, flush
<1>3. ASSUME NEW c \in Callers, reserve(c) PROVE UNCHANGED TB!tbVars
  <2>1. /\ \A j \in DOMAIN texture_order : texture_order'[j] = texture_order[j]
        /\ UNCHANGED <<textures, descriptors>>
    <3> PICK i \in Slots : TakeSlot(i, None) /\ taken' = taken \cup {i}
      BY <1>3 DEF reserve, allocate_slot
    <3>1. \A j \in DOMAIN texture_order : texture_order'[j] = texture_order[j]
      BY Taking DEF TUBound, TUInv
    <3> QED
      BY <1>3, <3>1 DEF reserve, cache, flush
  <2>2. \A k \in AllKeys : SlotOf(k)' = SlotOf(k)
    BY <2>1 DEF SlotOf, Cached
  <2> QED
    BY <2>1, <2>2, MapsKept
<1>4. ASSUME NEW c \in Callers, insert(c) PROVE [TB!Next]_(TB!tbVars)
  <2>1. UNCHANGED <<texture_order, descriptors>> /\ pc[c] = "reserved" /\ job[c].key \in AllKeys
    BY <1>4 DEF insert, registry, flush, TUBound, TUInv, JobsSorted, AllKeys
  <2>2. CASE Cached(job[c].key)
    BY <1>1, <1>4, <2>1, <2>2 DEF insert
  <2>3. CASE ~Cached(job[c].key)
    <3>1. textures' = Put(textures, job[c].key, [index |-> job[c].index, texture |-> None])
      BY <1>4, <2>3 DEF insert
    <3> QED
      BY <2>1, <2>3, <3>1, MapsInsert DEF Holding
  <2> QED
    BY <2>2, <2>3
<1>5. ASSUME NEW c \in Callers, insert_target(c) PROVE [TB!Next]_(TB!tbVars)
  BY <1>5, TargetFacts, MapsInsert DEF TUBound, Holding, AllKeys, registry, flush
<1>6. ASSUME NEW t \in Threads, ProcessStep(t) PROVE [TB!Next]_(TB!tbVars)
  <2>1. CASE create(t) \/ queue_bindless_texture_update(t)
    BY <1>1, <2>1 DEF create, queue_bindless_texture_update, cache, registry, flush
  <2> QED
    BY <1>6, <2>1, MapsBind DEF ProcessStep
<1>7. CASE dequeue \/ create_descriptor_set \/ UNCHANGED tuVars
  BY <1>1, <1>7 DEF dequeue, create_descriptor_set, tuVars, cache, registry, flush
<1>8. CASE complete_texture
  <2>1. \A k \in AllKeys : SlotOf(k)' = SlotOf(k)
    BY <1>8, CompleteFacts DEF TUBound, SlotOf, Cached
  <2> QED
    BY <1>8, <2>1, MapsKept DEF complete_texture, registry, flush
<1>9. CASE Flush
  <2>1. CASE flush_begin \/ flush_defer \/ flush_requeue
    BY <1>1, <2>1 DEF flush_begin, flush_defer, flush_requeue, cache, registry
  <2> QED
    BY <1>9, <2>1, MapsWrite DEF Flush
<1>10. ASSUME NEW c \in Callers, CallerStep(c) PROVE [TB!Next]_(TB!tbVars)
  BY <1>2, <1>3, <1>4, <1>5, <1>10 DEF CallerStep
<1>11. ASSUME GPUStep PROVE [TB!Next]_(TB!tbVars)
  BY <1>6, <1>7, <1>8, <1>11 DEF GPUStep, Threads
<1> QED
  BY <1>2, <1>6, <1>7, <1>9, <1>10, <1>11, ThreadsDiffer DEF TUNext, Threads

\* However calls, uploads and flushes interleave, a key keeps the one slot it
\* was given, shares it with no other, and once the shaders see its texture
\* they always do: TextureUploads implements TextureBinding. Render targets
\* are made by one thread, as in the renderer: the loser of a race between two
\* releases its slot while its bindless update is still queued.
THEOREM BindingsHold ==
  ASSUME \A c, d \in TargetCallers : c = d
  PROVE  TUSpec => BindingKept
<1>1. TUInit => TUBound
  <2> SUFFICES ASSUME TUInit PROVE TUBound
    OBVIOUS
  <2>1. TUInv /\ Queues
    BY TUInitInv, QueuesInit
  <2>2. InOnePlace
    BY DEF TUInit, InOnePlace, Threads
  <2>3. Fresh
    BY DEF TUInit, Fresh, TargetsAlone, Unbound, UpdatesCurrent, Threads, Processing, Early
  <2> QED
    BY <2>1, <2>2, <2>3 DEF TUBound
<1>2. TUBound /\ [TUNext]_tuVars => TUBound'
  BY TUNextInv, QueuesNext, PlacesNext, FreshNext DEF TUBound
<1>3. TUInit => TB!Init
  BY DEF TUInit, TB!Init, SlotOf, Cached, Shown
<1> QED
  BY <1>1, <1>2, <1>3, MapsNext, PTL DEF TUSpec, BindingKept, TB!Spec

-----------------------------------------------------------------------------
(* TextureUploads is a client of the registry that keeps to its contract, so *)
(* that what was shown of BTRSpec holds of it: what is bound is a texture    *)
(* that no slot has, into a slot the caller was given.                       *)

NewTextures ==
    /\ \A x \in Textures : state[x] = "none" => texture_to_index[x] = 0
    /\ \A t \in Threads : pc[t] = "created" =>
          state[job[t].texture] # "none" /\ texture_to_index[job[t].texture] = 0
    /\ \A t, u \in Threads :
          pc[t] = "created" /\ pc[u] = "created" /\ job[t].texture = job[u].texture => t = u

LEMMA NewKept ==
  ASSUME TUInv, NewTextures,
         \A x \in Textures : state'[x] = "none" => state[x] = "none",
         \A x \in Textures : texture_to_index[x] = 0 => texture_to_index'[x] = 0,
         \A t \in Threads : pc'[t] = "created" =>
            pc[t] = "created" /\ job'[t].texture = job[t].texture
  PROVE  NewTextures'
<1>1. \A t \in Threads : pc[t] = "created" => job[t].texture \in Textures
  BY DEF TUInv, JobsSorted
<1>2. \A x \in Textures : state'[x] = "none" => texture_to_index'[x] = 0
  BY DEF NewTextures
<1>3. \A t \in Threads : pc'[t] = "created" =>
         state'[job'[t].texture] # "none" /\ texture_to_index'[job'[t].texture] = 0
  BY <1>1 DEF NewTextures
<1>4. \A t, u \in Threads :
         pc'[t] = "created" /\ pc'[u] = "created" /\ job'[t].texture = job'[u].texture => t = u
  BY DEF NewTextures
<1> QED
  BY <1>2, <1>3, <1>4 DEF NewTextures

LEMMA NewCreate ==
  ASSUME TUInv, Queues, NewTextures, NEW t \in Threads, create(t)  PROVE NewTextures'
<1> PICK x \in Textures : /\ state[x] = "none"
                         /\ state' = [state EXCEPT ![x] = "GPU_Ready"]
                         /\ job' = [job EXCEPT ![t].texture = x]
  BY DEF create
<1>1. /\ pc \in [Threads -> Steps] /\ job \in [Threads -> Job]
      /\ DOMAIN state = Textures
      /\ pc' = [pc EXCEPT ![t] = "created"] /\ UNCHANGED texture_to_index
  BY DEF TUInv, Types, Queues, create, registry
<1>2. job'[t].texture = x
  <2>1. job'[t] = [job[t] EXCEPT !.texture = x] /\ job[t] \in Job
    BY <1>1
  <2> QED
    BY <2>1 DEF Job
<1>3. \A u \in Threads \ {t} : pc'[u] = pc[u] /\ job'[u] = job[u]
  BY <1>1
<1>4. texture_to_index[x] = 0
  BY DEF NewTextures
<1>5. \A u \in Threads \ {t} : pc[u] = "created" =>
         /\ job[u].texture \in Textures /\ job[u].texture # x
         /\ state'[job[u].texture] # "none" /\ texture_to_index[job[u].texture] = 0
  <2>1. \A u \in Threads \ {t} : pc[u] = "created" =>
           /\ job[u].texture \in Textures /\ state[job[u].texture] # "none"
           /\ texture_to_index[job[u].texture] = 0
    BY DEF TUInv, JobsSorted, NewTextures
  <2> QED
    BY <1>1, <2>1
<1>6. \A y \in Textures : state'[y] = "none" => texture_to_index'[y] = 0
  BY <1>1 DEF NewTextures
<1>7. state'[x] = "GPU_Ready"
  BY <1>1
<1>8. \A u \in Threads : pc'[u] = "created" =>
         state'[job'[u].texture] # "none" /\ texture_to_index'[job'[u].texture] = 0
  BY <1>1, <1>2, <1>3, <1>4, <1>5, <1>7
<1>9. \A u, v \in Threads :
         pc'[u] = "created" /\ pc'[v] = "created" /\ job'[u].texture = job'[v].texture => u = v
  BY <1>2, <1>3, <1>5 DEF NewTextures
<1> QED
  BY <1>6, <1>8, <1>9 DEF NewTextures

\* The thread's slot is its own, and the texture is in no other.
LEMMA BindContract ==
  ASSUME TUInv, InOnePlace, NewTextures, NEW t \in Threads, bind(t)
  PROVE  /\ job[t].texture \in Textures /\ job[t].index \in taken
         /\ BindTexture(job[t].texture)
<1>1. pc[t] = "created" /\ bind_texture(job[t].index, job[t].texture) /\ UNCHANGED taken
  BY DEF bind
<1>2. job[t].texture \in Textures /\ texture_to_index[job[t].texture] = 0
  BY <1>1 DEF TUInv, JobsSorted, NewTextures
<1>3. job[t].index \in taken
  BY <1>1, SlotIsOwn DEF Processing
<1> QED
  BY <1>1, <1>2, <1>3 DEF BindTexture

LEMMA NewBind ==
  ASSUME TUInv, InOnePlace, NewTextures, NEW t \in Threads, bind(t)  PROVE NewTextures'
<1> PICK x : x = job[t].texture
  OBVIOUS
<1>1. /\ pc[t] = "created" /\ pc' = [pc EXCEPT ![t] = "bound"] /\ UNCHANGED <<job, state>>
      /\ x \in Textures /\ job[t].index \in DOMAIN texture_order
      /\ bind_texture(job[t].index, x)
      /\ pc \in [Threads -> Steps]
  BY BindContract DEF bind, TUInv, Partition, BTRTypeOK, Types
<1>2. \A y \in Textures \ {x} : texture_to_index[y] = 0 => texture_to_index'[y] = 0
  BY <1>1 DEF bind_texture
<1>3. \A u \in Threads : pc'[u] = "created" => u # t /\ pc[u] = "created"
  BY <1>1
<1>4. \A u \in Threads \ {t} : pc[u] = "created" => job[u].texture \in Textures \ {x}
  BY <1>1 DEF TUInv, JobsSorted, NewTextures
<1>5. state[x] # "none"
  BY <1>1 DEF NewTextures
<1>6. \A y \in Textures : state'[y] = "none" => texture_to_index'[y] = 0
  BY <1>1, <1>2, <1>5 DEF NewTextures
<1>7. \A u \in Threads : pc'[u] = "created" =>
         state'[job'[u].texture] # "none" /\ texture_to_index'[job'[u].texture] = 0
  BY <1>1, <1>2, <1>3, <1>4 DEF NewTextures
<1>8. \A u, v \in Threads :
         pc'[u] = "created" /\ pc'[v] = "created" /\ job'[u].texture = job'[v].texture => u = v
  BY <1>1, <1>3 DEF NewTextures
<1> QED
  BY <1>6, <1>7, <1>8 DEF NewTextures

LEMMA NewNext ==
  ASSUME TUInv, Queues, InOnePlace, NewTextures, [TUNext]_tuVars  PROVE NewTextures'
<1>0. /\ pc \in [Threads -> Steps] /\ job \in [Threads -> Job] /\ DOMAIN state = Textures
      /\ Callers \subseteq Threads /\ GPU \in Threads
  BY DEF TUInv, Types, Queues, Threads
<1>1. ASSUME UNCHANGED <<texture_to_index, pc, job>>,
             \A x \in Textures : state'[x] = "none" => state[x] = "none"
      PROVE  NewTextures'
  BY <1>1, NewKept
<1>2. ASSUME UNCHANGED <<texture_to_index, state>>, NEW t \in Threads, NEW s, NEW j,
             s # "created", pc' = [pc EXCEPT ![t] = s],
             job' = job \/ job' = [job EXCEPT ![t] = j]
      PROVE  NewTextures'
  <2>1. \A u \in Threads : pc'[u] = "created" => pc[u] = "created" /\ job'[u] = job[u]
    BY <1>0, <1>2
  <2> QED
    BY <1>2, <2>1, NewKept
<1>3. ASSUME NEW c \in Callers, NEW k,
             create_texture_hit(c, k) \/ create_target_hit(c, k) \/ create_texture_miss(c, k)
                \/ create_target_miss(c, k)
      PROVE  NewTextures'
  <2>1. CASE create_texture_hit(c, k) \/ create_target_hit(c, k)
    BY <1>1, <2>1 DEF create_texture_hit, create_target_hit, registry
  <2>2. CASE create_texture_miss(c, k)
    BY <1>0, <1>2, <2>2 DEF create_texture_miss, Begin, registry
  <2>3. CASE create_target_miss(c, k)
    BY <1>0, <1>2, <2>3 DEF create_target_miss, Begin, registry
  <2> QED
    BY <1>3, <2>1, <2>2, <2>3
<1>4. ASSUME NEW c \in Callers, reserve(c) PROVE NewTextures'
  <2>1. PICK i : job' = [job EXCEPT ![c].index = i]
    BY <1>4 DEF reserve
  <2>2. PICK s : s # "created" /\ pc' = [pc EXCEPT ![c] = s]
    BY <1>4 DEF reserve
  <2>3. PICK j : job' = [job EXCEPT ![c] = j]
    BY <2>1
  <2>4. UNCHANGED <<texture_to_index, state>>
    BY <1>4 DEF reserve, allocate_slot
  <2> QED
    BY <1>0, <1>2, <2>2, <2>3, <2>4
<1>5. ASSUME NEW c \in Callers, insert(c) \/ enqueue(c) PROVE NewTextures'
  <2>1. UNCHANGED <<texture_to_index, state>>
    BY <1>5 DEF insert, enqueue, registry
  <2>2. \E s : s # "created" /\ pc' = [pc EXCEPT ![c] = s]
    BY <1>5 DEF insert, enqueue, Return
  <2>3. job' = job \/ job' = [job EXCEPT ![c] = NoJob]
    BY <1>5 DEF insert, enqueue, Return
  <2> QED
    BY <1>0, <1>2, <2>1, <2>2, <2>3
<1>6. ASSUME NEW c \in Callers, insert_target(c) PROVE NewTextures'
  <2>1. /\ pc' = [pc EXCEPT ![c] = "idle"] /\ job' = [job EXCEPT ![c] = NoJob]
    BY <1>6 DEF insert_target, Return
  <2>2. \A x \in Textures : state'[x] = "none" => state[x] = "none"
    BY <1>0, <1>6 DEF insert_target
  <2>3. \A x \in Textures : texture_to_index[x] = 0 => texture_to_index'[x] = 0
    BY <1>6 DEF insert_target, release_index, registry
  <2>4. \A t \in Threads : pc'[t] = "created" => pc[t] = "created" /\ job'[t] = job[t]
    BY <1>0, <2>1
  <2> QED
    BY <2>2, <2>3, <2>4, NewKept
<1>7. ASSUME NEW t \in Threads, ProcessStep(t) PROVE NewTextures'
  <2>1. CASE queue_bindless_texture_update(t)
    BY <1>2, <2>1 DEF queue_bindless_texture_update, registry
  <2> QED
    BY <1>7, <2>1, NewCreate, NewBind DEF ProcessStep
<1>8. CASE dequeue \/ complete_texture
  <2>1. UNCHANGED <<texture_to_index, state>>
    BY <1>8 DEF dequeue, complete_texture, registry
  <2>2. \E s : s # "created" /\ pc' = [pc EXCEPT ![GPU] = s]
    BY <1>8 DEF dequeue, complete_texture
  <2>3. \E j : job' = [job EXCEPT ![GPU] = j]
    BY <1>8 DEF dequeue, complete_texture
  <2> QED
    BY <1>0, <1>2, <2>1, <2>2, <2>3
<1>9. CASE create_descriptor_set \/ Flush \/ UNCHANGED tuVars
  <2>1. UNCHANGED <<texture_to_index, pc, job>>
    BY <1>9 DEF create_descriptor_set, Flush, flush_begin, flush_write, flush_defer, flush_requeue,
       tuVars, registry
  <2>2. \A x \in Textures : state'[x] = "none" => state[x] = "none"
    <3>1. state' = state \/ state' = [state EXCEPT ![Head(pending).texture] = "GPU_Visible"]
      BY <1>9 DEF create_descriptor_set, Flush, flush_begin, flush_write, flush_defer,
         flush_requeue, tuVars
    <3> QED
      BY <1>0, <3>1
  <2> QED
    BY <1>1, <2>1, <2>2
<1>10. ASSUME NEW c \in Callers, CallerStep(c) PROVE NewTextures'
  BY <1>4, <1>5, <1>6, <1>10 DEF CallerStep
<1>11. ASSUME GPUStep PROVE NewTextures'
  BY <1>0, <1>7, <1>8, <1>11 DEF GPUStep
<1> QED
  BY <1>0, <1>3, <1>7, <1>9, <1>10, <1>11, ThreadsDiffer DEF TUNext

\* Each step takes a slot, binds or releases one it holds, or leaves the registry.
LEMMA ContractStep ==
  ASSUME TUInv, InOnePlace, NewTextures, [TUNext]_tuVars  PROVE [BTRNext]_btrVars
<1>1. ASSUME UNCHANGED <<registry, taken>> PROVE UNCHANGED btrVars
  BY <1>1 DEF registry, btrVars
<1>2. ASSUME NEW c \in Callers, NEW k,
             create_texture_hit(c, k) \/ create_target_hit(c, k) \/ create_texture_miss(c, k)
                \/ create_target_miss(c, k) \/ insert(c) \/ enqueue(c)
      PROVE  UNCHANGED btrVars
  BY <1>1, <1>2 DEF create_texture_hit, create_target_hit, create_texture_miss,
     create_target_miss, insert, enqueue
<1>3. ASSUME NEW c \in Callers, reserve(c) PROVE BTRNext
  <2>1. \E i \in Slots : allocate_slot(i) /\ taken' = taken \cup {i}
    BY <1>3 DEF reserve
  <2> QED
    BY <2>1 DEF AllocateSlot, BTRNext
<1>4. ASSUME NEW c \in Callers, insert_target(c) PROVE [BTRNext]_btrVars
  <2>1. CASE Finished(job[c].key)
    <3>1. release_index(job[c].index) /\ taken' = taken \ {job[c].index}
      BY <1>4, <2>1 DEF insert_target
    <3>2. job[c].index \in taken
      BY <1>4 DEF insert_target, TUInv, CallersHold, Holding
    <3> QED
      BY <3>1, <3>2 DEF ReleaseIndex, BTRNext
  <2> QED
    BY <1>1, <1>4, <2>1 DEF insert_target
<1>5. ASSUME NEW t \in Threads, ProcessStep(t) PROVE [BTRNext]_btrVars
  <2>1. CASE create(t) \/ queue_bindless_texture_update(t)
    BY <1>1, <2>1 DEF create, queue_bindless_texture_update
  <2>2. CASE bind(t)
    BY <2>2, BindContract DEF BTRNext
  <2> QED
    BY <1>5, <2>1, <2>2 DEF ProcessStep
<1>6. CASE dequeue \/ complete_texture \/ create_descriptor_set \/ Flush \/ UNCHANGED tuVars
  BY <1>1, <1>6 DEF dequeue, complete_texture, create_descriptor_set, Flush, flush_begin,
     flush_write, flush_defer, flush_requeue, tuVars
<1>7. ASSUME NEW c \in Callers, CallerStep(c) PROVE [BTRNext]_btrVars
  BY <1>2, <1>3, <1>4, <1>7 DEF CallerStep
<1>8. ASSUME GPUStep PROVE [BTRNext]_btrVars
  BY <1>5, <1>6, <1>8 DEF GPUStep, Threads
<1> QED
  BY <1>2, <1>5, <1>6, <1>7, <1>8, ThreadsDiffer DEF TUNext, Threads

\* create_texture, create_render_target_texture and the two sides of process()
\* use the registry as its header asks, however they race, the release of the
\* loser's slot included.
THEOREM UploadsKeepTheContract == TUSpec => RegistryContract
<1> DEFINE CInv == TUInv /\ Queues /\ InOnePlace /\ NewTextures
<1>1. TUInit => CInv
  <2> SUFFICES ASSUME TUInit PROVE CInv
    OBVIOUS
  <2>1. TUInv /\ Queues
    BY TUInitInv, QueuesInit
  <2>2. InOnePlace /\ NewTextures
    BY DEF TUInit, RegistryInit, InOnePlace, NewTextures, Threads
  <2> QED
    BY <2>1, <2>2
<1>2. CInv /\ [TUNext]_tuVars => CInv'
  BY TUNextInv, QueuesNext, PlacesNext, NewNext
<1>3. CInv /\ [TUNext]_tuVars => [BTRNext]_btrVars
  BY ContractStep
<1>4. TUInit => BTRInit
  BY DEF TUInit, BTRInit
<1> QED
  BY <1>1, <1>2, <1>3, <1>4, PTL DEF TUSpec, BTRSpec, RegistryContract

\* So lookups by slot and by texture agree whatever callers race.
THEOREM RacingLookupsAgree == TUSpec => [](MapsAgree /\ SlotsAccounted)
BY UploadsKeepTheContract, LookupsAgree, EverySlotAccounted, PTL DEF RegistryContract
=============================================================================
