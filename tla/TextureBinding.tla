---------------------------- MODULE TextureBinding ----------------------------
(***************************************************************************)
(* What ResourceManager and the bindless registry promise together: a      *)
(* texture key gets a slot once, keeps it, shares it with no other key, and*)
(* once its texture is in the descriptor array it stays there.             *)
(***************************************************************************)
EXTENDS Integers

CONSTANTS Keys,
          Slots   \* the slots' numbers, all positive

VARIABLES slot,   \* key -> its slot in the bindless array, 0 before it has one
          shown   \* the keys whose texture the descriptor array holds

tbVars == <<slot, shown>>

Init == slot = [k \in Keys |-> 0] /\ shown = {}

\* The texture of a render target may be in the array before its key is known.
Assign(k, i, s) ==
    /\ slot[k] = 0
    /\ \A other \in Keys : slot[other] # i
    /\ slot' = [slot EXCEPT ![k] = i]
    /\ shown' = shown \cup s

Show(k) == slot[k] # 0 /\ shown' = shown \cup {k} /\ UNCHANGED slot

Next == \E k \in Keys :
            \/ Show(k)
            \/ \E i \in Slots : \E s \in SUBSET {k} : Assign(k, i, s)

Spec == Init /\ [][Next]_tbVars
=============================================================================
