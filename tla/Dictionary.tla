----------------------------- MODULE Dictionary -----------------------------
(***************************************************************************)
(* What an associative array promises its caller (assoc_array.h, ahtable.h *)
(* and hat-trie.h): a finite map from keys to words.  Looking a key up     *)
(* "awk style" creates it with the value 0; clearing removes every key.    *)
(* AhTable and HatTrie are shown to implement this module.                 *)
(***************************************************************************)
EXTENDS Naturals, TLC

CONSTANTS Keys, Values

VARIABLE dict

Init == dict = <<>>

\* *get(key) read only: the key is created with 0 when it is missing.
Get(k) == dict' = dict @@ (k :> 0)

\* *get(key) = v
Set(k, v) == dict' = (k :> v) @@ dict

Del(k) == dict' = [x \in DOMAIN dict \ {k} |-> dict[x]]

Clear == dict' = <<>>

Next ==
    \/ \E k \in Keys : Get(k) \/ Del(k) \/ \E v \in Values : Set(k, v)
    \/ Clear

Spec == Init /\ [][Next]_dict
=============================================================================
