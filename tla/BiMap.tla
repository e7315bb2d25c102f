---------------------------------- MODULE BiMap ----------------------------------
(***************************************************************************)
(* What pkg/base/datastructures/map.go promises of a thread-safe bimap: a  *)
(* one-to-one set of entries that every operation changes in one indivisible *)
(* step.                                                                   *)
(***************************************************************************)

CONSTANTS Keys, Values

VARIABLE entries

Init == entries = {}

(* The new pair evicts whatever its key and its value were mapped to. *)
Put(k, v) ==
    entries' = {e \in entries : e[1] # k /\ e[2] # v} \cup {<<k, v>>}

Remove(k) == entries' = {e \in entries : e[1] # k}

Clear == entries' = {}

Next ==
    \/ \E k \in Keys, v \in Values : Put(k, v)
    \/ \E k \in Keys : Remove(k)
    \/ Clear

Spec == Init /\ [][Next]_entries

==================================================================================
