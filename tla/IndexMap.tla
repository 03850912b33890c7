------------------------------ MODULE IndexMap ------------------------------
(***************************************************************************)
(* What the block index promises its users: a map from hashes to indices   *)
(* and a saved copy of it.  A value is entered once, changed in place      *)
(* through the pointer a lookup returns, and comes back at the next start  *)
(* as it was saved.  No lookup ever misses an entered key.                 *)
(***************************************************************************)
CONSTANTS Keys, Values, Genesis, FreshGenesis

VARIABLES
    map,    \* the indexed keys and their values
    copy    \* the map as it was last saved

vars == <<map, copy>>

Init ==
    /\ map = [k \in {Genesis} |-> FreshGenesis]
    /\ copy = map

Enter(k, v) ==
    /\ k \notin DOMAIN map
    /\ map' = [x \in DOMAIN map \cup {k} |-> IF x = k THEN v ELSE map[x]]
    /\ UNCHANGED copy

Change(k, v) ==
    /\ k \in DOMAIN map
    /\ map' = [map EXCEPT ![k] = v]
    /\ UNCHANGED copy

Save ==
    /\ copy' = map
    /\ UNCHANGED map

Restart ==
    /\ map' = copy
    /\ UNCHANGED copy

Next ==
    \/ \E k \in Keys, v \in Values : Enter(k, v) \/ Change(k, v)
    \/ Save
    \/ Restart

Spec == Init /\ [][Next]_vars

=============================================================================
