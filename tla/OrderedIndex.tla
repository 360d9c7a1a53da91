----------------------------- MODULE OrderedIndex ----------------------------
(***************************************************************************)
(* What Engine expects of its index (the comments of include/btree.h): an  *)
(* ordered map from keys to log offsets.  insert returns 1 for a new key   *)
(* and 0 for one that it modifies, remove 1 for a key it removes and 0 for *)
(* an absent one; size counts the keys.                                    *)
(***************************************************************************)
EXTENDS Integers, Sequences

CONSTANT Calls           \* what callers may do: insert <<key, data>>, or
                         \* remove <<key>>

VARIABLES map,           \* the pairs the index holds
          count,         \* size()
          last           \* the last call and its return value

vars == <<map, count, last>>

Has(k) == \E e \in map : e[1] = k

Without(k) == {e \in map : e[1] # k}

Init == map = {} /\ count = 0 /\ last = << >>

Insert(k, d) ==
    /\ map' = Without(k) \cup {<<k, d>>}
    /\ last' = <<"insert", k, d, IF Has(k) THEN 0 ELSE 1>>
    /\ count' = IF Has(k) THEN count ELSE count + 1

Remove(k) ==
    /\ map' = Without(k)
    /\ last' = <<"remove", k, IF Has(k) THEN 1 ELSE 0>>
    /\ count' = IF Has(k) THEN count - 1 ELSE count

Next == \E c \in Calls : \/ Len(c) = 2 /\ Insert(c[1], c[2])
                         \/ Len(c) = 1 /\ Remove(c[1])

Spec == Init /\ [][Next]_vars
=============================================================================
