----------------------------- MODULE SortedMap -----------------------------
(***************************************************************************)
(* What skiplist.h promises the store: a map whose keys are listed in      *)
(* order.  A call takes effect, and sets its result, in one step.          *)
(***************************************************************************)
EXTENDS Integers, Sequences

CONSTANTS
    Key,            \* the keys, numbers
    Value,          \* the values
    None            \* the empty string, which search returns for no value

VARIABLES
    map,            \* the value of each key, None for no value
    result          \* what the last search or scan returned

Found(k, v) == [of |-> "search", key |-> k, is |-> v]
Listed(k1, k2, pairs) == [of |-> "scan", key |-> k1, key2 |-> k2, is |-> pairs]
NoResult == [of |-> "nothing"]

Init == map = [k \in Key |-> None] /\ result = NoResult

Insert(k, v) == map' = [map EXCEPT ![k] = v] /\ UNCHANGED result

Search(k) == result' = Found(k, map[k]) /\ UNCHANGED map

(* The pairs with keys from k1 to k2, in order.                            *)
IsListing(list, k1, k2) ==
    /\ \A j \in 1..Len(list) - 1 : list[j][1] < list[j + 1][1]
    /\ {list[j] : j \in 1..Len(list)} =
           {<<k, map[k]>> : k \in {k \in Key : map[k] # None /\ k1 <= k /\ k <= k2}}

Scan(k1, k2) ==
    /\ result'.of = "scan" /\ result' = Listed(k1, k2, result'.is)
    /\ IsListing(result'.is, k1, k2)
    /\ UNCHANGED map

Reset == map' = [k \in Key |-> None] /\ UNCHANGED result

Next ==
    \/ \E k \in Key, v \in Value : Insert(k, v)
    \/ \E k \in Key : Search(k)
    \/ \E k1, k2 \in Key : Scan(k1, k2)
    \/ Reset

Spec == Init /\ [][Next]_<<map, result>>
=============================================================================
