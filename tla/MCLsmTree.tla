----------------------------- MODULE MCLsmTree -----------------------------
(***************************************************************************)
(* Values of the constants of LsmTree for TLC.  Sizes are the real ones: a *)
(* table of 2 MB holds one value "whole", or two values "half".            *)
(***************************************************************************)
EXTENDS LsmTree

MCValLen ==
    [v \in Value \cup {DEL, None} |->
        CASE v = "whole" -> 2000000
          [] v = "half"  -> 1000000
          [] v = DEL     -> 9
          [] v = None    -> 0]

CodeThreshold == [l \in Level |-> 2 ^ (l + 1)]   \* 1 << (level + 2), for level + 1
OneTable      == [l \in Level |-> 1]             \* every level overflows early
=============================================================================
