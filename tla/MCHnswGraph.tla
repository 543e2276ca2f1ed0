---------------------------- MODULE MCHnswGraph ----------------------------
(***************************************************************************)
(* Values of the constants of HnswGraph for TLC: vectors on a line, and    *)
(* nodes among which the fifth may find the others full.                   *)
(***************************************************************************)
EXTENDS HnswGraph

MCSim == [v \in Vector |-> [w \in Vector |-> One - (IF v < w THEN w - v ELSE v - w)]]
MCOffered ==
    [n \in 1..MaxNodes |->
        CASE n = 1 -> {2} \X {1, 2}
          [] n = 2 -> {1, 4} \X {1, 2}
          [] n = 3 -> {2, 4} \X {1}
          [] n = 4 -> {4} \X {1, 2}
          [] n = 5 -> {7} \X {1}]
=============================================================================
