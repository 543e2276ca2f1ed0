-------------------------- MODULE MCParallelSearch --------------------------
(***************************************************************************)
(* ParallelSearch for TLC: small indices, each with one kind of search.    *)
(***************************************************************************)
EXTENDS ParallelSearch

MCNone == [n \in 1..5 |-> <<>>]

(* A list of level 1 is compared by the workers, with a tie; level 0 is a  *)
(* chain.                                                                  *)
UpperLevel ==
    [node |-> 1..5, sim |-> <<1, 2, 4, 4, 3>>, entry |-> 1, levels |-> 2,
     deleted_nodes |-> {4},
     neighbors |-> [l \in 0..1 |->
         IF l = 1 THEN [MCNone EXCEPT ![1] = <<2, 3, 4>>, ![3] = <<1>>]
         ELSE <<<<2>>, <<1, 3>>, <<2, 4>>, <<3, 5>>, <<4>>>>]]

(* A list of level 0 is, with the best neighbour before the worst one in   *)
(* the part of one task.                                                   *)
GroundLevel ==
    [node |-> 1..5, sim |-> <<0, 3, 2, 1, 5>>, entry |-> 2, levels |-> 1,
     deleted_nodes |-> {5, 4},
     neighbors |-> [l \in 0..0 |->
         <<<<2>>, <<5, 1, 3, 4>>, <<2>>, <<2>>, <<2>>>>]]

(* One node: all tasks but the last have nothing to do.                    *)
Single ==
    [node |-> {1}, sim |-> <<1>>, entry |-> 1, levels |-> 1, deleted_nodes |-> {},
     neighbors |-> [l \in 0..0 |-> <<<<>>>>]]

MCGraphs == {UpperLevel, GroundLevel, Single}
=============================================================================
