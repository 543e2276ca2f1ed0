---------------------------- MODULE MCTableFile ----------------------------
(***************************************************************************)
(* Values of the constants of TableFile for TLC: one value with a NUL byte *)
(* in front, and bits such that two keys fake the third.                   *)
(***************************************************************************)
EXTENDS TableFile

MCNone == <<>>
MCValue == {<<1>>, <<2, 3>>, <<NUL, 2>>}
MCHash == [k \in Key |-> CASE k = 1 -> {0, 1} [] k = 2 -> {1, 2} [] k = 3 -> {0, 2}]
=============================================================================
