----------------------------- MODULE KVStoreAPI -----------------------------
(***************************************************************************)
(* What src/kvstore_api.h promises of a key-value store, and what the      *)
(* persistence test (src/test/persistence.cc) adds to it: a dictionary     *)
(* with put, del and reset, and a durable copy of it to which the store    *)
(* falls back when its process is killed.  get and scan read `dict`.       *)
(*                                                                         *)
(* The value of a key is the number of the write that put it, 0 when the   *)
(* key is absent.                                                          *)
(***************************************************************************)
EXTENDS Naturals

CONSTANT Key

VARIABLES
    dict,     \* what get and scan show of each key
    durable,  \* what a killed process leaves behind
    clock     \* the number of writes so far

vars == <<dict, durable, clock>>

Absent == [k \in Key |-> 0]

Init == dict = Absent /\ durable = Absent /\ clock = 0

(* Insert or update the pair.                                              *)
Put(k) ==
    /\ clock' = clock + 1
    /\ dict' = [dict EXCEPT ![k] = clock + 1]
    /\ UNCHANGED durable

(* Delete the pair if it exists.                                           *)
Del(k) ==
    /\ dict[k] # 0
    /\ clock' = clock + 1
    /\ dict' = [dict EXCEPT ![k] = 0]
    /\ UNCHANGED durable

(* Remove all pairs, those on the disk too.                                *)
Reset ==
    /\ dict' = Absent /\ durable' = Absent
    /\ UNCHANGED clock

(* Everything written so far reaches the disk: a flush, a clean shutdown.  *)
Persist ==
    /\ durable' = dict
    /\ UNCHANGED <<dict, clock>>

(* The process is killed.                                                  *)
Crash ==
    /\ dict' = durable
    /\ UNCHANGED <<durable, clock>>

Next == (\E k \in Key : Put(k) \/ Del(k)) \/ Reset \/ Persist \/ Crash

Spec == Init /\ [][Next]_vars
=============================================================================
