-------------------------------- MODULE MCRouter --------------------------------
(* Router for TLC: two pools, whose trades need two tick arrays each.      *)
EXTENDS Router
MCArraysNeeded == [p \in Pools |-> 2]
=================================================================================
