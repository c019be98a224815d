------------------------------ MODULE MCPlayer ------------------------------
(* Constants of Player for TLC: all nodes, one of them prefetch, share a URL. *)
EXTENDS Player

MCUrl == [n \in Nodes |-> 1]
=============================================================================
