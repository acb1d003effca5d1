------------------------- MODULE MCClusterManager -------------------------
(* A small instance of ClusterManager for TLC.                             *)
EXTENDS ClusterManager, TLC

CONSTANTS w1, w2, t1, t2

MCMaxLoad == [w \in Workers |-> 2]
MCSuits == [p \in Preferences |-> Workers]
MCSymmetry == Permutations(Workers) \cup Permutations(Tasks)
=============================================================================
