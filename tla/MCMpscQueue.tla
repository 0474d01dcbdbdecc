------------------------------ MODULE MCMpscQueue ------------------------------
(* Instance of MpscQueue for TLC: addresses are interchangeable.           *)
EXTENDS MpscQueue, TLC

NodeSymmetry == Permutations(Nodes)

================================================================================
