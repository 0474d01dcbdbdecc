------------------------------- MODULE MCCascaLog -------------------------------
(* Instance of CascaLog for TLC: one thread logs to two recorders, the other *)
(* to one of them and to an id nobody registered.                           *)
EXTENDS CascaLog, TLC

CONSTANTS p1, p2, r1, r2, r3

MCProducers == {p1, p2}
MCRecorders == {r1, r2}
MCRoute == (p1 :> <<r1, r2>>) @@ (p2 :> <<r2, r3>>)

================================================================================
