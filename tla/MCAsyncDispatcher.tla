--------------------------- MODULE MCAsyncDispatcher ---------------------------
(* Instance of AsyncDispatcher for TLC: two modules whose recorders overlap  *)
(* in different positions, and one recorder that is not registered.         *)
EXTENDS AsyncDispatcher, TLC

CONSTANTS p1, p2, r1, r2, r3

MCProducers == {p1, p2}
MCRecorders == {r1, r2}
MCRoute == (p1 :> <<r1, r2, r1>>) @@ (p2 :> <<r2, r3>>)

================================================================================
