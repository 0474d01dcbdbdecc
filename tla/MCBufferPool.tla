------------------------------ MODULE MCBufferPool ------------------------------
(* Instances of BufferPool for TLC: addresses are interchangeable, and so  *)
(* are the threads that only release.                                      *)
EXTENDS BufferPool, TLC

CONSTANTS t1, t2, t3, b1, b2, b3, b4, b5

OneThread == {t1}
TwoThreads == {t1, t2}
Others == {t2, t3}
ThreeBufs == {b1, b2, b3}
FiveBufs == {b1, b2, b3, b4, b5}
BufSymmetry == Permutations(Bufs)
PoolSymmetry == BufSymmetry \cup Permutations(Others)

================================================================================
