--------------------------- MODULE MCScanControl ---------------------------
(* Instances of ScanControl for TLC. *)
EXTENDS ScanControl, TLC

CONSTANTS t1, t2, v1, v2, v3

TwoThreads == {t1, t2}
OneVolume == {v1}
TwoVolumes == {v1, v2}
ThreeVolumes == {v1, v2, v3}

\* Threads are interchangeable: no action or safety property singles one out.
ThreadSymmetry == Permutations(TwoThreads)
=============================================================================
