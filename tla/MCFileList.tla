----------------------------- MODULE MCFileList -----------------------------
(* Instances of FileList for TLC. *)
EXTENDS FileList

CONSTANTS v1, v2, v3

\* Two volumes that can be mounted and one that cannot.
ThreeVolumes == {v1, v2, v3}
ThirdVolume == {v3}

\* Pages of two entries: one list ends inside a page, the other fills one.
ShortLists == [v \in ThreeVolumes |-> IF v = v1 THEN 3 ELSE 2]
=============================================================================
