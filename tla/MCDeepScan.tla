----------------------------- MODULE MCDeepScan -----------------------------
(* Instances of DeepScan for TLC. *)
EXTENDS DeepScan, TLC

CONSTANTS f1, f2, report

TwoFiles == {f1, f2}
OneReport == {report}
\* Both files are of the first extension; .xml is not in the table.
ExtensionOf == [f \in TwoFiles \cup OneReport |-> IF f = report THEN 0 ELSE 1]
FirstOnly == [k \in 1 .. 2 |-> k = 1]
FilesAlike == Permutations(TwoFiles)
=============================================================================
