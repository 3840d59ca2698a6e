----------------------------- MODULE MCRecovery -----------------------------
(* An instance of Recovery for TLC. *)
EXTENDS Recovery

CONSTANTS v1, v2, v3

ThreeVolumes == {v1, v2, v3}
ThirdVolume == {v3}
ShortLists == [v \in ThreeVolumes |-> IF v = v1 THEN 3 ELSE 2]

ThreeClusters == 1 .. 3

Run(of, blocks) == [of |-> of, blocks |-> blocks]
Stream(kind, runlist, alloc) == [kind |-> kind, runlist |-> runlist, alloc |-> alloc, fits |-> TRUE]
Resident == Stream("resident", <<>>, 0)
NoRunlist == Stream("plain", <<>>, 0)

\* A whole file; one whose first segment is missing; a sparse one; an encrypted stream beside a
\* resident one; and one without a runlist before one that lacks its end.
FiveRecords ==
    { <<Stream("plain", <<Run("clusters", <<1, 2, 3>>)>>, 3)>>,
      <<Stream("plain", <<Run("missing", <<0>>), Run("clusters", <<2>>)>>, 2)>>,
      <<Stream("plain", <<Run("clusters", <<1>>), Run("hole", <<0>>)>>, 2)>>,
      <<Stream("encrypted", <<Run("clusters", <<2>>)>>, 1), Resident>>,
      <<NoRunlist, Stream("plain", <<Run("clusters", <<1>>), Run("missing", <<0>>)>>, 2)>> }
=============================================================================
