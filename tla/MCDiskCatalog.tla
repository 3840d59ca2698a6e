--------------------------- MODULE MCDiskCatalog ---------------------------
(* Instances of DiskCatalog for TLC. *)
EXTENDS DiskCatalog

Disk(name, readable, parts) == [disk |-> name, readable |-> readable, parts |-> parts]

\* One disk; two; the same two with the first unreadable; the second grown, alone; none.
SomeMachines ==
    { <<>>,
      <<Disk("a", TRUE, 1)>>,
      <<Disk("a", TRUE, 1), Disk("b", TRUE, 2)>>,
      <<Disk("a", FALSE, 1), Disk("b", TRUE, 2)>>,
      <<Disk("b", TRUE, 2), Disk("a", TRUE, 0)>> }
=============================================================================
