----------------------------- MODULE DiskCatalog -----------------------------
(***************************************************************************)
(* The disks and partitions of the machine, and the numbers by which       *)
(* clients name them (disk_component.c; common.c:200-258, 504-582,         *)
(* 638-677).                                                               *)
(*                                                                         *)
(* `set disk` rebuilds everything: testdisk's list of disks, its list of   *)
(* partitions for each disk, and the tables clients are shown, where the   *)
(* partitions of all disks are numbered through.  `get disk` shows the     *)
(* tables; a scan request is resolved through the lists.  Disks may come   *)
(* and go between rebuilds.  Positions start at 0, as in C.                *)
(*                                                                         *)
(* A disk_t or a partition_t is a record with the number of the rebuild    *)
(* that allocated it, so that one that was freed can be told from a later  *)
(* one of the same disk.                                                   *)
(***************************************************************************)
EXTENDS Integers, Sequences, Functions

CONSTANTS
    Machines,   \* what the machine may contain: sequences of [disk, readable, parts]
    DISK_NUM,   \* entries of disk_Ctx->info and of partition_List (30)
    PARTITION_NUM,  \* entries of partition_Ctx->info (128)
    MaxRebuilds,    \* bound: how often the lists are rebuilt
    Careful,    \* clients send nothing else during a rebuild, and ask for none during a scan
    NULL

ASSUME DiskCatalogAssumption ==
    /\ DISK_NUM \in Nat \ {0} /\ PARTITION_NUM \in Nat \ {0} /\ MaxRebuilds \in Nat
    /\ Careful \in BOOLEAN
    /\ \A m \in Machines : m \in Seq([disk : STRING, readable : BOOLEAN, parts : Nat])

\* The code tests neither bound: with more disks, or more partitions than this, it writes past
\* the end of the tables.  A position of partition_List keeps the partitions of an earlier
\* rebuild, so those of all disks can be as many as the largest has, for each disk.
ASSUME MachinesFit ==
    \A m \in Machines :
        /\ Len(m) <= DISK_NUM
        /\ \A earlier \in Machines : \A n \in DOMAIN earlier :
              Len(m) * earlier[n].parts <= PARTITION_NUM

\* A disk_t and a partition_t.
Disks == UNION {{m.disk : m \in Range(ms)} : ms \in Machines}
DiskType == [of : 1 .. MaxRebuilds, disk : Disks, readable : BOOLEAN]
PartType == [of : 1 .. MaxRebuilds, disk : Disks, part : Nat]

ASSUME NullAssumption == NULL \notin DiskType /\ NULL \notin PartType

VARIABLES
    machine,         \* the disks there are
    rebuilds,        \* how many rebuilds have begun
    disk_List,       \* testdisk's disks
    partition_List,  \* testdisk's partitions, by position
    total_Num, in_Disk,  \* disk_Ctx: total_Num and partition_In_Per_Disk
    info, part_Total,    \* partition_Ctx: info (number and partition) and total_Num
    rebuild,         \* the next statement of Update_Disk_List, or "none"
    i, packed, j,    \* its loop counters: disk, position in partition_List, partition
    scan_Object,     \* scan_Object_Ctx: disk and partition, each NULL when it did not resolve
    scanning         \* a scan is under way

scan == <<scan_Object, scanning>>
lists == <<disk_List, partition_List>>
tables == <<total_Num, in_Disk, info, part_Total>>
loop == <<i, packed, j>>
vars == <<machine, rebuilds, lists, tables, rebuild, loop, scan_Object, scanning>>

Slots == 0 .. DISK_NUM - 1
Numbers == 0 .. PARTITION_NUM - 1
NoEntry == [no |-> 0, part |-> NULL]
NoObject == [disk |-> NULL, part |-> NULL]

Init ==
    /\ machine \in Machines
    /\ rebuilds = 0
    /\ disk_List = <<>> /\ partition_List = [s \in Slots |-> <<>>]
    /\ total_Num = 0 /\ in_Disk = [s \in Slots |-> 0]
    /\ info = [n \in Numbers |-> NoEntry] /\ part_Total = 0
    /\ rebuild = "none" /\ i = 0 /\ packed = 0 /\ j = 0
    /\ scan_Object = NoObject /\ scanning = FALSE

\* A disk is connected, removed, or changes.
Machine_Changes ==
    /\ machine' \in Machines
    /\ UNCHANGED <<rebuilds, lists, tables, rebuild, loop, scan>>

----------------------------------------------------------------------------
(* Update_Disk_List *)

Step(from, to) == rebuild = from /\ rebuild' = to

Disk_List_Free ==
    /\ Step("none", "parse")
    /\ rebuilds < MaxRebuilds
    /\ Careful => ~scanning
    /\ rebuilds' = rebuilds + 1
    /\ disk_List' = <<>>
    /\ UNCHANGED <<machine, partition_List, tables, loop, scan>>

NewDisk(name) == [of |-> rebuilds, disk |-> name, readable |-> FALSE]

\* hd_parse; without administrator rights, or without disks, the list stays empty.
Disk_List_Init ==
    /\ Step("parse", "free_parts")
    /\ disk_List' = [n \in DOMAIN machine |-> NewDisk(machine[n].disk)]
    /\ UNCHANGED <<machine, rebuilds, partition_List, tables, loop, scan>>

Bug_Partition_List_Free_Keeps_Position ==
    /\ Step("free_parts", "read_parts")
    /\ partition_List' = IF disk_List = <<>> THEN partition_List
                         ELSE [partition_List EXCEPT ![0] = <<>>]
    /\ i' = 0
    /\ UNCHANGED <<machine, rebuilds, disk_List, tables, packed, j, scan>>

\* The loop over the disks does not advance its counter: only position 0 is freed.
Partition_List_Free ==
    /\ Step("free_parts", "read_parts")
    /\ partition_List' = IF disk_List = <<>> THEN partition_List
                         ELSE [partition_List EXCEPT ![0] = <<>>]
    /\ i' = 0 /\ packed' = 0
    /\ UNCHANGED <<machine, rebuilds, disk_List, tables, j, scan>>

Hardware(name) == {m \in Range(machine) : m.disk = name}

\* arch->read_part allocates the partitions that are on the disk.
Read_Part(m) == [p \in 1 .. m.parts |-> [of |-> rebuilds, disk |-> m.disk, part |-> p]]

\* One disk of Partition_List_Init: a disk that can be read takes the next position.
Partition_List_Init ==
    \/ /\ Step("read_parts", "read_parts")
       /\ i < Len(disk_List)
       /\ \/ \E m \in Hardware(disk_List[i + 1].disk) :
                /\ m.readable
                /\ partition_List' = [partition_List EXCEPT ![packed] = Read_Part(m)]
                /\ disk_List' = [disk_List EXCEPT ![i + 1].readable = TRUE]
                /\ packed' = packed + 1
          \/ /\ \A m \in Hardware(disk_List[i + 1].disk) : ~m.readable
             /\ UNCHANGED <<disk_List, partition_List, packed>>
       /\ i' = i + 1
       /\ UNCHANGED <<machine, rebuilds, tables, j, scan>>
    \/ /\ Step("read_parts", "update")
       /\ i >= Len(disk_List)
       /\ i' = 0 /\ j' = 0
       /\ UNCHANGED <<machine, rebuilds, lists, tables, packed, scan>>

Bug_Update_Partition_Ctx_Adds ==
    /\ Step("update", "update")
    /\ i < Len(disk_List)
    /\ LET parts == partition_List[i]
       IN  /\ info' = [n \in Numbers |-> IF n \in j .. j + Len(parts) - 1
                                         THEN [no |-> n, part |-> parts[n - j + 1]]
                                         ELSE info[n]]
           /\ in_Disk' = [in_Disk EXCEPT ![i] = in_Disk[i] + Len(parts)]
           /\ j' = j + Len(parts)
           /\ part_Total' = j'
    /\ i' = i + 1
    /\ UNCHANGED <<machine, rebuilds, lists, total_Num, packed, scan>>

\* Update_Partition_Ctx for the disk at position i: its partitions get the next numbers.
Update_Partition_Ctx ==
    /\ Step("update", "update")
    /\ i < Len(disk_List)
    /\ LET parts == partition_List[i]
       IN  /\ info' = [n \in Numbers |-> IF n \in j .. j + Len(parts) - 1
                                         THEN [no |-> n, part |-> parts[n - j + 1]]
                                         ELSE info[n]]
           /\ in_Disk' = [in_Disk EXCEPT ![i] = Len(parts)]
           /\ j' = j + Len(parts)
           /\ part_Total' = j'
    /\ i' = i + 1
    /\ UNCHANGED <<machine, rebuilds, lists, total_Num, packed, scan>>

Update_Disk_Ctx ==
    /\ Step("update", "none")
    /\ i >= Len(disk_List)
    /\ total_Num' = i
    /\ UNCHANGED <<machine, rebuilds, lists, in_Disk, info, part_Total, loop, scan>>

----------------------------------------------------------------------------
(* Requests *)

\* The first number of the disk at position d, in the numbering clients are shown.
First[d \in 0 .. DISK_NUM] == IF d = 0 THEN 0 ELSE First[d - 1] + in_Disk[d - 1]

Shown(d) == First[d] .. First[d] + in_Disk[d] - 1

Access_Disk(d) ==
    IF d < total_Num /\ d < Len(disk_List) THEN disk_List[d + 1] ELSE NULL

Bug_Accecc_Partition_Ignores_First(d, n) ==
    IF d < total_Num /\ d < Len(disk_List) /\ n \in Shown(d) /\ n < Len(partition_List[d])
    THEN partition_List[d][n + 1] ELSE NULL

Accecc_Partition(d, n) ==
    IF d < total_Num /\ d < Len(disk_List) /\ n \in Shown(d)
          /\ n - First[d] < Len(partition_List[d])
    THEN partition_List[d][n - First[d] + 1] ELSE NULL

MayAsk == Careful => rebuild = "none"

Resolved(d, n) == [disk |-> Access_Disk(d), part |-> Accecc_Partition(d, n)]

Bug_Scan_Object_Context_Init_Once(d, n) ==
    /\ MayAsk
    /\ Careful => ~scanning
    /\ scan_Object' = IF scan_Object = NoObject THEN Resolved(d, n) ELSE scan_Object
    /\ scanning' = (scanning \/ NULL \notin {scan_Object'.disk, scan_Object'.part})
    /\ UNCHANGED <<machine, rebuilds, lists, tables, rebuild, loop>>

\* A start request: the object is replaced by what the numbers resolve to, whether or not they
\* do; the scan starts only when they do.
Scan_Object_Context_Init(d, n) ==
    /\ MayAsk
    /\ Careful => ~scanning
    /\ scan_Object' = Resolved(d, n)
    /\ scanning' = (scanning \/ NULL \notin {scan_Object'.disk, scan_Object'.part})
    /\ UNCHANGED <<machine, rebuilds, lists, tables, rebuild, loop>>

Scan_Ends ==
    /\ scanning
    /\ scanning' = FALSE
    /\ UNCHANGED <<machine, rebuilds, lists, tables, rebuild, loop, scan_Object>>

Next ==
    \/ Machine_Changes
    \/ Disk_List_Free
    \/ Disk_List_Init
    \/ Partition_List_Free
    \/ Partition_List_Init
    \/ Update_Partition_Ctx
    \/ Update_Disk_Ctx
    \/ \E d \in Slots, n \in Numbers : Scan_Object_Context_Init(d, n)
    \/ Scan_Ends

Spec == Init /\ [][Next]_vars

----------------------------------------------------------------------------
(* Properties *)

TypeOK ==
    /\ machine \in Machines /\ rebuilds \in 0 .. MaxRebuilds
    /\ Range(disk_List) \subseteq DiskType /\ Len(disk_List) <= DISK_NUM
    /\ \A s \in Slots : Range(partition_List[s]) \subseteq PartType
    /\ total_Num \in 0 .. DISK_NUM /\ part_Total \in 0 .. PARTITION_NUM
    /\ in_Disk \in [Slots -> 0 .. PARTITION_NUM]
    /\ info \in [Numbers -> [no : Numbers, part : PartType \cup {NULL}]]
    /\ rebuild \in {"none", "parse", "free_parts", "read_parts", "update"}
    /\ i \in 0 .. DISK_NUM /\ packed \in 0 .. DISK_NUM /\ j \in 0 .. PARTITION_NUM
    /\ scan_Object \in [disk : DiskType \cup {NULL}, part : PartType \cup {NULL}]
    /\ scanning \in BOOLEAN

\* Between rebuilds, every number a client is shown names the partition it is shown with, and
\* the partitions of its disks are as many as announced, unless no disk was found and the
\* number of an earlier rebuild is shown (common.c:219-258,
\* disk_component.c:133-184).
NumbersResolve ==
    rebuild = "none" =>
        /\ \A d \in 0 .. total_Num - 1 :
              /\ Access_Disk(d) # NULL
              /\ \A n \in Shown(d) : info[n] = [no |-> n, part |-> Accecc_Partition(d, n)]
                                    /\ info[n].part # NULL
        /\ total_Num > 0 => part_Total = First[total_Num]

\* When the last rebuild could read every disk, a disk is shown with its own partitions and
\* not with what an earlier rebuild left in the same position, whatever could be read then
\* (common.c:534-582).
PartitionsOfTheirDisk ==
    (rebuild = "none" /\ \A k \in DOMAIN disk_List : disk_List[k].readable) =>
        \A d \in 0 .. total_Num - 1 : \A n \in Shown(d) :
            /\ info[n].part.disk = disk_List[d + 1].disk
            /\ info[n].part.of = disk_List[d + 1].of

\* A scan's disk and partition are not freed under it (disk_component.c:233-247,
\* common.c:638-661).
ScanObjectsLive ==
    scanning => /\ scan_Object.disk \in Range(disk_List)
                /\ \E s \in Slots : scan_Object.part \in Range(partition_List[s])

\* A scan of disk d reads a partition of disk d (common.c:219-258, 663-677).
ScanOfItsDisk == scanning => scan_Object.part.disk = scan_Object.disk.disk

=============================================================================
