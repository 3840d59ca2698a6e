-------------------------- MODULE DiskCatalog_proofs --------------------------
(***************************************************************************)
(* Theorems about DiskCatalog, for any machines that fit in its tables and *)
(* any number of rebuilds and changes of the machine:                      *)
(*                                                                         *)
(*   - types, and no position of a table beyond its end;                   *)
(*   - between rebuilds a number resolves to the partition it is shown     *)
(*     with, and, when every disk could be read, to one of its own disk;   *)
(*   - with careful clients no scan has a disk or partition that is freed. *)
(*                                                                         *)
(* The numbers of a disk start where those of the disk before it end,      *)
(* which the model says with the recursive function First.  The invariant  *)
(* TableInv says it with some table of starts, built along with the        *)
(* numbers; that it is First needs an induction over the disks.            *)
(***************************************************************************)
EXTENDS DiskCatalog, NatInduction, SequenceTheorems, TLAPS

\* As many partitions as each disk of a machine may have.
Fits(n) == \A m \in Machines : Len(m) * n <= PARTITION_NUM

\* A machine has this many disks, or none was found.
IsMachines(disks) == disks = 0 \/ \E m \in Machines : disks = Len(m)

\* The partitions of k of the disks have n numbers.
Room(disks, k, n) == disks * n <= k * PARTITION_NUM

TypeInv ==
    /\ machine \in Machines /\ rebuilds \in 0 .. MaxRebuilds
    /\ disk_List \in Seq(DiskType) /\ Len(disk_List) <= DISK_NUM
    /\ partition_List \in [Slots -> Seq(PartType)]
    /\ \A s \in Slots : Fits(Len(partition_List[s]))
    /\ total_Num \in 0 .. DISK_NUM /\ part_Total \in 0 .. PARTITION_NUM
    /\ in_Disk \in [Slots -> 0 .. PARTITION_NUM]
    /\ info \in [Numbers -> [no : Numbers, part : PartType \cup {NULL}]]
    /\ rebuild \in {"none", "parse", "free_parts", "read_parts", "update"}
    /\ i \in 0 .. DISK_NUM /\ packed \in 0 .. DISK_NUM /\ j \in 0 .. PARTITION_NUM
    /\ scan_Object \in [disk : DiskType \cup {NULL}, part : PartType \cup {NULL}]
    /\ scanning \in BOOLEAN
    /\ rebuild # "none" => rebuilds \in 1 .. MaxRebuilds
    /\ rebuild \in {"read_parts", "update"} => i <= Len(disk_List)
    /\ rebuild = "read_parts" => packed <= i
    /\ IsMachines(Len(disk_List))
    /\ rebuild = "update" => Room(Len(disk_List), i, j)

----------------------------------------------------------------------------
(* Types *)

LEMMA Bounds ==
    /\ DISK_NUM \in Nat \ {0} /\ PARTITION_NUM \in Nat \ {0} /\ MaxRebuilds \in Nat
    /\ Slots = 0 .. DISK_NUM - 1 /\ Numbers = 0 .. PARTITION_NUM - 1
BY DiskCatalogAssumption DEF Slots, Numbers

\* The numbers given to the first of several disks leave room for those of one more.
LEMMA FitsMore ==
    ASSUME NEW disks \in Nat, NEW k \in 0 .. disks - 1, NEW m \in Nat, NEW n \in Nat,
           disks * m <= k * PARTITION_NUM, disks * n <= PARTITION_NUM
    PROVE  disks * (m + n) <= (k + 1) * PARTITION_NUM /\ m + n <= PARTITION_NUM
<1>1. disks * (m + n) = disks * m + disks * n
    OBVIOUS
<1>2. (k + 1) * PARTITION_NUM = k * PARTITION_NUM + PARTITION_NUM
    BY Bounds
<1>3. disks * (m + n) <= (k + 1) * PARTITION_NUM
    BY <1>1, <1>2, Bounds
<1>4. (k + 1) * PARTITION_NUM <= disks * PARTITION_NUM
    BY Bounds
<1>5. disks * (m + n) <= disks * PARTITION_NUM
    BY <1>3, <1>4, Bounds
<1>6. ASSUME m + n >= PARTITION_NUM + 1 PROVE FALSE
    <2>1. disks * (m + n) >= disks * (PARTITION_NUM + 1)
        BY <1>6, Bounds
    <2>2. disks * (PARTITION_NUM + 1) = disks * PARTITION_NUM + disks
        BY Bounds
    <2> QED
        BY <1>5, <2>1, <2>2, Bounds
<1> QED
    BY <1>3, <1>6, Bounds

\* A disk of a machine.
LEMMA MachineDisk ==
    ASSUME NEW ms \in Machines, NEW m \in Range(ms)
    PROVE  m.disk \in Disks /\ m.parts \in Nat /\ Fits(m.parts)
<1>1. ms \in Seq([disk : STRING, readable : BOOLEAN, parts : Nat])
    BY DiskCatalogAssumption
<1>2. PICK n \in DOMAIN ms : m = ms[n]
    BY DEF Range
<1>3. m \in [disk : STRING, readable : BOOLEAN, parts : Nat]
    <2> DEFINE S == [disk : STRING, readable : BOOLEAN, parts : Nat]
    <2>1. ms \in Seq(S) /\ n \in 1 .. Len(ms)
        BY <1>1, <1>2
    <2> HIDE DEF S
    <2>2. m \in S
        BY <1>2, <2>1, ElementOfSeq
    <2> QED
        BY <2>2 DEF S
<1>4. m.disk \in Disks
    <2>1. m.disk \in {x.disk : x \in Range(ms)}
        OBVIOUS
    <2> QED
        BY <2>1 DEF Disks
<1>5. Fits(m.parts)
    BY <1>2, MachinesFit DEF Fits
<1> QED
    BY <1>3, <1>4, <1>5

LEMMA FitsNone == Fits(Len(<<>>))
<1>1. \A m \in Machines : Len(m) \in Nat
    BY DiskCatalogAssumption
<1> QED
    BY <1>1, Bounds DEF Fits

LEMMA InitType == Init => TypeInv
<1> SUFFICES ASSUME Init PROVE TypeInv
    OBVIOUS
<1> USE Bounds
<1>1. /\ total_Num = 0 /\ part_Total = 0 /\ i = 0 /\ packed = 0 /\ j = 0 /\ rebuilds = 0
      /\ disk_List = <<>> /\ rebuild = "none" /\ partition_List = [s \in Slots |-> <<>>]
      /\ in_Disk = [s \in Slots |-> 0]
    BY DEF Init
<1>2. /\ total_Num \in 0 .. DISK_NUM /\ part_Total \in 0 .. PARTITION_NUM /\ rebuilds \in 0 .. MaxRebuilds
      /\ i \in 0 .. DISK_NUM /\ packed \in 0 .. DISK_NUM /\ j \in 0 .. PARTITION_NUM
    BY <1>1
<1>3. disk_List \in Seq(DiskType) /\ Len(disk_List) <= DISK_NUM
    BY <1>1
<1>4. partition_List \in [Slots -> Seq(PartType)] /\ \A s \in Slots : Fits(Len(partition_List[s]))
    BY <1>1, FitsNone
<1>5. in_Disk \in [Slots -> 0 .. PARTITION_NUM]
    BY <1>1
<1>6. 0 \in Numbers
    OBVIOUS
<1>7. info \in [Numbers -> [no : Numbers, part : PartType \cup {NULL}]]
    BY <1>6 DEF Init, NoEntry
<1>8. /\ scan_Object \in [disk : DiskType \cup {NULL}, part : PartType \cup {NULL}]
      /\ scanning \in BOOLEAN /\ machine \in Machines
    BY DEF Init, NoObject
<1>9. IsMachines(Len(disk_List))
    BY <1>1 DEF IsMachines
<1> QED
    BY <1>1, <1>2, <1>3, <1>4, <1>5, <1>7, <1>8, <1>9 DEF TypeInv

\* First is the table of the sums that its definition says.
LEMMA FirstSums ==
    ASSUME TypeInv
    PROVE  /\ First \in [0 .. DISK_NUM -> Nat] /\ First[0] = 0
           /\ \A d \in 1 .. DISK_NUM : First[d] = First[d - 1] + in_Disk[d - 1]
<1>1. in_Disk \in [0 .. DISK_NUM - 1 -> Nat]
    <2>1. in_Disk \in [Slots -> 0 .. PARTITION_NUM] /\ Slots = 0 .. DISK_NUM - 1
        BY Bounds DEF TypeInv
    <2>2. 0 .. PARTITION_NUM \subseteq Nat
        OBVIOUS
    <2> QED
        BY <2>1, <2>2, Zenon
<1>2. First = CHOOSE f : f = SumsOf(DISK_NUM, in_Disk, f)
    BY DEF First, SumsOf
<1>3. DISK_NUM \in Nat
    BY Bounds
<1> QED
    BY ZenonT(60), <1>1, <1>2, <1>3, RunningSum

\* What the numbers of a request resolve to (common.c:219-258).
LEMMA ResolvedType ==
    ASSUME TypeInv, NEW d \in Slots, NEW n \in Numbers
    PROVE  /\ Access_Disk(d) \in Range(disk_List) \cup {NULL}
           /\ Accecc_Partition(d, n) \in Range(partition_List[d]) \cup {NULL}
           /\ Range(disk_List) \subseteq DiskType /\ Range(partition_List[d]) \subseteq PartType
<1>1. disk_List \in Seq(DiskType) /\ partition_List[d] \in Seq(PartType) /\ in_Disk[d] \in Nat
    BY Bounds DEF TypeInv
<1>2. Access_Disk(d) \in Range(disk_List) \cup {NULL}
    <2>1. CASE d < Len(disk_List)
        <3>1. d + 1 \in DOMAIN disk_List
            BY <1>1, <2>1, Bounds
        <3> QED
            BY <3>1 DEF Access_Disk, Range
    <2>2. CASE ~(d < Len(disk_List))
        BY <2>2 DEF Access_Disk
    <2> QED
        BY <2>1, <2>2
<1>3. Accecc_Partition(d, n) \in Range(partition_List[d]) \cup {NULL}
    <2>1. CASE n \in Shown(d) /\ n - First[d] < Len(partition_List[d])
        <3>1. First[d] \in Nat
            BY FirstSums, Bounds
        <3>2. n - First[d] + 1 \in DOMAIN partition_List[d]
            BY <1>1, <2>1, <3>1, Bounds DEF Shown
        <3> QED
            BY <3>2 DEF Accecc_Partition, Range
    <2>2. CASE ~(n \in Shown(d) /\ n - First[d] < Len(partition_List[d]))
        BY <2>2 DEF Accecc_Partition
    <2> QED
        BY <2>1, <2>2
<1>4. Range(disk_List) \subseteq DiskType /\ Range(partition_List[d]) \subseteq PartType
    BY <1>1 DEF Range
<1> QED
    BY <1>2, <1>3, <1>4

LEMMA StepType == ASSUME TypeInv, [Next]_vars PROVE TypeInv'
<1> USE Bounds DEF lists, tables, loop, scan, Step
<1>1. CASE Machine_Changes
    BY <1>1 DEF Machine_Changes, TypeInv
<1>2. CASE Disk_List_Free
    <2>1. rebuilds' = rebuilds + 1 /\ rebuilds < MaxRebuilds /\ rebuilds \in 0 .. MaxRebuilds
        BY <1>2 DEF Disk_List_Free, TypeInv
    <2>2. rebuilds' \in 1 .. MaxRebuilds /\ rebuilds' \in 0 .. MaxRebuilds
        BY <2>1
    <2>3. disk_List' = <<>> /\ rebuild' = "parse"
        BY <1>2 DEF Disk_List_Free
    <2>4. disk_List' \in Seq(DiskType) /\ Len(disk_List') <= DISK_NUM /\ IsMachines(Len(disk_List'))
        BY <2>3 DEF IsMachines
    <2> QED
        BY <1>2, <2>2, <2>3, <2>4 DEF Disk_List_Free, TypeInv
<1>3. CASE Disk_List_Init
    <2>1. /\ machine \in Machines /\ machine \in Seq([disk : STRING, readable : BOOLEAN, parts : Nat])
          /\ Len(machine) <= DISK_NUM
        BY DiskCatalogAssumption, MachinesFit DEF TypeInv
    <2>2. rebuild = "parse" /\ rebuild' = "free_parts" /\ rebuilds \in 1 .. MaxRebuilds
        BY <1>3 DEF Disk_List_Init, TypeInv
    <2>3. \A n \in DOMAIN machine : NewDisk(machine[n].disk) \in DiskType
        BY <2>1, <2>2, MachineDisk DEF Range, NewDisk, DiskType
    <2>4. disk_List' = [n \in 1 .. Len(machine) |-> NewDisk(machine[n].disk)]
        BY <1>3, <2>1 DEF Disk_List_Init
    <2>5. disk_List' \in Seq(DiskType) /\ Len(disk_List') = Len(machine)
        BY <2>1, <2>3, <2>4
    <2>6. Len(disk_List') <= DISK_NUM /\ IsMachines(Len(disk_List'))
        BY <2>1, <2>5 DEF IsMachines
    <2> QED
        BY <1>3, <2>2, <2>5, <2>6 DEF Disk_List_Init, TypeInv
<1>4. CASE Partition_List_Free
    <2>1. i' = 0 /\ packed' = 0 /\ rebuild = "free_parts" /\ rebuild' = "read_parts"
        BY <1>4 DEF Partition_List_Free
    <2>2. i' \in 0 .. DISK_NUM /\ packed' \in 0 .. DISK_NUM /\ i' <= Len(disk_List) /\ packed' <= i'
        BY <2>1 DEF TypeInv
    <2>3. partition_List' = partition_List \/ partition_List' = [partition_List EXCEPT ![0] = <<>>]
        BY <1>4 DEF Partition_List_Free
    <2>4. /\ partition_List' \in [Slots -> Seq(PartType)]
          /\ \A s \in Slots : Fits(Len(partition_List'[s]))
        <3>1. Fits(Len(<<>>)) /\ <<>> \in Seq(PartType)
            BY FitsNone
        <3> QED
            BY <2>3, <3>1 DEF TypeInv
    <2> QED
        BY <1>4, <2>1, <2>2, <2>4 DEF Partition_List_Free, TypeInv
<1>5. CASE Partition_List_Init
    <2>1. CASE Step("read_parts", "read_parts")
        <3>1. /\ i < Len(disk_List) /\ i' = i + 1 /\ UNCHANGED <<machine, rebuilds, tables, j, scan>>
              /\ rebuild = "read_parts" /\ rebuild' = "read_parts"
            BY <1>5, <2>1 DEF Partition_List_Init
        <3>2. /\ i \in 0 .. DISK_NUM /\ packed \in 0 .. DISK_NUM /\ packed <= i
              /\ disk_List \in Seq(DiskType) /\ Len(disk_List) <= DISK_NUM
            BY <3>1 DEF TypeInv
        <3>3. i' \in 0 .. DISK_NUM /\ packed + 1 \in 0 .. DISK_NUM /\ packed \in Slots /\ i + 1 \in 1 .. Len(disk_List)
            BY <3>1, <3>2
        <3>4. ASSUME NEW m \in Hardware(disk_List[i + 1].disk),
                     partition_List' = [partition_List EXCEPT ![packed] = Read_Part(m)],
                     disk_List' = [disk_List EXCEPT ![i + 1].readable = TRUE],
                     packed' = packed + 1
              PROVE  TypeInv'
            <4>1. m.disk \in Disks /\ m.parts \in Nat /\ Fits(m.parts)
                BY MachineDisk DEF Hardware, TypeInv
            <4>2. rebuilds \in 1 .. MaxRebuilds
                BY <3>1 DEF TypeInv
            <4>3. Read_Part(m) \in Seq(PartType) /\ Len(Read_Part(m)) = m.parts
                <5>1. \A p \in 1 .. m.parts : [of |-> rebuilds, disk |-> m.disk, part |-> p] \in PartType
                    BY <4>1, <4>2 DEF PartType
                <5> QED
                    BY <4>1, <5>1 DEF Read_Part
            <4>4. /\ partition_List' \in [Slots -> Seq(PartType)]
                  /\ \A s \in Slots : Fits(Len(partition_List'[s]))
                BY <3>3, <3>4, <4>1, <4>3 DEF TypeInv
            <4>5. [disk_List[i + 1] EXCEPT !.readable = TRUE] \in DiskType
                <5>1. disk_List[i + 1] \in DiskType
                    BY <3>2, <3>3, ElementOfSeq
                <5> QED
                    BY <5>1 DEF DiskType
            <4>6. disk_List' = [disk_List EXCEPT ![i + 1] = [disk_List[i + 1] EXCEPT !.readable = TRUE]]
                BY <3>4
            <4>7. disk_List' \in Seq(DiskType) /\ Len(disk_List') = Len(disk_List)
                BY <3>2, <3>3, <4>5, <4>6, ExceptSeq
            <4>8. i' <= Len(disk_List') /\ packed' <= i' /\ packed' \in 0 .. DISK_NUM
                BY <3>1, <3>2, <3>3, <3>4, <4>7
            <4> QED
                BY <3>1, <3>2, <3>3, <4>4, <4>7, <4>8 DEF TypeInv
        <3>5. CASE UNCHANGED <<disk_List, partition_List, packed>>
            <4>1. i' <= Len(disk_List') /\ packed' <= i'
                BY <3>1, <3>2, <3>5
            <4> QED
                BY <3>1, <3>3, <3>5, <4>1 DEF TypeInv
        <3> QED
            BY <1>5, <2>1, <3>4, <3>5 DEF Partition_List_Init
    <2>2. CASE Step("read_parts", "update")
        <3>1. i' = 0 /\ j' = 0 /\ rebuild' = "update" /\ UNCHANGED <<machine, rebuilds, lists, tables, packed, scan>>
            BY <1>5, <2>2 DEF Partition_List_Init
        <3>2. /\ i' \in 0 .. DISK_NUM /\ j' \in 0 .. PARTITION_NUM /\ i' <= Len(disk_List)
              /\ Room(Len(disk_List), i', j')
            BY SMTT(40), <3>1 DEF TypeInv, Room
        <3> QED
            BY <2>2, <3>1, <3>2 DEF TypeInv
    <2> QED
        BY <1>5, <2>1, <2>2 DEF Partition_List_Init
<1>6. CASE Update_Partition_Ctx
    <2> DEFINE parts == partition_List[i]
    <2>1. /\ rebuild = "update" /\ rebuild' = "update" /\ i < Len(disk_List) /\ i' = i + 1
          /\ j' = j + Len(parts) /\ part_Total' = j' /\ in_Disk' = [in_Disk EXCEPT ![i] = Len(parts)]
          /\ UNCHANGED <<machine, rebuilds, lists, total_Num, packed, scan>>
        BY <1>6 DEF Update_Partition_Ctx
    <2>2. /\ i \in Slots /\ i + 1 \in 0 .. DISK_NUM /\ i + 1 <= Len(disk_List) /\ j \in Nat
          /\ Room(Len(disk_List), i, j) /\ Len(disk_List) \in Nat
        <3>1. disk_List \in Seq(DiskType) /\ i \in 0 .. DISK_NUM /\ j \in 0 .. PARTITION_NUM
            BY DEF TypeInv
        <3>2. Room(Len(disk_List), i, j) /\ Len(disk_List) <= DISK_NUM
            BY <2>1 DEF TypeInv
        <3>3. Len(disk_List) \in Nat
            BY <3>1
        <3> QED
            BY <2>1, <3>1, <3>2, <3>3
    <2>3. parts \in Seq(PartType) /\ Len(parts) \in Nat /\ Fits(Len(parts))
        BY <2>2 DEF TypeInv
    <2>4. PICK disks \in Nat, k \in Nat, m \in Nat : disks = Len(disk_List) /\ k = i /\ m = Len(parts)
        <3>1. i \in Nat /\ Len(disk_List) \in Nat /\ Len(parts) \in Nat
            BY <2>2, <2>3
        <3> HIDE DEF parts
        <3> QED
            BY <3>1
    <2>5. /\ Room(Len(disk_List), i', j') /\ j' \in 0 .. PARTITION_NUM
          /\ Len(parts) \in 0 .. PARTITION_NUM
        <3>1. k \in 0 .. disks - 1 /\ disks * j <= k * PARTITION_NUM
            BY <2>1, <2>2, <2>4 DEF Room
        <3>2. disks * m <= PARTITION_NUM
            <4>1. IsMachines(disks) /\ disks # 0
                BY <2>4, <3>1 DEF TypeInv
            <4> QED
                BY <2>3, <2>4, <4>1 DEF Fits, IsMachines
        <3>3. disks * (j + m) <= (k + 1) * PARTITION_NUM /\ j + m <= PARTITION_NUM
            BY <2>2, <3>1, <3>2, FitsMore
        <3> QED
            BY <2>1, <2>2, <2>4, <3>3 DEF Room
    <2>6. in_Disk' \in [Slots -> 0 .. PARTITION_NUM]
        BY <2>1, <2>5 DEF TypeInv
    <2>7. info' = [n \in Numbers |-> IF n \in j .. j + Len(parts) - 1
                                     THEN [no |-> n, part |-> parts[n - j + 1]] ELSE info[n]]
        BY <1>6 DEF Update_Partition_Ctx
    <2>8. \A n \in Numbers : n \in j .. j + Len(parts) - 1 => parts[n - j + 1] \in PartType
        BY <2>2, <2>3
    <2>9. info' \in [Numbers -> [no : Numbers, part : PartType \cup {NULL}]]
        BY <2>7, <2>8 DEF TypeInv
    <2> QED
        BY <2>1, <2>2, <2>5, <2>6, <2>9 DEF TypeInv
<1>7. CASE Update_Disk_Ctx
    BY <1>7 DEF Update_Disk_Ctx, TypeInv
<1>8. ASSUME NEW d \in Slots, NEW n \in Numbers, Scan_Object_Context_Init(d, n) PROVE TypeInv'
    <2>1. scan_Object' \in [disk : DiskType \cup {NULL}, part : PartType \cup {NULL}]
        BY <1>8, ResolvedType DEF Scan_Object_Context_Init, Resolved
    <2>2. scanning' \in BOOLEAN
        BY <1>8, Zenon DEF Scan_Object_Context_Init, TypeInv
    <2> QED
        BY <1>8, <2>1, <2>2 DEF Scan_Object_Context_Init, TypeInv
<1>9. CASE Scan_Ends
    BY <1>9 DEF Scan_Ends, TypeInv
<1>10. CASE UNCHANGED vars
    BY <1>10 DEF vars, TypeInv
<1> QED
    BY <1>1, <1>2, <1>3, <1>4, <1>5, <1>6, <1>7, <1>8, <1>9, <1>10 DEF Next

LEMMA TypesHold == Spec => []TypeInv
BY InitType, StepType, PTL DEF Spec

\* Types; in particular the tables that clients are shown are not written past their ends, as long
\* as the machine fits in them (common.c:504-582, disk_component.c:133-184).
THEOREM TypeCorrect == Spec => []TypeOK
<1>1. ASSUME TypeInv PROVE TypeOK
    <2>1. Range(disk_List) \subseteq DiskType /\ \A s \in Slots : Range(partition_List[s]) \subseteq PartType
        BY <1>1 DEF TypeInv, Range
    <2> QED
        BY <1>1, <2>1 DEF TypeInv, TypeOK
<1> QED
    BY <1>1, TypesHold, PTL

----------------------------------------------------------------------------
(* The numbers clients are shown *)

Starts == [0 .. DISK_NUM -> 0 .. PARTITION_NUM]

\* The first k disks have been numbered, each from its start on, up to top.
Numbered(start, k, top, sizes, parts, shown) ==
    /\ start[0] = 0 /\ start[k] = top /\ \A d \in 0 .. k : start[d] <= top
    /\ \A d \in 0 .. k - 1 :
          /\ start[d + 1] = start[d] + sizes[d]
          /\ sizes[d] = Len(parts[d])
          /\ \A n \in start[d] .. start[d + 1] - 1 :
                shown[n] = [no |-> n, part |-> parts[d][n - start[d] + 1]]

TableInv ==
    /\ rebuild = "update" =>
          /\ \E start \in Starts : Numbered(start, i, j, in_Disk, partition_List, info)
          /\ i > 0 => part_Total = j
    /\ rebuild = "none" =>
          /\ total_Num = Len(disk_List)
          /\ \E start \in Starts : Numbered(start, total_Num, j, in_Disk, partition_List, info)
          /\ total_Num > 0 => part_Total = j

\* The partitions of the first k disks are of these disks.
Own(k, disks, parts) ==
    \A d \in 0 .. k - 1 : \A p \in 1 .. Len(parts[d]) :
        parts[d][p].disk = disks[d + 1].disk /\ parts[d][p].of = disks[d + 1].of

AllReadable(k, disks) == \A n \in 1 .. k : disks[n].readable

OwnInv ==
    /\ rebuild \in {"free_parts", "read_parts"} =>
          \A n \in 1 .. Len(disk_List) : disk_List[n].of = rebuilds
    /\ rebuild = "free_parts" => \A n \in 1 .. Len(disk_List) : ~disk_List[n].readable
    /\ rebuild = "read_parts" =>
          /\ \A n \in i + 1 .. Len(disk_List) : ~disk_List[n].readable
          /\ AllReadable(i, disk_List) => packed = i /\ Own(i, disk_List, partition_List)
    /\ rebuild \in {"update", "none"} =>
          (AllReadable(Len(disk_List), disk_List) => Own(Len(disk_List), disk_List, partition_List))

\* With careful clients no rebuild begins while a scan is under way.
LiveInv == scanning => rebuild = "none" /\ ScanObjectsLive

\* One of the first k disks, and the one at position k.
LEMMA EarlierDisk ==
    ASSUME NEW k \in Slots, NEW d \in 0 .. k
    PROVE  d = k \/ (d \in 0 .. k - 1 /\ d + 1 \in 0 .. k /\ d \in Slots /\ d # k)
BY Bounds

\* A number of an earlier disk is none of those from top on.
LEMMA NotYet ==
    ASSUME NEW top \in 0 .. PARTITION_NUM, NEW n \in Nat, NEW from \in Nat, NEW to \in Nat, to <= top,
           NEW m \in from .. to - 1
    PROVE  m \in Numbers /\ ~(m \in top .. top + n - 1)
BY Bounds

\* The table of shown partitions after those of one disk were put from position top on.
Shows(shown, top, n, part) ==
    [m \in Numbers |-> IF m \in top .. top + n - 1 THEN [no |-> m, part |-> part[m - top + 1]]
                       ELSE shown[m]]

\* The disk at position k gets the next numbers.
LEMMA NumberedMore ==
    ASSUME NEW start \in Starts, NEW k \in Slots, NEW top \in 0 .. PARTITION_NUM,
           NEW sizes \in [Slots -> 0 .. PARTITION_NUM], NEW parts, NEW shown,
           NEW n \in Nat, n = Len(parts[k]), top + n <= PARTITION_NUM,
           Numbered(start, k, top, sizes, parts, shown),
           NEW next, next = [start EXCEPT ![k + 1] = top + n],
           NEW sizes2, sizes2 = [sizes EXCEPT ![k] = n],
           NEW shown2, shown2 = Shows(shown, top, n, parts[k])
    PROVE  Numbered(next, k + 1, top + n, sizes2, parts, shown2)
<1> USE Bounds
<1>1. /\ next \in Starts /\ next[k + 1] = top + n
      /\ \A d \in 0 .. k : next[d] = start[d]
    <2>1. k + 1 \in 0 .. DISK_NUM /\ top + n \in 0 .. PARTITION_NUM /\ ~(k + 1 \in 0 .. k)
        OBVIOUS
    <2>2. start \in [0 .. DISK_NUM -> 0 .. PARTITION_NUM]
        BY DEF Starts
    <2>3. next \in [0 .. DISK_NUM -> 0 .. PARTITION_NUM] /\ next[k + 1] = top + n
        BY <2>1, <2>2
    <2>4. \A d \in 0 .. k : d \in 0 .. DISK_NUM /\ d # k + 1
        OBVIOUS
    <2> QED
        BY <2>2, <2>3, <2>4 DEF Starts
<1>2. start[0] = 0 /\ start[k] = top /\ \A d \in 0 .. k : start[d] <= top
    BY DEF Numbered
<1>3. next[0] = 0 /\ \A d \in 0 .. k + 1 : next[d] <= top + n
    <2>1. ASSUME NEW d \in 0 .. k PROVE next[d] \in Int /\ next[d] <= top
        <3>1. start[d] \in 0 .. PARTITION_NUM
            <4>1. d \in 0 .. DISK_NUM
                OBVIOUS
            <4> QED
                BY <4>1 DEF Starts
        <3> QED
            BY <1>1, <1>2, <3>1
    <2>2. ASSUME NEW d \in 0 .. k + 1 PROVE next[d] <= top + n
        <3>1. d \in 0 .. k \/ d = k + 1
            OBVIOUS
        <3>2. ASSUME d \in 0 .. k PROVE next[d] <= top + n
            <4>1. next[d] \in Int /\ next[d] <= top
                BY <2>1, <3>2
            <4> QED
                BY <4>1
        <3> QED
            BY <1>1, <3>1, <3>2
    <2> QED
        BY <1>1, <1>2, <2>2
<1>4. sizes2[k] = n /\ \A d \in Slots : d # k => sizes2[d] = sizes[d]
    OBVIOUS
<1>5. ASSUME NEW d \in 0 .. k
      PROVE  /\ next[d + 1] = next[d] + sizes2[d]
             /\ sizes2[d] = Len(parts[d])
             /\ \A m \in next[d] .. next[d + 1] - 1 :
                   shown2[m] = [no |-> m, part |-> parts[d][m - next[d] + 1]]
    <2>1. CASE d = k
        <3>1. next[d] = top /\ next[d + 1] = top + n /\ sizes2[d] = n
            BY <1>1, <1>2, <1>4, <2>1
        <3>2. \A m \in top .. top + n - 1 : shown2[m] = [no |-> m, part |-> parts[k][m - top + 1]]
            BY DEF Shows
        <3>3. sizes2[d] = Len(parts[d]) /\ next[d + 1] = next[d] + sizes2[d]
            BY <2>1, <3>1
        <3>4. ASSUME NEW m \in next[d] .. next[d + 1] - 1
              PROVE  shown2[m] = [no |-> m, part |-> parts[d][m - next[d] + 1]]
            <4>1. top + n - 1 = (top + n) - 1
                OBVIOUS
            <4>2. m \in top .. top + n - 1
                BY <3>1, <3>4, <4>1
            <4> QED
                BY <2>1, <3>1, <3>2, <4>2
        <3> QED
            BY <3>3, <3>4
    <2>2. CASE d # k
        <3>1. d \in 0 .. k - 1 /\ d + 1 \in 0 .. k /\ d \in Slots /\ d # k
            BY <2>2, EarlierDisk
        <3>2. next[d] = start[d] /\ next[d + 1] = start[d + 1] /\ sizes2[d] = sizes[d]
            BY <1>1, <1>4, <3>1
        <3>3. /\ start[d + 1] = start[d] + sizes[d] /\ sizes[d] = Len(parts[d])
              /\ \A m \in start[d] .. start[d + 1] - 1 :
                    shown[m] = [no |-> m, part |-> parts[d][m - start[d] + 1]]
            BY <3>1 DEF Numbered
        <3>4. start[d] \in 0 .. PARTITION_NUM /\ start[d + 1] \in 0 .. PARTITION_NUM /\ start[d + 1] <= top
            <4>1. start \in [0 .. DISK_NUM -> 0 .. PARTITION_NUM]
                BY DEF Starts
            <4>2. d \in 0 .. DISK_NUM /\ d + 1 \in 0 .. DISK_NUM
                BY <3>1
            <4>3. start[d] \in 0 .. PARTITION_NUM /\ start[d + 1] \in 0 .. PARTITION_NUM
                BY <4>1, <4>2, Zenon
            <4>4. start[d + 1] <= top
                BY <1>2, <3>1, Zenon
            <4> QED
                BY <4>3, <4>4
        <3>5. \A m \in start[d] .. start[d + 1] - 1 : shown2[m] = shown[m]
            <4>1. ASSUME NEW m \in start[d] .. start[d + 1] - 1
                  PROVE  m \in Numbers /\ ~(m \in top .. top + n - 1)
                <5>1. start[d] \in Nat
                    BY <3>4
                <5>2. start[d + 1] \in Nat
                    BY <3>4
                <5> QED
                    BY <3>4, <4>1, <5>1, <5>2, NotYet, ZenonT(30)
            <4> QED
                BY <4>1 DEF Shows
        <3> QED
            BY <3>2, <3>3, <3>5
    <2> QED
        BY <2>1, <2>2
<1> QED
    BY <1>1, <1>3, <1>5 DEF Numbered

LEMMA StepTable == ASSUME TypeInv, TableInv, [Next]_vars PROVE TableInv'
<1> USE Bounds DEF lists, tables, loop, scan, Step
<1>1. CASE Update_Partition_Ctx
    <2>1. /\ rebuild = "update" /\ rebuild' = "update" /\ i < Len(disk_List) /\ i' = i + 1
          /\ j' = j + Len(partition_List[i]) /\ part_Total' = j'
          /\ in_Disk' = [in_Disk EXCEPT ![i] = Len(partition_List[i])]
          /\ UNCHANGED partition_List
        BY <1>1 DEF Update_Partition_Ctx
    <2>2. PICK k \in Slots, top \in 0 .. PARTITION_NUM : k = i /\ top = j
        BY <2>1 DEF TypeInv
    <2>3. PICK n \in Nat : n = Len(partition_List[k])
        BY <2>2 DEF TypeInv
    <2>4. top + n <= PARTITION_NUM
        <3>1. j' \in 0 .. PARTITION_NUM
            <4>1. TypeInv'
                BY StepType
            <4> QED
                BY <4>1 DEF TypeInv
        <3> QED
            BY <2>1, <2>2, <2>3, <3>1
    <2>5. PICK start \in Starts : Numbered(start, k, top, in_Disk, partition_List, info)
        BY <2>1, <2>2 DEF TableInv
    <2> DEFINE next == [start EXCEPT ![k + 1] = top + n]
    <2>6. next \in Starts
        BY <2>4 DEF Starts
    <2>7. info' = Shows(info, top, n, partition_List[k])
        BY <1>1, <2>2, <2>3 DEF Update_Partition_Ctx, Shows
    <2>8. in_Disk \in [Slots -> 0 .. PARTITION_NUM] /\ in_Disk' = [in_Disk EXCEPT ![k] = n]
        BY <2>1, <2>2, <2>3 DEF TypeInv
    <2>9. Numbered(next, k + 1, top + n, in_Disk', partition_List, info')
        <3>1. n = Len(partition_List[k]) /\ top + n <= PARTITION_NUM
            BY <2>3, <2>4
        <3>2. PICK nx : nx = next
            OBVIOUS
        <3> QED
            BY <2>5, <2>7, <2>8, <3>1, <3>2, NumberedMore
    <2> HIDE DEF next
    <2> QED
        BY <2>1, <2>2, <2>3, <2>6, <2>9 DEF TableInv
<1>2. CASE Update_Disk_Ctx
    <2>1. /\ rebuild = "update" /\ rebuild' = "none" /\ total_Num' = i /\ i >= Len(disk_List)
          /\ UNCHANGED <<disk_List, partition_List, in_Disk, info, part_Total, j>>
        BY <1>2 DEF Update_Disk_Ctx
    <2>2. i = Len(disk_List)
        BY <2>1 DEF TypeInv
    <2> QED
        BY <2>1, <2>2 DEF TableInv
<1>3. CASE rebuild' \notin {"update", "none"}
    BY <1>3 DEF TableInv
<1>4. CASE Step("read_parts", "update") /\ Partition_List_Init
    <2>1. rebuild' = "update" /\ i' = 0 /\ j' = 0
        BY <1>4 DEF Partition_List_Init
    <2> DEFINE start == [d \in 0 .. DISK_NUM |-> 0]
    <2>2. start \in Starts /\ Numbered(start, 0, 0, in_Disk', partition_List', info')
        BY DEF Numbered, Starts
    <2> HIDE DEF start
    <2> QED
        BY <2>1, <2>2 DEF TableInv
<1>5. CASE UNCHANGED <<lists, tables, rebuild, loop>>
    BY <1>5 DEF TableInv
<1>6. CASE Disk_List_Free \/ Disk_List_Init \/ Partition_List_Free \/ Partition_List_Init
    BY <1>3, <1>4, <1>6 DEF Disk_List_Free, Disk_List_Init, Partition_List_Free, Partition_List_Init
<1> QED
    BY <1>1, <1>2, <1>5, <1>6 DEF Next, vars, Machine_Changes, Scan_Object_Context_Init, Scan_Ends

----------------------------------------------------------------------------
(* The partitions of the disks *)

\* A disk that could be read is marked, and keeps the rest.
LEMMA Marked ==
    ASSUME NEW disks \in Seq(DiskType), NEW k \in 1 .. Len(disks),
           NEW disks2, disks2 = [disks EXCEPT ![k] = [disks[k] EXCEPT !.readable = TRUE]]
    PROVE  /\ Len(disks2) = Len(disks)
           /\ \A n \in 1 .. Len(disks) : /\ disks2[n].disk = disks[n].disk /\ disks2[n].of = disks[n].of
                                         /\ n # k => disks2[n] = disks[n]
<1>1. disks[k] \in DiskType
    BY ElementOfSeq
<1>2. [disks[k] EXCEPT !.readable = TRUE] \in DiskType
    BY <1>1 DEF DiskType
<1>3. PICK d \in DiskType : d = [disks[k] EXCEPT !.readable = TRUE]
    BY <1>2
<1>4. d.disk = disks[k].disk /\ d.of = disks[k].of
    BY <1>1, <1>3 DEF DiskType
<1>5. disks2 = [disks EXCEPT ![k] = d]
    BY <1>3
<1>6. Len(disks2) = Len(disks) /\ disks2[k] = d /\ \A n \in 1 .. Len(disks) : n # k => disks2[n] = disks[n]
    <2> DEFINE seq == [disks EXCEPT ![k] = d]
    <2>1. Len(seq) = Len(disks) /\ seq[k] = d /\ \A n \in 1 .. Len(disks) : n # k => seq[n] = disks[n]
        OBVIOUS
    <2> QED
        BY <1>5, <2>1
<1> QED
    BY <1>4, <1>6

\* The disk at position k could be read as well, and its partitions got position k.
LEMMA OwnMore ==
    ASSUME NEW disks \in Seq(DiskType), NEW parts \in [Slots -> Seq(PartType)],
           NEW k \in Slots, k < Len(disks), Own(k, disks, parts), NEW more \in Seq(PartType),
           \A p \in 1 .. Len(more) : more[p].disk = disks[k + 1].disk /\ more[p].of = disks[k + 1].of,
           NEW disks2,
           \A n \in 1 .. Len(disks) : disks2[n].disk = disks[n].disk /\ disks2[n].of = disks[n].of,
           NEW parts2, parts2 = [parts EXCEPT ![k] = more]
    PROVE  Own(k + 1, disks2, parts2)
<1>2. ASSUME NEW d \in 0 .. (k + 1) - 1, NEW p \in 1 .. Len(parts2[d])
      PROVE  parts2[d][p].disk = disks2[d + 1].disk /\ parts2[d][p].of = disks2[d + 1].of
    <2>1. d + 1 \in 1 .. Len(disks) /\ d \in Slots /\ (d = k \/ d \in 0 .. k - 1)
        BY <1>2, Bounds
    <2>2. disks2[d + 1].disk = disks[d + 1].disk /\ disks2[d + 1].of = disks[d + 1].of
        BY <2>1
    <2>3. CASE d = k
        <3>1. parts2[d] = more
            BY <2>3
        <3> QED
            BY <1>2, <2>2, <2>3, <3>1
    <2>4. CASE d # k
        <3>1. parts2[d] = parts[d]
            BY <2>1, <2>4
        <3>2. d \in 0 .. k - 1
            BY <2>1, <2>4
        <3> QED
            BY <1>2, <2>2, <3>1, <3>2 DEF Own
    <2> QED
        BY <2>3, <2>4
<1> QED
    BY <1>2 DEF Own

LEMMA StepOwn == ASSUME TypeInv, OwnInv, [Next]_vars PROVE OwnInv'
<1> USE Bounds DEF lists, tables, loop, scan, Step
<1>1. CASE Disk_List_Free
    BY <1>1 DEF Disk_List_Free, OwnInv
<1>2. CASE Disk_List_Init
    <2>1. rebuild' = "free_parts" /\ disk_List' = [n \in DOMAIN machine |-> NewDisk(machine[n].disk)]
          /\ rebuilds' = rebuilds
        BY <1>2 DEF Disk_List_Init
    <2>2. \A n \in DOMAIN disk_List' : disk_List'[n].of = rebuilds /\ ~disk_List'[n].readable
        BY <2>1 DEF NewDisk
    <2>3. disk_List' \in Seq(DiskType)
        BY StepType DEF TypeInv
    <2>4. DOMAIN disk_List' = 1 .. Len(disk_List')
        BY <2>3
    <2> QED
        BY <2>1, <2>2, <2>4 DEF OwnInv
<1>3. CASE Partition_List_Free
    <2>1. rebuild = "free_parts" /\ rebuild' = "read_parts" /\ i' = 0 /\ packed' = 0
          /\ UNCHANGED <<disk_List, rebuilds>>
        BY <1>3 DEF Partition_List_Free
    <2>2. Own(0, disk_List', partition_List')
        BY DEF Own
    <2>3. \A n \in 1 .. Len(disk_List) : ~disk_List[n].readable /\ disk_List[n].of = rebuilds
        BY <2>1 DEF OwnInv
    <2> QED
        BY <2>1, <2>2, <2>3 DEF OwnInv
<1>4. CASE Partition_List_Init /\ Step("read_parts", "read_parts")
    <2>1. rebuild = "read_parts" /\ rebuild' = "read_parts" /\ i < Len(disk_List) /\ i' = i + 1
          /\ UNCHANGED rebuilds
        BY <1>4 DEF Partition_List_Init
    <2>2. PICK k \in Slots : k = i
        BY <2>1 DEF TypeInv
    <2>3. /\ disk_List \in Seq(DiskType) /\ partition_List \in [Slots -> Seq(PartType)]
          /\ k + 1 \in 1 .. Len(disk_List)
        <3>1. disk_List \in Seq(DiskType) /\ partition_List \in [Slots -> Seq(PartType)]
            BY DEF TypeInv
        <3>2. k \in Nat /\ k < Len(disk_List) /\ Len(disk_List) \in Nat
            BY <2>1, <2>2, <3>1
        <3> QED
            BY <3>1, <3>2
    <2>4. \A n \in 1 .. Len(disk_List) : disk_List[n].of = rebuilds
        BY <2>1 DEF OwnInv
    <2>5. \A n \in k + 1 .. Len(disk_List) : ~disk_List[n].readable
        BY <2>1, <2>2 DEF OwnInv
    <2>6. AllReadable(k, disk_List) => packed = k /\ Own(k, disk_List, partition_List)
        BY <2>1, <2>2 DEF OwnInv
    <2>7. ASSUME NEW m \in Hardware(disk_List[i + 1].disk),
                 partition_List' = [partition_List EXCEPT ![packed] = Read_Part(m)],
                 disk_List' = [disk_List EXCEPT ![i + 1].readable = TRUE],
                 packed' = packed + 1
          PROVE  OwnInv'
        <3>1. disk_List' = [disk_List EXCEPT ![k + 1].readable = TRUE] /\ m.disk = disk_List[k + 1].disk
            BY <2>2, <2>7 DEF Hardware
        <3>2. m.disk \in Disks /\ m.parts \in Nat /\ rebuilds \in 1 .. MaxRebuilds
            BY <2>1, MachineDisk DEF Hardware, TypeInv
        <3>3. PICK disks : disks = disk_List'
            OBVIOUS
        <3>4. /\ Len(disks) = Len(disk_List)
              /\ \A n \in 1 .. Len(disk_List) : /\ disks[n].disk = disk_List[n].disk
                                                /\ disks[n].of = disk_List[n].of
                                                /\ n # k + 1 => disks[n] = disk_List[n]
            <4>1. disks = [disk_List EXCEPT ![k + 1] = [disk_List[k + 1] EXCEPT !.readable = TRUE]]
                BY <3>1, <3>3
            <4> QED
                BY <2>3, <4>1, Marked
        <3>5. /\ \A n \in 1 .. Len(disks) : disks[n].of = rebuilds
              /\ \A n \in (k + 1) + 1 .. Len(disks) : ~disks[n].readable
            <4>1. \A n \in (k + 1) + 1 .. Len(disks) :
                     n \in 1 .. Len(disk_List) /\ n # k + 1 /\ n \in k + 1 .. Len(disk_List)
                BY <2>3, <3>4
            <4>2. ASSUME NEW n \in (k + 1) + 1 .. Len(disks) PROVE ~disks[n].readable
                <5>1. disks[n] = disk_List[n] /\ ~disk_List[n].readable
                    BY <2>5, <3>4, <4>1, <4>2
                <5> QED
                    BY <5>1
            <4>3. ASSUME NEW n \in 1 .. Len(disks) PROVE disks[n].of = rebuilds
                <5>1. n \in 1 .. Len(disk_List)
                    BY <3>4, <4>3
                <5> QED
                    BY <2>4, <3>4, <5>1
            <4> QED
                BY <4>2, <4>3
        <3>6. ASSUME AllReadable(k + 1, disks)
              PROVE  packed' = k + 1 /\ Own(k + 1, disks, partition_List')
            <4>1. \A n \in 1 .. k : n \in 1 .. k + 1 /\ n \in 1 .. Len(disk_List) /\ n # k + 1
                BY <2>3
            <4>2. AllReadable(k, disk_List)
                <5> SUFFICES ASSUME NEW n \in 1 .. k PROVE disk_List[n].readable
                    BY DEF AllReadable
                <5>1. disks[n] = disk_List[n]
                    <6>1. n \in 1 .. Len(disk_List) /\ n # k + 1
                        BY <4>1
                    <6> QED
                        BY <3>4, <6>1
                <5>2. disks[n].readable
                    BY <3>6, <4>1 DEF AllReadable
                <5> QED
                    BY <5>1, <5>2
            <4>3. packed = k /\ Own(k, disk_List, partition_List)
                BY <2>6, <4>2
            <4>4. Read_Part(m) \in Seq(PartType) /\ Len(Read_Part(m)) = m.parts
                <5>1. \A p \in 1 .. m.parts : [of |-> rebuilds, disk |-> m.disk, part |-> p] \in PartType
                    BY <3>2 DEF PartType
                <5> QED
                    BY <3>2, <5>1 DEF Read_Part
            <4>5. \A p \in 1 .. Len(Read_Part(m)) : /\ Read_Part(m)[p].disk = disk_List[k + 1].disk
                                                    /\ Read_Part(m)[p].of = disk_List[k + 1].of
                BY <2>3, <2>4, <3>1, <3>2, <4>4 DEF Read_Part
            <4>6. k < Len(disk_List)
                BY <2>1, <2>2
            <4>7. PICK more : more = Read_Part(m)
                OBVIOUS
            <4>8. PICK parts2 : parts2 = [partition_List EXCEPT ![k] = more]
                OBVIOUS
            <4>9. \A n \in 1 .. Len(disk_List) :
                     disks[n].disk = disk_List[n].disk /\ disks[n].of = disk_List[n].of
                BY <3>4
            <4>10. Own(k + 1, disks, parts2)
                BY <2>3, <4>3, <4>4, <4>5, <4>6, <4>7, <4>8, <4>9, OwnMore
            <4> QED
                BY <2>7, <4>3, <4>7, <4>8, <4>10
        <3>7. rebuild' = "read_parts" /\ i' = k + 1 /\ rebuilds' = rebuilds
            BY <2>1, <2>2
        <3> QED
            BY <3>3, <3>5, <3>6, <3>7 DEF OwnInv
    <2>8. CASE UNCHANGED <<disk_List, partition_List, packed>>
        <3>1. ~AllReadable(k + 1, disk_List)
            <4>1. k + 1 \in 1 .. k + 1 /\ k + 1 \in k + 1 .. Len(disk_List)
                BY <2>3
            <4> QED
                BY <2>5, <4>1 DEF AllReadable
        <3>2. \A n \in i' + 1 .. Len(disk_List) : n \in k + 1 .. Len(disk_List)
            BY <2>1, <2>2, <2>3
        <3>3. \A n \in i' + 1 .. Len(disk_List') : ~disk_List'[n].readable
            BY <2>5, <2>8, <3>2
        <3> QED
            BY <2>1, <2>2, <2>4, <2>8, <3>1, <3>3 DEF OwnInv
    <2> QED
        BY <1>4, <2>7, <2>8 DEF Partition_List_Init
<1>5. CASE Partition_List_Init /\ Step("read_parts", "update")
    <2>1. rebuild = "read_parts" /\ rebuild' = "update" /\ i >= Len(disk_List)
          /\ UNCHANGED <<disk_List, partition_List>>
        BY <1>5 DEF Partition_List_Init
    <2>2. i = Len(disk_List)
        BY <2>1 DEF TypeInv
    <2> QED
        BY <2>1, <2>2 DEF OwnInv
<1>6. CASE UNCHANGED <<lists, rebuild, rebuilds, i, packed>>
    BY <1>6 DEF OwnInv
<1>7. CASE Update_Partition_Ctx \/ Update_Disk_Ctx
    <2>1. rebuild' \in {"update", "none"} /\ rebuild = "update" /\ UNCHANGED lists
        BY <1>7 DEF Update_Partition_Ctx, Update_Disk_Ctx
    <2> QED
        BY <2>1 DEF OwnInv
<1>8. CASE Partition_List_Init
    BY <1>4, <1>5, <1>8 DEF Partition_List_Init
<1> QED
    BY <1>1, <1>2, <1>3, <1>6, <1>7, <1>8
    DEF Next, vars, Machine_Changes, Scan_Object_Context_Init, Scan_Ends

LEMMA InitNumbers == Init => TableInv /\ OwnInv /\ LiveInv
<1> SUFFICES ASSUME Init PROVE TableInv /\ OwnInv /\ LiveInv
    OBVIOUS
<1> USE Bounds
<1>1. rebuild = "none" /\ total_Num = 0 /\ j = 0 /\ disk_List = <<>> /\ scanning = FALSE
    BY DEF Init
<1> DEFINE start == [d \in 0 .. DISK_NUM |-> 0]
<1>2. start \in Starts /\ Numbered(start, 0, 0, in_Disk, partition_List, info)
    BY DEF Numbered, Starts
<1> HIDE DEF start
<1>3. Own(0, disk_List, partition_List)
    BY DEF Own
<1>4. Len(disk_List) = 0
    BY <1>1
<1>5. TableInv
    BY <1>1, <1>2, <1>4 DEF TableInv
<1>6. OwnInv
    BY <1>1, <1>3, <1>4 DEF OwnInv
<1> QED
    BY <1>1, <1>5, <1>6 DEF LiveInv

LEMMA NumbersHold == Spec => [](TypeInv /\ TableInv /\ OwnInv)
BY InitNumbers, StepTable, StepOwn, InitType, StepType, PTL DEF Spec

\* Any table of starts is the one the requests compute.
LEMMA StartsAreFirst ==
    ASSUME TypeInv, NEW start \in Starts, NEW k \in 0 .. DISK_NUM, NEW top,
           Numbered(start, k, top, in_Disk, partition_List, info)
    PROVE  \A d \in 0 .. k : First[d] = start[d]
<1> DEFINE S == {n \in Nat : n <= k => First[n] = start[n]}
<1> USE Bounds
<1>1. 0 \in S
    BY FirstSums DEF Numbered
<1>2. ASSUME NEW n \in Nat, n \in S PROVE n + 1 \in S
    <2> SUFFICES ASSUME n + 1 <= k PROVE First[n + 1] = start[n + 1]
        OBVIOUS
    <2>1. n \in 0 .. k - 1 /\ n + 1 \in 1 .. DISK_NUM /\ (n + 1) - 1 = n
        OBVIOUS
    <2>2. First[n] = start[n]
        BY <1>2, <2>1
    <2>3. First[n + 1] = First[n] + in_Disk[n]
        BY <2>1, FirstSums
    <2>4. start[n + 1] = start[n] + in_Disk[n]
        BY <2>1 DEF Numbered
    <2> QED
        BY <2>2, <2>3, <2>4
<1>3. Nat \subseteq S
    <2> HIDE DEF S
    <2> QED
        BY <1>1, <1>2, NatSet
<1> QED
    BY <1>3

\* Between rebuilds, a number that is shown with a disk is shown with one of the partitions that
\* testdisk has in the position of the disk.
LEMMA ShownPartition ==
    ASSUME TypeInv, TableInv, rebuild = "none", NEW d \in 0 .. total_Num - 1, NEW n \in Shown(d)
    PROVE  /\ d \in Slots /\ d + 1 \in 1 .. Len(disk_List) /\ d < total_Num /\ d < Len(disk_List)
           /\ n - First[d] < Len(partition_List[d])
           /\ n - First[d] + 1 \in 1 .. Len(partition_List[d])
           /\ info[n] = [no |-> n, part |-> partition_List[d][n - First[d] + 1]]
<1>1. total_Num = Len(disk_List) /\ total_Num \in 0 .. DISK_NUM
    BY DEF TableInv, TypeInv
<1>2. d \in Slots /\ d + 1 \in 1 .. Len(disk_List) /\ d < total_Num /\ d < Len(disk_List)
    BY <1>1, Bounds
<1>3. PICK start \in Starts : Numbered(start, total_Num, j, in_Disk, partition_List, info)
    BY DEF TableInv
<1>4. /\ start[d + 1] = start[d] + in_Disk[d] /\ in_Disk[d] = Len(partition_List[d])
      /\ \A m \in start[d] .. start[d + 1] - 1 :
            info[m] = [no |-> m, part |-> partition_List[d][m - start[d] + 1]]
    BY <1>3 DEF Numbered
<1>5. First[d] = start[d]
    <2>1. d \in 0 .. total_Num
        BY <1>1
    <2> QED
        BY <1>1, <1>3, <2>1, StartsAreFirst
<1>6. start[d] \in Nat /\ in_Disk[d] \in Nat
    <2>1. d \in 0 .. DISK_NUM
        BY <1>2, Bounds
    <2>2. start[d] \in 0 .. PARTITION_NUM
        BY <2>1 DEF Starts
    <2>3. in_Disk[d] \in 0 .. PARTITION_NUM
        BY <1>2 DEF TypeInv
    <2> QED
        BY <2>2, <2>3, Bounds
<1>7. n \in start[d] .. start[d] + in_Disk[d] - 1
    BY <1>5 DEF Shown
<1>8. n \in start[d] .. start[d + 1] - 1
    BY <1>4, <1>6, <1>7
<1>9. n - start[d] < in_Disk[d] /\ n - start[d] + 1 \in 1 .. in_Disk[d]
    BY <1>6, <1>7
<1>10. info[n] = [no |-> n, part |-> partition_List[d][n - start[d] + 1]]
    BY <1>4, <1>8
<1> QED
    BY <1>2, <1>4, <1>5, <1>9, <1>10

\* Between rebuilds, every number a client is shown names the partition it is shown with
\* (common.c:219-258, disk_component.c:133-184).
THEOREM Resolves == Spec => []NumbersResolve
<1>1. ASSUME TypeInv, TableInv PROVE NumbersResolve
    <2> SUFFICES ASSUME rebuild = "none"
                 PROVE  /\ \A d \in 0 .. total_Num - 1 :
                              /\ Access_Disk(d) # NULL
                              /\ \A n \in Shown(d) :
                                    /\ info[n] = [no |-> n, part |-> Accecc_Partition(d, n)]
                                    /\ info[n].part # NULL
                        /\ total_Num > 0 => part_Total = First[total_Num]
        BY DEF NumbersResolve
    <2>1. total_Num = Len(disk_List) /\ total_Num \in 0 .. DISK_NUM
        BY <1>1 DEF TableInv, TypeInv
    <2>2. ASSUME NEW d \in 0 .. total_Num - 1 PROVE Access_Disk(d) # NULL
        <3>1. d < total_Num /\ d < Len(disk_List) /\ d + 1 \in 1 .. Len(disk_List)
            BY <2>1
        <3>2. disk_List[d + 1] \in DiskType
            <4>1. disk_List \in Seq(DiskType)
                BY <1>1 DEF TypeInv
            <4> QED
                BY <3>1, <4>1, ElementOfSeq
        <3> QED
            BY <3>1, <3>2, NullAssumption DEF Access_Disk
    <2>3. ASSUME NEW d \in 0 .. total_Num - 1, NEW n \in Shown(d)
          PROVE  info[n] = [no |-> n, part |-> Accecc_Partition(d, n)] /\ info[n].part # NULL
        <3>1. /\ d \in Slots /\ d < total_Num /\ d < Len(disk_List)
              /\ n - First[d] < Len(partition_List[d])
              /\ n - First[d] + 1 \in 1 .. Len(partition_List[d])
              /\ info[n] = [no |-> n, part |-> partition_List[d][n - First[d] + 1]]
            BY <1>1, <2>3, ShownPartition
        <3>2. Accecc_Partition(d, n) = partition_List[d][n - First[d] + 1]
            BY <3>1 DEF Accecc_Partition
        <3>3. partition_List[d][n - First[d] + 1] \in PartType
            <4>1. partition_List[d] \in Seq(PartType)
                BY <1>1, <3>1 DEF TypeInv
            <4> QED
                BY <3>1, <4>1, ElementOfSeq
        <3> QED
            BY <3>1, <3>2, <3>3, NullAssumption
    <2>4. ASSUME total_Num > 0 PROVE part_Total = First[total_Num]
        <3>1. PICK start \in Starts : Numbered(start, total_Num, j, in_Disk, partition_List, info)
            BY <1>1 DEF TableInv
        <3>2. start[total_Num] = j /\ part_Total = j
            BY <1>1, <2>4, <3>1 DEF TableInv, Numbered
        <3>3. total_Num \in 0 .. total_Num
            BY <2>1
        <3>4. First[total_Num] = start[total_Num]
            BY <1>1, <2>1, <3>1, <3>3, StartsAreFirst
        <3> QED
            BY <3>2, <3>4
    <2> QED
        BY <2>2, <2>3, <2>4
<1> QED
    BY <1>1, NumbersHold, PTL

\* When every disk could be read, a disk is shown with its own partitions (common.c:534-582).
THEOREM OwnPartitions == Spec => []PartitionsOfTheirDisk
<1>1. ASSUME TypeInv, TableInv, OwnInv PROVE PartitionsOfTheirDisk
    <2> SUFFICES ASSUME rebuild = "none", \A k \in DOMAIN disk_List : disk_List[k].readable,
                        NEW d \in 0 .. total_Num - 1, NEW n \in Shown(d)
                 PROVE  /\ info[n].part.disk = disk_List[d + 1].disk
                        /\ info[n].part.of = disk_List[d + 1].of
        BY DEF PartitionsOfTheirDisk
    <2>1. AllReadable(Len(disk_List), disk_List)
        <3>1. DOMAIN disk_List = 1 .. Len(disk_List)
            BY <1>1 DEF TypeInv
        <3> QED
            BY <3>1, Zenon DEF AllReadable
    <2>2. Own(Len(disk_List), disk_List, partition_List)
        BY <1>1, <2>1 DEF OwnInv
    <2>3. /\ n - First[d] + 1 \in 1 .. Len(partition_List[d])
          /\ info[n] = [no |-> n, part |-> partition_List[d][n - First[d] + 1]]
        BY <1>1, ShownPartition
    <2>4. d \in 0 .. Len(disk_List) - 1
        BY <1>1 DEF TableInv
    <2>5. info[n].part = partition_List[d][n - First[d] + 1]
        BY <2>3
    <2> QED
        BY <2>2, <2>3, <2>4, <2>5 DEF Own
<1> QED
    BY <1>1, NumbersHold, PTL

----------------------------------------------------------------------------
(* Scans *)

LEMMA StepLive == ASSUME Careful, TypeInv, LiveInv, [Next]_vars PROVE LiveInv'
<1> USE DEF lists, tables, loop, scan, Step
<1>1. ASSUME NEW d \in Slots, NEW n \in Numbers, Scan_Object_Context_Init(d, n) PROVE LiveInv'
    <2>1. /\ rebuild = "none" /\ rebuild' = "none" /\ UNCHANGED lists /\ scan_Object' = Resolved(d, n)
          /\ scanning' => NULL \notin {scan_Object'.disk, scan_Object'.part}
        BY <1>1 DEF Scan_Object_Context_Init, MayAsk
    <2>2. scan_Object'.disk = Access_Disk(d) /\ scan_Object'.part = Accecc_Partition(d, n)
        BY <2>1 DEF Resolved
    <2>3. ASSUME scanning'
          PROVE  scan_Object'.disk \in Range(disk_List) /\ scan_Object'.part \in Range(partition_List[d])
        BY <2>1, <2>2, <2>3, ResolvedType
    <2> QED
        BY <2>1, <2>3 DEF LiveInv, ScanObjectsLive
<1>2. CASE Disk_List_Free
    <2>1. scanning' = scanning /\ ~scanning
        BY <1>2 DEF Disk_List_Free
    <2> QED
        BY <2>1 DEF LiveInv
<1>3. CASE rebuild # "none" /\ scanning' = scanning
    BY <1>3 DEF LiveInv
<1>4. CASE Disk_List_Init \/ Partition_List_Free \/ Partition_List_Init \/ Update_Partition_Ctx \/ Update_Disk_Ctx
    BY <1>3, <1>4
    DEF Disk_List_Init, Partition_List_Free, Partition_List_Init, Update_Partition_Ctx, Update_Disk_Ctx
<1>5. CASE Scan_Ends
    <2>1. scanning' = FALSE
        BY <1>5 DEF Scan_Ends
    <2> QED
        BY <2>1 DEF LiveInv
<1>6. CASE Machine_Changes \/ UNCHANGED vars
    <2>1. UNCHANGED <<lists, rebuild, scan>>
        BY <1>6 DEF Machine_Changes, vars
    <2> QED
        BY <2>1 DEF LiveInv, ScanObjectsLive
<1> QED
    BY <1>1, <1>2, <1>4, <1>5, <1>6 DEF Next

\* With clients that ask for no rebuild during a scan, and for nothing during a rebuild, the disk
\* and the partition of a scan are not freed under it (disk_component.c:233-247, common.c:638-661).
THEOREM ScansOfLiveObjects == ASSUME Careful PROVE Spec => []ScanObjectsLive
<1>1. LiveInv => ScanObjectsLive
    BY DEF LiveInv, ScanObjectsLive
<1> QED
    BY <1>1, InitNumbers, StepLive, TypesHold, PTL DEF Spec

=============================================================================
