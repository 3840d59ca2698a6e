--------------------------- MODULE FileList_proofs ---------------------------
(***************************************************************************)
(* Theorems about FileList, for any volumes, lists, pages and clients.     *)
(*                                                                         *)
(* A list that is announced LIST_READY was built by a thread that is gone, *)
(* so what it holds must be carried along while the thread is at work:      *)
(* `Building` says, for each statement of the scanner thread, what it has  *)
(* done so far, and `Ready` what is left when it ends.                     *)
(***************************************************************************)
EXTENDS FileList, FiniteSetTheorems, TLAPS

\* The lists of the volumes fit: Update_DataRec_Ctx ends only after i > FILE_NUM.
ListsFit == \A v \in Volumes : Files[v] <= FILE_NUM + 1

Copying == {"copy", "pages", "first_page", "ready"}

\* The list holds what the search came to on the volume that is open.
FoundIsSeen ==
    found # NULL =>
        /\ handle = [volume |-> found.volume, open |-> TRUE]
        /\ seen \subseteq Lost(found.volume)
        /\ found.list \in Ascending(seen)

\* What the scanner thread has done when it is about to execute its next statement.
Building ==
    /\ scanner # "none" => available = "LIST_NOT_READY"
    /\ scanner \in {"free_list", "close", "open", "search", "decide"} => copied = 0
    /\ scanner \in {"close", "open", "search"} => found = NULL
    /\ scanner = "search" => handle = [volume |-> target, open |-> TRUE]
    /\ scanner \in {"decide"} \cup Copying => FoundIsSeen
    /\ scanner \in Copying =>
          /\ copied <= Found
          /\ \A n \in 0 .. copied - 1 : info[n] = Listed(n)
    /\ scanner \in {"pages", "first_page", "ready"} => copied = Found /\ total_Num = copied
    /\ scanner \in {"first_page", "ready"} => total_Page = Pages(copied)

\* What holds of the lists when it has ended.
Ready == available = "LIST_READY" => total_Page = Pages(total_Num)

Inv == Building /\ Ready /\ ReadyListIsFound

\* A thread has a volume to scan, searches the one it has just opened, and comes to its files.
ScannerTargets ==
    /\ target # NULL \/ scanner = "none"
    /\ scanner \in {"free_list", "close", "open", "search"} => seen \subseteq Lost(target)
    /\ scanner = "search" => handle = [volume |-> target, open |-> TRUE]

----------------------------------------------------------------------------
(* Types *)

\* The number of pages is a number.
LEMMA PagesNat ==
    ASSUME NEW n \in Nat
    PROVE  Pages(n) \in Nat
  <1>1. n \div PER_PAGE \in Nat
    BY FileListAssumption
  <1> QED
    BY <1>1 DEF Pages

\* The files that a search came to are finitely many, as many as fit.
LEMMA SeenFinite ==
    ASSUME NEW v \in Volumes, NEW S, S \subseteq Lost(v)
    PROVE  /\ S \subseteq Nat /\ IsFiniteSet(S)
           /\ Cardinality(S) \in Nat /\ Cardinality(S) <= Files[v]
  <1>1. Files[v] \in Nat
    BY FileListAssumption
  <1>2. IsFiniteSet(Lost(v)) /\ Cardinality(Lost(v)) = Files[v]
    <2>1. 0 \in Int /\ Files[v] - 1 \in Int
      BY <1>1
    <2>2. Cardinality(0 .. Files[v] - 1) = IF 0 > Files[v] - 1 THEN 0 ELSE (Files[v] - 1) - 0 + 1
      BY <2>1, FS_Interval
    <2>3. IsFiniteSet(0 .. Files[v] - 1)
      BY <2>1, FS_Interval
    <2>4. Cardinality(0 .. Files[v] - 1) = Files[v]
      BY <1>1, <2>2
    <2> QED
      BY <2>3, <2>4 DEF Lost
  <1>3. IsFiniteSet(S) /\ Cardinality(S) <= Files[v]
    BY <1>2, FS_Subset
  <1> QED
    BY <1>1, <1>3, FS_CardinalityType DEF Lost

\* An ascending list of a set holds each of its members.
LEMMA AscendingList ==
    ASSUME NEW S, S \subseteq Nat, IsFiniteSet(S), NEW list \in Ascending(S)
    PROVE  /\ list \in Seq(Nat) /\ Len(list) = Cardinality(S)
           /\ \A i, j \in 1 .. Len(list) : i < j => list[i] < list[j]
           /\ \A i \in 1 .. Len(list) : list[i] \in S
           /\ \A x \in S : \E i \in 1 .. Len(list) : list[i] = x
  <1> DEFINE c == Cardinality(S)
  <1>1. c \in Nat
    BY FS_CardinalityType
  <1> HIDE DEF c
  <1>2. list \in [1 .. c -> S] /\ \A i, j \in DOMAIN list : i < j => list[i] < list[j]
    BY DEF Ascending, c
  <1>3. list \in Seq(Nat) /\ Len(list) = c
    <2>1. list \in [1 .. c -> Nat]
      BY <1>2, ZenonT(30)
    <2> QED
      BY <1>1, <2>1
  <1>4. \A i, j \in 1 .. c : i < j => list[i] < list[j]
    BY <1>2
  <1>5. list \in Injection(1 .. c, S)
    <2>1. ASSUME NEW i \in 1 .. c, NEW j \in 1 .. c, list[i] = list[j] PROVE i = j
      <3>1. list[i] \in Nat /\ list[j] \in Nat
        BY <1>2
      <3>2. ~(i < j) /\ ~(j < i)
        BY <1>4, <2>1, <3>1
      <3> QED
        BY <1>1, <3>2
    <2> QED
      BY <1>2, <2>1 DEF Injection, IsInjective
  <1>6. Cardinality(1 .. c) = Cardinality(S)
    <2>1. Cardinality(1 .. c) = IF 1 > c THEN 0 ELSE c - 1 + 1
      BY <1>1, FS_Interval
    <2> QED
      BY <1>1, <2>1 DEF c
  <1>7. list \in Surjection(1 .. c, S)
    BY <1>5, <1>6, FS_Injection
  <1>8. \A x \in S : \E i \in 1 .. c : list[i] = x
    BY <1>7 DEF Surjection
  <1> QED
    BY <1>2, <1>3, <1>4, <1>8 DEF c

\* TypeOK, and that a thread has a volume to scan, are inductive (scan_component.c,
\* recovery_component.c).
THEOREM TypeCorrect == Spec => [](TypeOK /\ ScannerTargets)
  <1>1. Init => TypeOK /\ ScannerTargets
    <2>1. Init => info \in [Slots -> Entries \cup {NULL}]
      BY DEF Init
    <2>2. 0 \in 0 .. FILE_NUM + 1
      BY FileListAssumption
    <2>3. Init => local_dir \in BOOLEAN /\ stopped \in BOOLEAN
      BY DEF Init
    <2> QED
      BY <2>1, <2>2, <2>3 DEF Init, TypeOK, ScannerTargets
  <1>2. TypeOK /\ ScannerTargets /\ [Next]_vars => (TypeOK /\ ScannerTargets)'
    <2> SUFFICES ASSUME TypeOK, ScannerTargets, [Next]_vars PROVE (TypeOK /\ ScannerTargets)'
      OBVIOUS
    <2> USE FileListAssumption DEF TypeOK, ScannerTargets
    <2>1. CASE UNCHANGED vars
      BY <2>1 DEF vars, volume_Data, file_Ctx, thread
    <2>2. ASSUME NEW v \in Volumes, Start_QuickScan_File(v) PROVE (TypeOK /\ ScannerTargets)'
      <3>1. target' \in Volumes \cup {NULL} /\ target' # NULL /\ copied' = 0
        BY <2>2 DEF Start_QuickScan_File
      <3>2. copied' \in 0 .. FILE_NUM + 1
        BY <3>1
      <3> QED
        BY <2>2, <3>1, <3>2 DEF Start_QuickScan_File, Step, volume_Data, file_Ctx
    <2>3. CASE File_List_Free
      BY <2>3 DEF File_List_Free, Step, file_Ctx
    <2>4. CASE File_Data_Free
      BY <2>4 DEF File_Data_Free, file_Ctx
    <2>5. CASE File_Data_Init
      <3>1. target \in Volumes /\ target' = target
        BY <2>5 DEF File_Data_Init, Step
      <3>2. handle' = [volume |-> target, open |-> TRUE] \/ handle' = handle
        BY <2>5 DEF File_Data_Init
      <3>3. handle' = NULL \/ handle' \in [volume : Volumes, open : BOOLEAN]
        <4>1. [volume |-> target, open |-> TRUE] \in [volume : Volumes, open : BOOLEAN]
          BY <3>1, Zenon
        <4> QED
          BY <3>2, <4>1, Zenon DEF TypeOK
      <3>4. scanner' = "search" => handle' = [volume |-> target', open |-> TRUE]
        BY <2>5, <3>1 DEF File_Data_Init, Step
      <3>5. scanner' \in {"search", "decide"} /\ target' # NULL
        BY <2>5, <3>1 DEF File_Data_Init, Step
      <3>6. local_dir' \in BOOLEAN /\ destination' \in {"default", "chosen"}
        BY <2>5 DEF File_Data_Init
      <3>7. UNCHANGED <<found, info, total_Num, total_Page, current_Page, available, seen, copied,
                        stopped, recovered, crashed>>
        BY <2>5 DEF File_Data_Init, file_Ctx
      <3>8. seen' \subseteq Lost(target)'
        BY <2>5, <3>1, <3>7 DEF File_Data_Init, Step, Lost
      <3> QED
        BY <3>1, <3>3, <3>4, <3>5, <3>6, <3>7, <3>8
    <2>6. CASE Quick_Scan_File
      <3>1. /\ scanner = "search" /\ target \in Volumes /\ handle.volume = target
            /\ scanner' \in {"search", "decide"}
            /\ seen \subseteq Lost(target)
            /\ UNCHANGED <<handle, local_dir, destination, info, total_Num, total_Page,
                           current_Page, available, target, copied, stopped, recovered, crashed>>
        BY <2>6 DEF Quick_Scan_File, Step, file_Ctx
      <3>2. seen' \subseteq Lost(target)
        BY <2>6, <3>1 DEF Quick_Scan_File
      <3>3. found' = NULL \/ found' \in [volume : Volumes, list : Seq(Nat)]
        <4>1. found' = found \/ \E list \in Ascending(seen) : found' = [volume |-> target, list |-> list]
          BY <2>6, <3>1 DEF Quick_Scan_File
        <4>2. \A list \in Ascending(seen) : list \in Seq(Nat)
          BY <3>1, SeenFinite, AscendingList
        <4> QED
          BY <3>1, <4>1, <4>2
      <3>4. seen' \subseteq Nat
        BY <3>1, <3>2, SeenFinite
      <3> QED
        BY <3>1, <3>2, <3>3, <3>4
    <2>7. CASE Decide
      BY <2>7 DEF Decide, Step, volume_Data, file_Ctx
    <2>8. CASE Copy_Entry
      <3>1. Listed(copied) \in Entries
        <4>1. found # NULL /\ copied \in Nat /\ copied < Len(found.list)
          BY <2>8 DEF Copy_Entry, Found
        <4>2. found.volume \in Volumes /\ found.list[copied + 1] \in Nat
          BY <4>1
        <4> QED
          BY <4>2 DEF Listed, Entries
      <3>2. copied' \in 0 .. FILE_NUM + 1 /\ info' = [info EXCEPT ![copied] = Listed(copied)]
        BY <2>8 DEF Copy_Entry
      <3>3. info' \in [Slots -> Entries \cup {NULL}]
        BY <3>1, <3>2
      <3> QED
        BY <2>8, <3>2, <3>3 DEF Copy_Entry, Step, volume_Data
    <2>9. CASE Update_Totals
      <3>1. copied \in Nat /\ Pages(copied) \in Nat
        BY PagesNat
      <3>2. total_Num' \in 0 .. FILE_NUM + 1
        BY <2>9 DEF Update_Totals
      <3>3. total_Page' \in Nat
        BY <2>9, <3>1 DEF Update_Totals
      <3>4. current_Page' \in Nat
        BY <2>9 DEF Update_Totals
      <3>5. /\ scanner \in {"copy", "pages", "first_page"}
            /\ scanner' \in {"pages", "first_page", "ready"}
            /\ UNCHANGED <<handle, local_dir, found, destination, info, available, target, seen,
                           copied, stopped, recovered, crashed>>
        BY <2>9 DEF Update_Totals, Step, volume_Data
      <3>6. target' # NULL
        BY <3>5
      <3> QED
        BY <3>2, <3>3, <3>4, <3>5, <3>6
    <2>10. CASE Mark_Ready
      BY <2>10 DEF Mark_Ready, Step, volume_Data, file_Ctx
    <2>11. CASE Stop_Scan_Process
      BY <2>11 DEF Stop_Scan_Process, volume_Data, file_Ctx
    <2>12. CASE File_List_Serializer
      BY <2>12 DEF File_List_Serializer, Page_Control, Page, volume_Data, thread, Slots
    <2>13. ASSUME NEW n \in Slots, Quick_Scan_Recovery_File(n)
           PROVE  (TypeOK /\ ScannerTargets)'
      BY <2>13 DEF Quick_Scan_Recovery_File, volume_Data, file_Ctx, thread
    <2>14. CASE Update_Quick_Scan_File_Path
      BY <2>14 DEF Update_Quick_Scan_File_Path, file_Ctx, thread
    <2> QED
      BY <2>1, <2>2, <2>3, <2>4, <2>5, <2>6, <2>7, <2>8, <2>9, <2>10, <2>11, <2>12, <2>13, <2>14
      DEF Next, Scanner
  <1> QED
    BY <1>1, <1>2, PTL DEF Spec

----------------------------------------------------------------------------
(* A list announced ready *)

\* The length of a list is a number.
LEMMA FoundNat ==
    ASSUME TypeOK
    PROVE  Found \in Nat
  BY DEF TypeOK, Found

\* The list of what was seen fits, ascends, and has each of them.
LEMMA FoundFits ==
    ASSUME TypeOK, ListsFit, FoundIsSeen
    PROVE  /\ Found <= FILE_NUM + 1
           /\ found # NULL =>
                /\ {Listed(n) : n \in 0 .. Found - 1} = [volume : {found.volume}, file : seen]
                /\ \A m, n \in 0 .. Found - 1 : m < n => Listed(m).file < Listed(n).file
  <1>1. CASE found = NULL
    BY <1>1, FileListAssumption DEF Found
  <1>2. CASE found # NULL
    <2> DEFINE v == found.volume  list == found.list
    <2>1. v \in Volumes /\ Files[v] <= FILE_NUM + 1 /\ Files[v] \in Nat /\ FILE_NUM \in Nat
      BY <1>2, FileListAssumption DEF TypeOK, ListsFit
    <2>2. seen \subseteq Lost(v) /\ list \in Ascending(seen) /\ Found = Len(list)
      BY <1>2 DEF FoundIsSeen, Found
    <2>3. /\ seen \subseteq Nat /\ IsFiniteSet(seen)
          /\ Cardinality(seen) \in Nat /\ Cardinality(seen) <= Files[v]
      BY <2>1, <2>2, SeenFinite
    <2> HIDE DEF v, list
    <2>4. /\ list \in Seq(Nat) /\ Found = Cardinality(seen)
          /\ \A i, j \in 1 .. Found : i < j => list[i] < list[j]
          /\ \A i \in 1 .. Found : list[i] \in seen
          /\ \A x \in seen : \E i \in 1 .. Found : list[i] = x
      <3>1. /\ list \in Seq(Nat) /\ Len(list) = Cardinality(seen)
            /\ \A i, j \in 1 .. Len(list) : i < j => list[i] < list[j]
            /\ \A i \in 1 .. Len(list) : list[i] \in seen
            /\ \A x \in seen : \E i \in 1 .. Len(list) : list[i] = x
        BY <2>2, <2>3, AscendingList, ZenonT(30)
      <3> QED
        BY <2>2, <3>1, ZenonT(30)
    <2>5. Found \in Nat /\ Found <= FILE_NUM + 1
      BY <2>1, <2>3, <2>4
    <2>6. \A n : Listed(n) = [volume |-> v, file |-> list[n + 1]]
      BY DEF Listed, v, list
    <2>7. \A n \in 0 .. Found - 1 : n + 1 \in 1 .. Found
      BY <2>5
    <2>8. \A m, n \in 0 .. Found - 1 : m < n => Listed(m).file < Listed(n).file
      <3> TAKE m, n \in 0 .. Found - 1
      <3> HAVE m < n
      <3>1. list[m + 1] < list[n + 1]
        BY <2>4, <2>5, <2>7
      <3> QED
        BY <2>6, <3>1
    <2>9. \A n \in 0 .. Found - 1 : Listed(n) \in [volume : {v}, file : seen]
      BY <2>4, <2>6, <2>7
    <2>10. ASSUME NEW e \in [volume : {v}, file : seen]
           PROVE  \E n \in 0 .. Found - 1 : Listed(n) = e
      <3>1. e = [volume |-> v, file |-> e.file] /\ e.file \in seen
        OBVIOUS
      <3>2. PICK i \in 1 .. Found : list[i] = e.file
        BY <2>4, <3>1
      <3>3. i - 1 \in 0 .. Found - 1 /\ (i - 1) + 1 = i
        BY <2>5
      <3>4. Listed(i - 1) = e
        BY <2>6, <3>1, <3>2, <3>3
      <3> QED
        BY <3>3, <3>4
    <2>11. {Listed(n) : n \in 0 .. Found - 1} = [volume : {v}, file : seen]
      BY <2>9, <2>10
    <2> QED
      BY <2>5, <2>8, <2>11 DEF v
  <1> QED
    BY <1>1, <1>2

\* Nothing is built before the first scan (handler_component/scan_component.c:121-168).
LEMMA InvInit == Init => Inv
  BY DEF Init, Inv, Building, Ready, ReadyListIsFound, Copying

\* Each statement of the scanner thread leaves what the next one relies on.
LEMMA InvStep ==
    ASSUME TypeOK, ScannerTargets, ListsFit, Inv, [Next]_vars
    PROVE  Inv'
  <1> USE DEF Inv
  <1>0. ASSUME UNCHANGED <<handle, found, info, total_Num, total_Page, available, scanner,
                           target, seen, copied>>
        PROVE  Inv'
    <2>1. Found' = Found /\ (\A n : Listed(n)' = Listed(n)) /\ FoundIsSeen' = FoundIsSeen
      BY <1>0 DEF Found, Listed, FoundIsSeen
    <2>2. Ready'
      BY <1>0 DEF Ready, Pages
    <2>3. ReadyListIsFound'
      BY <1>0, <2>1 DEF ReadyListIsFound
    <2>4. Building'
      <3>1. Pages(copied)' = Pages(copied)
        BY <1>0 DEF Pages
      <3> QED
        BY <1>0, <2>1, <3>1 DEF Building, Copying
    <2> QED
      BY <2>2, <2>3, <2>4
  <1>1. CASE UNCHANGED vars
    BY <1>0, <1>1 DEF vars, volume_Data, file_Ctx, thread
  <1>2. ASSUME NEW v \in Volumes, Start_QuickScan_File(v) PROVE Inv'
    BY <1>2 DEF Start_QuickScan_File, Step, volume_Data, file_Ctx,
                Building, Ready, ReadyListIsFound, Copying
  <1>3. CASE File_List_Free
    BY <1>3 DEF File_List_Free, Step, file_Ctx, Building, Ready, ReadyListIsFound, Copying
  <1>4. CASE File_Data_Free
    BY <1>4 DEF File_Data_Free, file_Ctx, Building, Ready, ReadyListIsFound, Copying
  <1>5. CASE File_Data_Init
    <2>1. /\ scanner = "open" /\ available' = available /\ available = "LIST_NOT_READY"
          /\ found' = found /\ found = NULL /\ copied' = copied /\ copied = 0
          /\ scanner' \in {"search", "decide"} /\ target' = target
      BY <1>5 DEF File_Data_Init, Step, Building
    <2>2. scanner' = "search" => handle' = [volume |-> target, open |-> TRUE]
      BY <1>5, <2>1 DEF File_Data_Init, Step
    <2> QED
      BY <2>1, <2>2 DEF Building, Ready, ReadyListIsFound, FoundIsSeen, Copying
  <1>6. CASE Quick_Scan_File
    <2>1. /\ scanner = "search" /\ available' = available /\ available = "LIST_NOT_READY"
          /\ handle' = handle /\ handle = [volume |-> target, open |-> TRUE]
          /\ copied' = copied /\ copied = 0 /\ target' = target /\ found = NULL
          /\ seen \subseteq Lost(target)
      BY <1>6 DEF Quick_Scan_File, Step, Building, ScannerTargets
    <2>2. \/ scanner' = "search" /\ found' = NULL
          \/ scanner' = "decide" /\ FoundIsSeen'
      <3>1. CASE scanner' = "search"
        BY <1>6, <2>1, <3>1 DEF Quick_Scan_File, Step
      <3>2. CASE scanner' # "search"
        <4>1. scanner' = "decide" /\ seen' = seen
          BY <1>6, <2>1, <3>2 DEF Quick_Scan_File, Step
        <4>2. handle.volume = target
          BY <2>1
        <4>3. PICK list \in Ascending(seen) : found' = [volume |-> target, list |-> list]
          BY <1>6, <2>1, <3>2, <4>2 DEF Quick_Scan_File, Step
        <4>4. found'.volume = target /\ found'.list = list
          BY <4>3
        <4>5. FoundIsSeen'
          <5>1. Ascending(seen)' = Ascending(seen) /\ Lost(found'.volume) = Lost(target)
            BY <4>1, <4>4 DEF Ascending
          <5> QED
            BY <2>1, <4>1, <4>3, <4>4, <5>1 DEF FoundIsSeen, Lost
        <4> QED
          BY <4>1, <4>5
      <3> QED
        BY <3>1, <3>2
    <2> QED
      BY <2>1, <2>2 DEF Building, Ready, ReadyListIsFound, Copying
  <1>7. CASE Decide
    <2>1. Found' = Found /\ Found \in Nat /\ (FoundIsSeen => FoundIsSeen')
      BY <1>7, FoundNat DEF Decide, volume_Data, Found, FoundIsSeen
    <2> QED
      BY <1>7, <2>1 DEF Decide, Step, volume_Data, file_Ctx,
                  Building, Ready, ReadyListIsFound, Copying
  <1>8. CASE Copy_Entry
    <2>1. /\ scanner = "copy" /\ scanner' = "copy" /\ available = "LIST_NOT_READY"
          /\ available' = available /\ found' = found /\ handle' = handle
          /\ copied' = copied + 1 /\ Found' = Found /\ seen' = seen
          /\ FoundIsSeen' /\ \A n : Listed(n)' = Listed(n)
      BY <1>8 DEF Copy_Entry, Step, volume_Data, Building, Copying, Found, FoundIsSeen, Listed
    <2>2. copied \in Slots /\ copied \in Nat /\ copied + 1 <= Found
      BY <1>8, FoundNat DEF Copy_Entry, TypeOK, Slots
    <2>3. \A n \in 0 .. copied : info'[n] = Listed(n)
      BY <1>8, <2>2 DEF Copy_Entry, Step, TypeOK, Slots, Building, Copying
    <2> QED
      BY <2>1, <2>2, <2>3 DEF Building, Ready, ReadyListIsFound, Copying
  <1>9. CASE Update_Totals
    <2>1. /\ available = "LIST_NOT_READY" /\ available' = available
          /\ found' = found /\ handle' = handle /\ info' = info
          /\ copied' = copied /\ Found' = Found /\ seen' = seen
          /\ FoundIsSeen /\ FoundIsSeen' /\ \A n : Listed(n)' = Listed(n)
      BY <1>9 DEF Update_Totals, Step, volume_Data, Building, Copying, Found, FoundIsSeen, Listed
    <2>2. scanner' = "pages" => copied = Found /\ total_Num' = copied
      <3>1. Found \in Nat /\ Found <= FILE_NUM + 1
        BY <2>1, FoundNat, FoundFits
      <3>2. copied \in Nat /\ copied <= FILE_NUM + 1 /\ FILE_NUM \in Nat
        BY FileListAssumption DEF TypeOK
      <3>3. scanner' = "pages" =>
              /\ scanner = "copy" /\ total_Num' = copied
              /\ copied >= Found \/ copied > FILE_NUM
        BY <1>9 DEF Update_Totals, Step
      <3>4. scanner = "copy" => copied <= Found
        BY DEF Building, Copying
      <3> QED
        BY <3>1, <3>2, <3>3, <3>4
    <2>3. scanner' = "first_page" => total_Num' = total_Num /\ total_Page' = Pages(copied)
      BY <1>9 DEF Update_Totals, Step
    <2>4. scanner' = "ready" => total_Num' = total_Num /\ total_Page' = total_Page
      BY <1>9 DEF Update_Totals, Step
    <2>5. \/ scanner = "copy" /\ scanner' = "pages"
          \/ scanner = "pages" /\ scanner' = "first_page"
          \/ scanner = "first_page" /\ scanner' = "ready"
      BY <1>9 DEF Update_Totals, Step
    <2> QED
      BY <2>1, <2>2, <2>3, <2>4, <2>5 DEF Building, Ready, ReadyListIsFound, Copying, Pages
  <1>10. CASE Mark_Ready
    <2>1. /\ scanner = "ready" /\ scanner' = "none"
          /\ UNCHANGED <<handle, found, info, total_Num, total_Page, copied, seen>>
          /\ Found' = Found /\ \A n : Listed(n)' = Listed(n)
      BY <1>10 DEF Mark_Ready, Step, volume_Data, file_Ctx, Found, Listed
    <2>2. total_Num = Found /\ total_Page = Pages(total_Num) /\ FoundIsSeen
      BY <2>1 DEF Building, Copying
    <2>3. \A n \in 0 .. total_Num - 1 : info[n] = Listed(n)
      BY <2>1 DEF Building, Copying
    <2>4. found # NULL => handle = [volume |-> found.volume, open |-> TRUE]
      BY <2>2 DEF FoundIsSeen
    <2>5. found # NULL =>
            /\ {info[n] : n \in 0 .. total_Num - 1} = [volume : {found.volume}, file : seen]
            /\ \A m, n \in 0 .. total_Num - 1 : m < n => info[m].file < info[n].file
      BY <2>2, <2>3, FoundFits
    <2>6. ReadyListIsFound'
      BY <2>1, <2>2, <2>3, <2>4, <2>5 DEF ReadyListIsFound
    <2> QED
      BY <2>1, <2>2, <2>6 DEF Building, Ready, Copying, Pages
  <1>12. CASE Stop_Scan_Process
    BY <1>0, <1>12 DEF Stop_Scan_Process, volume_Data, file_Ctx
  <1>13. CASE File_List_Serializer
    BY <1>0, <1>13 DEF File_List_Serializer, volume_Data, thread
  <1>14. ASSUME NEW n \in Slots, Quick_Scan_Recovery_File(n) PROVE Inv'
    BY <1>0, <1>14 DEF Quick_Scan_Recovery_File, volume_Data, file_Ctx, thread
  <1>15. CASE Update_Quick_Scan_File_Path
    BY <1>0, <1>15 DEF Update_Quick_Scan_File_Path, file_Ctx, thread
  <1> QED
    BY <1>1, <1>2, <1>3, <1>4, <1>5, <1>6, <1>7, <1>8, <1>9, <1>10, <1>12, <1>13, <1>14, <1>15
    DEF Next, Scanner

\* When the lists fit, a list announced LIST_READY holds every file that the search came to on
\* the volume that is open, each once and in order, wherever the walk through the $MFT ended
\* (scan_component.c:121-168, 474-478, testdisk_inject.c:560-609).
THEOREM AnnouncedAsFound ==
    ASSUME ListsFit
    PROVE  Spec => []ReadyListIsFound
  <1>1. TypeOK /\ ScannerTargets /\ Inv /\ [Next]_vars => Inv'
    BY InvStep
  <1>2. Inv => ReadyListIsFound
    BY DEF Inv
  <1> QED
    BY <1>1, <1>2, InvInit, TypeCorrect, PTL DEF Spec

\* A client that uses a list only while it is announced gets files from the volume they were
\* listed for, and never reads from a volume that was closed (recovery_component.c:46-48).
THEOREM CarefulRecovery ==
    ASSUME ListsFit, Careful
    PROVE  Spec => [](RecoversWhatWasListed /\ RecoversFromOpenVolume)
  <1> DEFINE Safe == RecoversWhatWasListed /\ RecoversFromOpenVolume
  <1> USE DEF RecoversWhatWasListed, RecoversFromOpenVolume
  <1>1. Init => Safe
    BY DEF Init
  <1>2. TypeOK /\ ReadyListIsFound /\ Safe /\ [Next]_vars => Safe'
    <2> SUFFICES ASSUME TypeOK, ReadyListIsFound, Safe, [Next]_vars PROVE Safe'
      OBVIOUS
    <2>1. ASSUME NEW n \in Slots, Quick_Scan_Recovery_File(n) PROVE Safe'
      <3>1. available = "LIST_READY" /\ n < total_Num /\ n \in Nat /\ total_Num \in Nat
        BY <2>1, FileListAssumption
        DEF Quick_Scan_Recovery_File, MayUseList, TypeOK, Slots
      <3>2. info[n].volume = found.volume /\ total_Num = Found
        <4>1. n \in 0 .. total_Num - 1 /\ total_Num = Found
          BY <3>1 DEF ReadyListIsFound
        <4>2. info[n] = Listed(n)
          BY <3>1, <4>1 DEF ReadyListIsFound
        <4> QED
          BY <4>1, <4>2 DEF Listed
      <3>3. found # NULL
        BY <3>1, <3>2 DEF Found
      <3>4. handle = [volume |-> found.volume, open |-> TRUE]
        BY <3>1, <3>3 DEF ReadyListIsFound
      <3>5. handle # NULL
        <4>1. found.volume \in Volumes
          BY <3>3 DEF TypeOK
        <4>2. [volume |-> found.volume, open |-> TRUE] \in [volume : Volumes, open : BOOLEAN]
          BY <4>1, Zenon
        <4> QED
          BY <3>4, <4>2, FileListAssumption
      <3> QED
        BY <2>1, <3>2, <3>4, <3>5 DEF Quick_Scan_Recovery_File
    <2>2. ASSUME UNCHANGED recovered, crashed' = "close" \/ crashed' = crashed PROVE Safe'
      BY <2>2
    <2>3. CASE UNCHANGED vars
      BY <2>2, <2>3 DEF vars
    <2>4. ASSUME NEW v \in Volumes, Start_QuickScan_File(v) PROVE Safe'
      BY <2>2, <2>4 DEF Start_QuickScan_File
    <2>5. CASE Scanner
      BY <2>2, <2>5 DEF Scanner, File_List_Free, File_Data_Free, File_Data_Init, Quick_Scan_File,
                        Decide, Copy_Entry, Update_Totals, Mark_Ready
    <2>6. CASE Stop_Scan_Process \/ File_List_Serializer \/ Update_Quick_Scan_File_Path
      BY <2>2, <2>6 DEF Stop_Scan_Process, File_List_Serializer, Update_Quick_Scan_File_Path
    <2> QED
      BY <2>1, <2>3, <2>4, <2>5, <2>6 DEF Next
  <1> QED
    BY <1>1, <1>2, TypeCorrect, AnnouncedAsFound, PTL DEF Spec

----------------------------------------------------------------------------
(* Pages *)

\* Division by the size of a page.
LEMMA Division ==
    ASSUME NEW n \in Nat, NEW k \in Nat \ {0}
    PROVE  /\ n \div k \in Nat /\ n % k \in 0 .. k - 1
           /\ n = k * (n \div k) + (n % k)
           /\ k * (n \div k) <= n /\ n < k * (n \div k) + k
  <1> DEFINE q == n \div k  r == n % k
  <1>1. q \in Nat
    OBVIOUS
  <1>2. r \in 0 .. k - 1
    OBVIOUS
  <1>3. n = k * q + r
    OBVIOUS
  <1> HIDE DEF q, r
  <1>4. PICK w \in Nat : w = k * q
    BY <1>1
  <1>5. n = w + r
    BY <1>3, <1>4
  <1>6. w <= n /\ n < w + k
    BY <1>2, <1>5
  <1>7. k * q <= n /\ n < k * q + k
    BY <1>4, <1>6
  <1> QED
    BY <1>1, <1>2, <1>3, <1>7 DEF q, r

\* A number lies in one page only.
LEMMA OnePage ==
    ASSUME NEW n \in Nat, NEW k \in Nat \ {0}, NEW p \in Nat, NEW q \in Nat,
           k * p <= n, n < k * q + k
    PROVE  p <= q
  <1> SUFFICES ASSUME p >= q + 1 PROVE FALSE
    OBVIOUS
  <1>1. PICK d \in Nat : p = q + 1 + d
    <2>1. p - (q + 1) \in Nat /\ p = q + 1 + (p - (q + 1))
      OBVIOUS
    <2> QED
      BY <2>1
  <1>2. k * p = k * q + k + k * d /\ k * d \in Nat /\ k * q \in Nat
    BY <1>1
  <1> QED
    BY <1>2

\* The pages of a list of t entries are those that begin before its end.
LEMMA PagesBegin ==
    ASSUME NEW t \in Nat, NEW p \in Nat
    PROVE  p < Pages(t) <=> PER_PAGE * p < t
  <1> DEFINE k == PER_PAGE  q == t \div k  r == t % k
  <1>1. k \in Nat \ {0}
    BY FileListAssumption
  <1>2. q \in Nat /\ r \in 0 .. k - 1 /\ t = k * q + r
    BY <1>1, Division
  <1> HIDE DEF q, r, k
  <1>3. k * p \in Nat /\ k * q \in Nat
    BY <1>1, <1>2
  <1>4. p > q => k * p >= k * q + k
    BY <1>1, <1>2, <1>3, OnePage
  <1>5. p < q => k * p + k <= k * q
    BY <1>1, <1>2, <1>3, OnePage
  <1>6. Pages(t) = IF r = 0 THEN q ELSE q + 1
    BY DEF Pages, q, r, k
  <1>7. p < Pages(t) <=> k * p < t
    <2>1. CASE p < q
      BY <1>1, <1>2, <1>3, <1>5, <1>6, <2>1
    <2>2. CASE p = q
      BY <1>1, <1>2, <1>3, <1>6, <2>2
    <2>3. CASE p > q
      BY <1>1, <1>2, <1>3, <1>4, <1>6, <2>3
    <2> QED
      BY <2>1, <2>2, <2>3, <1>2
  <1> QED
    BY <1>7 DEF k

\* The pages of a list announced LIST_READY cover it, each entry once and no page empty
\* (scan_component.c:165, 262-263).
THEOREM PagesCover ==
    ASSUME ListsFit
    PROVE  Spec => []PagesPartition
  <1>1. TypeOK /\ Inv => PagesPartition
    <2> SUFFICES ASSUME TypeOK, Inv, available = "LIST_READY" PROVE PagesPartition
      BY DEF PagesPartition
    <2> DEFINE k == PER_PAGE  t == total_Num  last == total_Page - 1
    <2>1. t \in Nat /\ t <= FILE_NUM + 1 /\ total_Page = Pages(t) /\ total_Page \in Nat
      BY FileListAssumption DEF TypeOK, Inv, Ready
    <2>2. k \in Nat \ {0} /\ FILE_NUM \in Nat
      BY FileListAssumption
    <2>3. \A p \in 0 .. last : k * p \in Nat /\ k * p < t
      BY <2>1, <2>2, PagesBegin
    <2>4. ASSUME NEW n \in 0 .. t - 1
          PROVE  \E p \in 0 .. last :
                    n \in Page(p) /\ \A q \in 0 .. last : n \in Page(q) => q = p
      <3>1. n \in Nat /\ n < t /\ n \in Slots
        BY <2>1, <2>2 DEF Slots
      <3> DEFINE p == n \div k
      <3>2. p \in Nat /\ k * p <= n /\ n < k * p + k
        BY <2>2, <3>1, Division
      <3> HIDE DEF p
      <3>3. k * p \in Nat
        BY <2>2, <3>2
      <3>4. p \in 0 .. last
        BY <2>1, <2>2, <3>1, <3>2, <3>3, PagesBegin
      <3>5. n \in Page(p)
        BY <3>1, <3>2 DEF Page
      <3>6. ASSUME NEW q \in 0 .. last, n \in Page(q) PROVE q = p
        <4>1. q \in Nat /\ k * q <= n /\ n < k * q + k
          BY <2>1, <2>2, <2>3, <3>1, <3>6 DEF Page
        <4>2. p <= q /\ q <= p
          BY <2>2, <3>1, <3>2, <4>1, OnePage
        <4> QED
          BY <3>2, <4>1, <4>2
      <3> QED
        BY <3>4, <3>5, <3>6
    <2>5. ASSUME NEW p \in 0 .. last PROVE k * p \in Page(p) \cap 0 .. t - 1
      BY <2>1, <2>2, <2>3 DEF Page, Slots
    <2> QED
      BY <2>4, <2>5 DEF PagesPartition
  <1>2. TypeOK /\ ScannerTargets /\ Inv /\ [Next]_vars => Inv'
    BY InvStep
  <1> QED
    BY <1>1, <1>2, InvInit, TypeCorrect, PTL DEF Spec
=============================================================================
