------------------------------ MODULE FileList ------------------------------
(***************************************************************************)
(* What a quick scan finds, and what clients do with it: the volume that   *)
(* is kept open, the list of files and its pages, and the recovery of a    *)
(* file by its number (scan_component.c:34-295, recovery_component.c,      *)
(* common.c:585-637).                                                      *)
(*                                                                         *)
(* ScanControl shows how scans begin and end; here one scan at a time is   *)
(* taken for granted, and its thread is followed through                   *)
(* Read_Partition_Data and Update_DataRec_Ctx.  Requests are served        *)
(* between its statements.  The lost files of a volume are numbered in the *)
(* order in which filesort puts them; a name, a size and an inode stand    *)
(* for the same file and are kept as one entry.                            *)
(***************************************************************************)
EXTENDS Integers, Sequences, FiniteSets

CONSTANTS
    Volumes,
    Damaged,    \* volumes that cannot be mounted: dir_partition_ntfs_init returns DIR_PART_EIO
    Files,      \* Files[v]: how many lost files volume v has
    FILE_NUM,   \* entries of file_Ctx->info
    PER_PAGE,   \* entries of a page (10)
    Careful,    \* the client uses the list only while `info` says LIST_READY, and only the
                \* numbers that are in it
    NULL

ASSUME FileListAssumption ==
    /\ Damaged \subseteq Volumes
    /\ NULL \notin Volumes /\ NULL \notin [volume : Volumes, open : BOOLEAN]
    /\ Files \in [Volumes -> Nat]
    /\ FILE_NUM \in Nat \ {0} /\ PER_PAGE \in Nat \ {0}
    /\ Careful \in BOOLEAN

VARIABLES
    handle,        \* data.private_dir_data: the volume it was opened on, and whether it still is
    local_dir,     \* data.local_dir is not NULL
    destination,   \* where recovered files go: "default" or the client's path
    found,         \* testdisk_File_Ctx->list: its files and the volume they are of, or NULL
    info,          \* file_Ctx->info, with the entry after its end
    total_Num, total_Page, current_Page,
    available,     \* info_Ctx->quick_Scan_File_List
    scanner,       \* the next statement of the scanner thread, or "none"
    target,        \* the volume it scans
    seen,          \* the files that Quick_Scan_File has put in the list so far
    copied,        \* the loop counter of Update_DataRec_Ctx
    stopped,       \* process_Ctx->control is SCAN_STOP
    recovered,     \* the last file recovered: its entry, and the volume it was read from
    crashed        \* "no", or the call that used a volume that was not open

volume_Data == <<handle, local_dir, found>>
file_Ctx == <<info, total_Num, total_Page, current_Page>>
thread == <<scanner, target, seen, copied, stopped>>
vars == <<volume_Data, destination, file_Ctx, available, thread, recovered, crashed>>

Entries == [volume : Volumes, file : Nat]
Slots == 0 .. FILE_NUM

Init ==
    /\ handle = NULL /\ local_dir = FALSE /\ destination = "default" /\ found = NULL
    /\ info = [n \in Slots |-> NULL]
    /\ total_Num = 0 /\ total_Page = 0 /\ current_Page = 0
    /\ available = "LIST_NOT_READY"
    /\ scanner = "none" /\ target = NULL /\ seen = {} /\ copied = 0 /\ stopped = FALSE
    /\ recovered = NULL
    /\ crashed = "no"

----------------------------------------------------------------------------
(* The scanner thread *)

Step(from, to) == crashed = "no" /\ scanner = from /\ scanner' = to

\* A scan is accepted; its thread marks the list and clears the stop flag.
Start_QuickScan_File(v) ==
    /\ Step("none", "free_list")
    /\ target' = v /\ seen' = {} /\ copied' = 0 /\ stopped' = FALSE
    /\ available' = "LIST_NOT_READY"
    /\ UNCHANGED <<volume_Data, destination, file_Ctx, recovered, crashed>>

Bug_File_List_Free_Keeps ==
    /\ Step("free_list", "close")
    /\ UNCHANGED found
    /\ UNCHANGED <<handle, local_dir, destination, file_Ctx, available, target, seen, copied, stopped>>
    /\ UNCHANGED <<recovered, crashed>>

File_List_Free ==
    /\ Step("free_list", "close")
    /\ found' = NULL
    /\ UNCHANGED <<handle, local_dir, destination, file_Ctx, available, target, seen, copied, stopped>>
    /\ UNCHANGED <<recovered, crashed>>

\* data.close is called whenever local_dir is set.  Before the first volume was opened it is
\* NULL, and after a volume could not be opened it closes the one before again.
File_Data_Free ==
    /\ scanner = "close" /\ crashed = "no"
    /\ IF ~local_dir
       THEN scanner' = "open" /\ UNCHANGED <<handle, crashed>>
       ELSE IF handle # NULL /\ handle.open
            THEN /\ scanner' = "open"
                 /\ handle' = [handle EXCEPT !.open = FALSE]
                 /\ UNCHANGED crashed
            ELSE crashed' = "close" /\ UNCHANGED <<scanner, handle>>
    /\ UNCHANGED <<local_dir, found, destination, file_Ctx, available, target, seen, copied, stopped>>
    /\ UNCHANGED recovered

\* The volume is mounted or it is not; the recovery path goes back to the default.
File_Data_Init ==
    /\ \/ /\ target \notin Damaged
          /\ Step("open", "search")
          /\ handle' = [volume |-> target, open |-> TRUE]
       \/ /\ Step("open", "decide")
          /\ target \in Damaged
          /\ UNCHANGED handle
    /\ local_dir' = TRUE
    /\ destination' = "default"
    /\ UNCHANGED <<found, file_Ctx, available, target, seen, copied, stopped, recovered, crashed>>

Lost(v) == 0 .. Files[v] - 1

Ascending(set) ==
    {list \in [1 .. Cardinality(set) -> set] : \A i, j \in DOMAIN list : i < j => list[i] < list[j]}

\* The walk through the records of the $MFT that its bitmap shows as free.  One that cannot be
\* read is passed over, and so are those whose part of the bitmap came back short; the walk ends
\* before its time when the bitmap cannot be opened or read.  The list is sorted, and goes the
\* same way, whole or not.
Quick_Scan_File ==
    /\ \/ /\ Step("search", "search")
          /\ \E file \in Lost(target) \ seen : seen' = seen \cup {file}
          /\ UNCHANGED found
       \/ /\ Step("search", "decide")
          /\ \E list \in Ascending(seen) : found' = [volume |-> handle.volume, list |-> list]
          /\ UNCHANGED seen
    /\ UNCHANGED <<handle, local_dir, destination, file_Ctx, available, target, copied, stopped>>
    /\ UNCHANGED <<recovered, crashed>>

Bug_Decide_Stop_Marks_Ready ==
    /\ Step("decide", IF stopped THEN "ready" ELSE "copy")
    /\ UNCHANGED <<volume_Data, destination, file_Ctx, available, target, seen, copied, stopped>>
    /\ UNCHANGED <<recovered, crashed>>

\* A stopped scan ends here: the list stays LIST_NOT_READY, with what the last scan left.
Decide ==
    /\ Step("decide", IF stopped THEN "none" ELSE "copy")
    /\ UNCHANGED <<volume_Data, destination, file_Ctx, available, target, seen, copied, stopped>>
    /\ UNCHANGED <<recovered, crashed>>

Found == IF found = NULL THEN 0 ELSE Len(found.list)
Listed(n) == [volume |-> found.volume, file |-> found.list[n + 1]]

Bug_Copy_Entry_Skips_First ==
    /\ Step("copy", "copy")
    /\ copied < Found /\ copied <= FILE_NUM
    /\ info' = IF copied = 0 THEN info
               ELSE [info EXCEPT ![copied] = Listed(copied)]
    /\ copied' = copied + 1
    /\ UNCHANGED <<volume_Data, destination, total_Num, total_Page, current_Page, available>>
    /\ UNCHANGED <<target, seen, stopped, recovered, crashed>>

\* One turn of the loop of Update_DataRec_Ctx, which ends only after i > FILE_NUM.
Copy_Entry ==
    /\ Step("copy", "copy")
    /\ copied < Found /\ copied <= FILE_NUM
    /\ info' = [info EXCEPT ![copied] = Listed(copied)]
    /\ copied' = copied + 1
    /\ UNCHANGED <<volume_Data, destination, total_Num, total_Page, current_Page, available>>
    /\ UNCHANGED <<target, seen, stopped, recovered, crashed>>

Bug_Pages_Rounded_Down(n) == n \div PER_PAGE

\* (0 == i%10) ? (i/10) : (i/10+1)
Pages(n) == IF n % PER_PAGE = 0 THEN n \div PER_PAGE ELSE n \div PER_PAGE + 1

\* The rest of Update_DataRec_Ctx, one assignment at a time.
Update_Totals ==
    /\ \/ /\ Step("copy", "pages")
          /\ copied >= Found \/ copied > FILE_NUM
          /\ total_Num' = copied
          /\ UNCHANGED <<total_Page, current_Page>>
       \/ /\ Step("pages", "first_page")
          /\ total_Page' = Pages(copied)
          /\ UNCHANGED <<total_Num, current_Page>>
       \/ /\ Step("first_page", "ready")
          /\ current_Page' = 0
          /\ UNCHANGED <<total_Num, total_Page>>
    /\ UNCHANGED <<volume_Data, destination, info, available, target, seen, copied, stopped>>
    /\ UNCHANGED <<recovered, crashed>>

Mark_Ready ==
    /\ Step("ready", "none")
    /\ available' = "LIST_READY"
    /\ UNCHANGED <<volume_Data, destination, file_Ctx, target, seen, copied, stopped, recovered, crashed>>

Scanner ==
    \/ File_List_Free
    \/ File_Data_Free
    \/ File_Data_Init
    \/ Quick_Scan_File
    \/ Decide
    \/ Copy_Entry
    \/ Update_Totals
    \/ Mark_Ready

----------------------------------------------------------------------------
(* Requests *)

Stop_Scan_Process ==
    /\ scanner # "none" /\ crashed = "no"
    /\ stopped' = TRUE
    /\ UNCHANGED <<volume_Data, destination, file_Ctx, available, scanner, target, seen, copied>>
    /\ UNCHANGED <<recovered, crashed>>

MayUseList == crashed = "no" /\ (Careful => available = "LIST_READY")

Bug_Page_Control_Goes_Below(page) ==
    \/ page = 0
    \/ page = current_Page - 1
    \/ page = current_Page + 1 /\ ~(page > total_Page)
    \/ page \in 0 .. total_Page

\* `get scan` with one parameter, and the three page requests.  An answer "Out Of Page" or
\* "Check Page Param ERROR" changes nothing.
Page_Control(page) ==
    \/ page = 0                                                 \* one parameter only
    \/ page = current_Page - 1 /\ page >= 0                     \* previous
    \/ page = current_Page + 1 /\ ~(page > total_Page)          \* next
    \/ page \in 0 .. total_Page                                 \* the page that was named

\* The numbers a page covers, as far as there are entries for them: those of the answer.
Page(page) == {n \in Slots : n >= PER_PAGE * page /\ n < PER_PAGE * page + PER_PAGE}

File_List_Serializer ==
    /\ MayUseList
    /\ \E page \in 0 .. total_Page \cup {current_Page - 1} :
          Page_Control(page) /\ current_Page' = page
    /\ UNCHANGED <<volume_Data, destination, info, total_Num, total_Page, available, thread>>
    /\ UNCHANGED <<recovered, crashed>>

\* `get recovery` with a file number: whatever volume is open, at the inode of that entry.
\* An entry never written has inode 0, a record in use, which undelete_file refuses.
Quick_Scan_Recovery_File(n) ==
    /\ MayUseList
    /\ Careful => n < total_Num
    /\ IF handle # NULL /\ handle.open
       THEN /\ info[n] # NULL
            /\ recovered' = [entry |-> info[n], from |-> handle.volume]
            /\ UNCHANGED crashed
       ELSE crashed' = "recover" /\ UNCHANGED recovered
    /\ UNCHANGED <<volume_Data, destination, file_Ctx, available, thread>>

Update_Quick_Scan_File_Path ==
    /\ MayUseList
    /\ destination' \in {"default", "chosen"}
    /\ local_dir' = TRUE
    /\ UNCHANGED <<handle, found, file_Ctx, available, thread, recovered, crashed>>

Next ==
    \/ Scanner
    \/ \E v \in Volumes : Start_QuickScan_File(v)
    \/ Stop_Scan_Process
    \/ File_List_Serializer
    \/ \E n \in Slots : Quick_Scan_Recovery_File(n)
    \/ Update_Quick_Scan_File_Path

Spec == Init /\ [][Next]_vars

----------------------------------------------------------------------------
(* Properties *)

TypeOK ==
    /\ handle = NULL \/ handle \in [volume : Volumes, open : BOOLEAN]
    /\ local_dir \in BOOLEAN /\ destination \in {"default", "chosen"}
    /\ found = NULL \/ found \in [volume : Volumes, list : Seq(Nat)]
    /\ info \in [Slots -> Entries \cup {NULL}]
    /\ total_Num \in 0 .. FILE_NUM + 1 /\ total_Page \in Nat /\ current_Page \in Nat
    /\ available \in {"LIST_NOT_READY", "LIST_READY"}
    /\ scanner \in {"none", "free_list", "close", "open", "search", "decide", "copy", "pages",
                    "first_page", "ready"}
    /\ target \in Volumes \cup {NULL} /\ seen \subseteq Nat
    /\ copied \in 0 .. FILE_NUM + 1 /\ stopped \in BOOLEAN
    /\ recovered = NULL \/ recovered \in [entry : Entries, from : Volumes]
    /\ crashed \in {"no", "close", "recover"}

\* A list announced LIST_READY holds what the search found on the volume that is open: every
\* file that it came to and no other, each once and in their order, so that with no read failing
\* it is the whole list (scan_component.c:121-168, 474-478).
ReadyListIsFound ==
    available = "LIST_READY" =>
        /\ total_Num = Found
        /\ \A n \in 0 .. total_Num - 1 : info[n] = Listed(n)
        /\ found # NULL =>
              /\ handle = [volume |-> found.volume, open |-> TRUE]
              /\ {info[n] : n \in 0 .. total_Num - 1} = [volume : {found.volume}, file : seen]
              /\ \A m, n \in 0 .. total_Num - 1 : m < n => info[m].file < info[n].file

\* The pages of a list announced LIST_READY, from 0 to total_Page - 1, hold each of its files
\* once, and none of them is empty (scan_component.c:165, 262-263).
PagesPartition ==
    available = "LIST_READY" =>
        /\ \A n \in 0 .. total_Num - 1 : \E p \in 0 .. total_Page - 1 :
              n \in Page(p) /\ \A q \in 0 .. total_Page - 1 : n \in Page(q) => q = p
        /\ \A p \in 0 .. total_Page - 1 : Page(p) \cap 0 .. total_Num - 1 # {}

\* A file is recovered from the volume it was listed for (recovery_component.c:46-48).
RecoversWhatWasListed == recovered # NULL => recovered.from = recovered.entry.volume

\* A file is recovered only from a volume that is open (recovery_component.c:46-48).
RecoversFromOpenVolume == crashed # "recover"

=============================================================================
