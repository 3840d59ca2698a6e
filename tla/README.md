# A specification of DataRecovery

DataRecovery (`src/`) is a Windows program that finds lost files. It runs a WebSocket server
(civetweb); a client sends it requests in text, such as `datarec action=set command=scan param=0
param=0 param=1`. A *quick scan* lists the deleted files of an NTFS volume with testdisk's code,
and the files can then be recovered one at a time. A *deep scan* searches the free blocks of a
partition with photorec's code and writes what it recognises to disk. The specification covers the
program's own code: `datarec.c`, `handler.c`, `common.c`, `server/`, `log/`, `handler_component/`,
and the two files by which it drives the vendored engines, `testdisk_inject.c` and
`photorec_inject.c`; and, of photorec itself, the part that a deep scan's correctness rests on: the
list of free ranges and the walk over it. Line numbers below are lines of the files under `src/`.

The repository has no tests. What it says about itself is in its comments, the texts it answers,
and the menu of `client/client.c`.

## Inventory

| Component | State | Operations | Runs on |
|---|---|---|---|
| request server (`server.c`, `handler.c`, `datarec.c`) | `request_Ctx`, `respond_Ctx`, one of each for all connections | parse, call the command's function, splice the answer, send, reset | ten civetweb workers; `main` polls the action |
| scan control (`scan_component.c`) | `process_Ctx` (status, control, percent), two availability codes, `scan_Object_Ctx` | start quick, start deep, stop | workers; one detached thread per scan |
| disk catalog (`disk_component.c`, `common.c`) | testdisk's lists of disks and partitions, `disk_Ctx`, `partition_Ctx` | `set disk` rebuilds, `get disk` shows, a scan resolves two numbers | workers |
| file list (`scan_component.c`, `recovery_component.c`) | the open volume (`dir_data_t`), testdisk's list of files, `file_Ctx`, the recovery path | copy after a scan, page requests, recover file *n*, set the path | scanner thread writes, workers read and move the page |
| deep scan results (`scan_component.c`, `photorec_inject.c`) | `.\tmp\deep` and its directories, `ph_param` | clean, find, classify by extension | scanner thread |
| search space (`photorec_inject.c`, `photorec.c`, `filegen.c`, `pnext.h`, `fatp.c` and others) | `list_search_space`, the place in it, the open file, a header passed over | remove what is in use, guess the block size, align, look for headers, take blocks, give back, go back | scanner thread |
| extension configuration (`common.c`) | enable flags and `file_Extension_Support_List.cfg` | set and save; apply at start-up | worker; `main` |
| quick scan and undelete (`testdisk_inject.c`) | a mounted NTFS volume that its owner goes on using | walk the MFT, read a record again, write its streams | scanner thread; workers |
| lifecycle and log (`datarec.c`, `log.c`) | the context tree, the log handle and its counter | build, start the server, poll for `exit`, take down | `main`; every thread logs |
| client (`client.c`) | a socket | a menu that builds requests | another process |

How they interact. All of it is shared memory below one global, `g_my_Data_Ctx`, and there is not
one lock in the program. A worker parses a request into `request_Ctx`, and command functions read
it back from there. A start request creates a thread, which talks to the workers only through the
status, the stop flag, the percentage and the availability codes. The scanner thread and `file_Ctx`
are read by page requests at any time; `set disk` frees what a scan may be reading; a recovery uses
whatever volume the last scan left open.

What is hard about it, therefore: interleavings of workers and the scanner thread, checks whose
result is stale when it is used, flags set in an order that leaves a gap, state left by a scan that
was stopped or failed, files left by a process that crashed, and numbers that must mean the same
thing to the client who was shown them and to the code that resolves them. `PROJECT.json` lists
these hazards line by line. What would make each component correct:

* scan control: one scan at a time; a stop that was answered "Scan Process Stopped" stops it; a
  scan reads what its request named; a list is ready only when it is complete; a busy status is
  always given back, and every scan ends.
* request server: a client is answered what its own request calls for; nothing of a request is
  inherited by the next; the program stops only when asked, and its contexts are there whenever a
  request is served.
* disk catalog: shown numbers name what they are shown with; a disk is shown with its own
  partitions; nothing is freed under a scan.
* file list: a ready list is what the scan found, its pages partition it, and a file is recovered
  from the volume it was listed for.
* recovery: success is answered only when every stream was written, failure only with a cause, and
  a file is cut only to the length its record gives.
* search space: the list stays a list of whole free blocks, a sector is free or in one file, no
  block is missed, the walk never loses its place, and it ends.
* deep scan: a ready result is what the scan found, sorted; what is missing could not be moved, and
  what is left over could not be deleted; what a user enabled stays enabled.

## Modules

| Module | Models | Checked by |
|---|---|---|
| `ScanService` | what scans promise a client, without threads or flags | refined by `ScanControl` |
| `ScanControl` | start, stop and the two thread functions, one shared access at a time | `MCScanControl`: `scan_patient`, `scan_two_at_once`, `scan_lost_stop` |
| `ScanControl_proofs` | theorems about `ScanControl` | TLAPS |
| `RequestServer` | parsing, dispatch, answer, reset, one shared access at a time; `main` from the building of the contexts to their end | `MCRequestServer`: `server_one`, `server_pair`, `server_mixed` |
| `FileList` | the open volume, the list, its pages, recovery by number | `MCFileList`: `list_wrong_volume`; and in `Recovery` |
| `Undelete` | `calc_percentage` and `undelete_file`, on a volume that changes | in `Recovery` |
| `Recovery` | `FileList` and `Undelete` composed: recoveries that take time, beside scans and requests | `MCRecovery`: `list_careful` |
| `FileList_proofs`, `Recovery_proofs` | theorems about `FileList` and about the composition | TLAPS |
| `DiskCatalog` | the rebuild of disks and partitions and their numbers | `MCDiskCatalog`: `catalog_careful`, `catalog_unreadable` |
| `DeepScan` | directories of a deep scan and the extension configuration, with restarts | `MCDeepScan`: `deep_files` |
| `RequestServer_proofs`, `DiskCatalog_proofs`, `DeepScan_proofs` | theorems about these | TLAPS |
| `NatInduction` | induction over the natural numbers, for the proofs | TLAPS |
| `Carving` | what the search of a deep scan promises: sectors leave the free space only with a file that is kept, and for good | refined by `SearchSpace` |
| `SearchSpace` | the list of free ranges and the walk over it, turn by turn | `carve` |
| `SearchSpace_proofs` | theorems about `SearchSpace` | TLAPS |

Names are the source's, spelling included (`Accecc_Partition`, `Delete_Diectory`). Definitions that
begin with `Bug_` are slips that could be made in the definition after them; nothing uses them.
They are there to show that a property can fail: with the slip in place of the definition, TLC
finds the property violated.

### ScanControl and ScanService

`Scan_Handler` takes a request; `Set_Scan_Disk`, `Set_Scan_Partition`, `Accepted`, `Check_Busy`,
`Create_Thread` and `Create_Fails` are the statements of `Start_QuickScan_File`,
`Start_DeepScan_File` and `Scan_File_BackGround` in their order. A created thread goes through
`Reset_Percent`, `Mark_Busy`, `Mark_Unready`, `Allow`, the scan proper, `Decide`, `Full`,
`Mark_Idle`, `Mark_List`; each is one statement of `Quick_Scan_File_With_Param` or
`Deep_Scan_File_With_Param`. Those that call `Set_Percent` begin a call (`call`), which goes
through `Compare_Percent`, `Write_Percent_Cmp` and `Write_Percent`, one shared access each, before
the thread goes on: of two scans at once, the slower may put an older percentage back. Requests are
served one at a time here (the workers' interleaving is `RequestServer`'s subject), and any number
of threads may exist.

`Patience` is what the client does before it starts a scan: "patient" waits for the previous thread
to have ended, "observant" waits until the status shows the scan it started, "eager" does not wait.
A NULL pointer in the scan object (`Meets_Null`) is met only when a request comes in between: a
patient client never sees it, as `PatientNeverCrashes` proves for any number of threads. The code
guarantees little to an eager client and much to a patient one, and each property is stated for the
weakest client it holds for.

`ScanService` has three variables: the kind of scan under way, its volume, and the readable result
of each kind. `ImplementsService` maps threads and flags to these. The mapping hides the list of
the running kind: between `LIST_NOT_READY` and `LIST_READY` the code promises nothing.

### RequestServer

The parser works on the outcome of each comparison it makes, not on characters; a request is a
record of those outcomes. One outcome is about length: `Set_Command` copies a command of any length
into 30 bytes in front of `command_ID` (`common.c:321`), so a command that is not in the table and
has 32 characters or more ("long") replaces the -1 that `handler.c:141` tests by another number,
and the table is left at `:380`; or by the position 0, when the last byte that is written is the
text's final zero on a number whose other bytes are zero already. Messages are taken to have fewer
than 100 bytes, the size of the parser's copy, and no `%`. Every read or write of `request_Ctx` and
`respond_Ctx` is a step, so two workers interleave as the code lets them. What a command's function
does is reduced to what it reads (command, action, parameters) and the code it returns: the answer
names them, which is enough to tell whose request was answered. `main` polls the action as in
`datarec.c:54`, and `Civetweb_Stop` waits for the workers. Before that it builds the contexts and
starts the server, which may fail; afterwards it frees the contexts one after the other. A scanner
thread is not waited for: if it comes back to a context that was freed, `crashed` is set. A
command's function reads its parameters through `Get_Params`, which goes one place too far as
`Get_Char_Param` does (`common.c:352`); that it finds nothing there depends on the reset, which is
why the answer of one request depends on the cleaning up after another. A function looks at the
action with two `strcmp`, which may see two actions, and it reads as many parameters as `Needed`
says: when there are fewer, it calls `atoi(NULL)` (`common.c:362`) and the process is gone
(`Function_Dies`). The parameters are read in one step. `strtok` is taken to keep its place per
thread, as the Microsoft C library does.

### FileList

A volume's files are numbered; an entry of `info` is the pair of volume and number that its name,
size and inode stand for. The scanner thread closes the last volume (`File_Data_Free`), mounts the
next (`File_Data_Init`), searches, copies one entry at a time (`Copy_Entry`) and sets the totals
one at a time (`Update_Totals`). Page requests and recoveries interleave with it. With `Careful`,
the client uses the list only while the `info` request says LIST_READY, and only numbers below
`total_Num`. The walk of `$MFT`'s bitmap (`Quick_Scan_File`) comes to one file at a time, in any
order, may pass over any of them and may end at any file: a record that cannot be read is skipped
(`testdisk_inject.c:576-580`), and a bitmap that cannot be opened or read ends the walk
(`:540-546`, `:566`). The list is sorted and goes out as LIST_READY all the same, so a ready list
is what was found (`seen`), not always all that is lost. The page that is sent is not kept: it
holds the entries of `Page(current_Page)`.

### Undelete and Recovery

A record of the MFT is the sequence of its data streams, a stream its runlist, a run its clusters
or as many zeros as it has blocks without data. `Percent` is `calc_percentage` for one stream.
`Ask` takes a record that the list may show, that is, one with a percentage above 0 when it was
listed. `Volume_Changes` is the system that owns the volume: it may take the record, or any
cluster, at any time afterwards, since nothing keeps it from that. `Undelete_File` follows the code
stream by stream and block by block, with every open, read and write that may fail. `write_data`
returns `unsigned`, so a `write` that returns -1 looks like a long one and its block is missing
from the file (`unnoticed`). What is in a cluster is left out: a file is the sequence of cluster
numbers it was copied from.

`Recovery` puts this beside `FileList`: `Quick_Scan_Recovery_File` looks up the entry, and the
blocks are then read through `FileList`'s handle. With `Careful`, the client waits for the answer
before it starts a scan, which would close the volume, or sets the recovery path.

### DiskCatalog

`Machine_Changes` replaces the hardware at any time. `Update_Disk_List` is followed call by call,
and its loops disk by disk. `disk_t` and `partition_t` objects carry the number of the rebuild that
allocated them, so a pointer to a freed object differs from one to its successor. With `Careful`, a
client sends nothing else while a rebuild runs and does not rebuild during a scan.

### DeepScan

A file is a name, its extension a position in the table of extensions. `report.xml`, which photorec
writes into the first directory when it is built with `ENABLE_DFXML`, is one more, without an
extension. No result of a deletion or a move is looked at. So deleting a directory
(`Delete_Diectory`) may leave files behind that cannot be deleted (`left`), and the directory with
them; or an empty directory, as `remove()` need not delete directories. A move may fail for any
reason, and does when a file of the same name was left at its destination; the file (`unmoved`) is
then deleted with its recup directory (`scan_component.c:445`, `:448`). The properties are about
the scan's own files (`Own`, what is stored and not left over) and excuse just those whose own move
failed. That an existing directory can be opened is taken for granted. All directories are cleaned
in one step, as a crash in the middle leaves no more than failing deletions do. `Restart` may
happen in any state; it keeps the disk and resets the memory. `Applied` is what
`Apply_File_Extension_Support_Config` makes of the configuration: `atoi(&buffer[i])` reads *all*
digits from `i` on and what follows in an unterminated buffer. With 25 digits the result overflows
an `int`, but a number whose lowest non-zero digit is at position k < 32 is not a multiple of 2^32,
so the test for zero is not affected, whether the library wraps or saturates.

### SearchSpace and Carving

Sectors are numbers and a range is an interval of them, with the flag (`file_stat`) that a file was
given up at its start. `Remove_Used_Space`, `Photorec_Find_Blocksize` and `Align` are what comes
before the walk. The first chooses a file system, the sector of its first cluster and the clusters
in use. NTFS counts clusters from the start of the partition; FAT and exFAT from where the boot
sector says, and only FAT takes out what lies before (`fatp.c:168`). The alignment counts blocks
from the first range, so the history variable `on_blocks` says whether they are the clusters. In an
exFAT volume whose first cluster is not a whole number of clusters from the start they need not be
(`exfatp.c:97-121`), and rounding up the end of the last range (`photorec.c:505`) may bring back
sectors of a cluster in use: with `LAST` 7, clusters of two from sector 2 on and all of them in
use, the range that is left is sector 1, which becomes 1 to 2. `InUseIsLeftAlone` is therefore
claimed under `on_blocks`; without it TLC finds it violated. One turn of `photorec_aux`'s loop is
`Photorec_Check_Header`, `Photorec_Data`, perhaps `Move`, and `Turn`. Whether a block is a header,
whether a file goes on and how many of its blocks `file_check` leaves are free choices, as they
depend on the data only; so is a stop, a failed `fopen` or a full disk, at every block.
`Take_Block` removes a block from the list and `Give_Back` returns a fragment, each with what it
does to the walk's place. `Go_Back` is the way back after a file was kept, first to headers given
up before (at most `MAX_BACK` times in a row), then to a header passed over. The options are those
that `Option_Init` sets, which rules out photorec's other strategies (ext2, low memory, brute
force).

`Carving` says what this amounts to. `started`, `free` and `files` are mapped to "the walk has
begun", the list with the open file's sectors, and the files kept. A file that is opened, extended,
rejected, aborted or cut, and every way back, is a stutter of it.

## Runs

| Run | Instance | What it shows |
|---|---|---|
| `scan_patient` | 2 threads, 3 volumes (2 NTFS), 3 blocks, patient | threads and flags implement `ScanService`; scans read what was named, ready lists are complete, stops are honoured, nothing crashes, the percentage never goes back, a busy status has a thread that gives it back, and every scanner thread ends |
| `scan_two_at_once` | eager | *violation*: two starts pass the busy check before the first thread sets the status |
| `scan_lost_stop` | observant | *violation*: a stop accepted between `Set_Status` and `Set_Control(SCAN_CONTINUE)` is lost |
| `server_one` | 1 worker, every request the parser distinguishes with up to 2 parameters | the answer is the one the request's text calls for, also for the place after the last parameter; the process dies of no request but one whose command overruns its field or whose function needs more parameters |
| `server_pair` | 2 workers, 2 requests, a scanner's report | with both workers at rest, nothing of a request is left; `main` stops only for an exit request; the contexts exist from before the first request until after the last |
| `server_mixed` | 2 workers | *violation*: clients get each other's answers |
| `list_careful` | 3 volumes with 3, 2 and 2 files (one cannot be mounted), pages of 2, `FILE_NUM` 4; 5 kinds of record on 3 clusters | ready lists are what was found, pages partition them, files come from their own volume, which is open; recovered files are complete when success is answered, failures have a cause, and a cut file has the length its record gives |
| `list_wrong_volume` | the same volumes, a client that does not wait | *violation*: while a second scan is searching another volume, an old list's number is recovered from it |
| `catalog_careful` | 5 machines of up to 2 disks, one of them with an unreadable disk; 3 rebuilds | numbers resolve to what is shown; a catalogue whose disks could all be read is right whatever came before; nothing is freed under a scan |
| `catalog_unreadable` | the same | *violation*: after an unreadable disk, a disk's partitions are those of the next |
| `deep_files` | 2 files and a report, 2 extensions, 1 file per directory, 4 directories, 1 file that cannot be deleted | a ready result is the scan's files, sorted, but for those whose move failed, and besides these only what could not be deleted; no other is lost; the numbering of directories has no gap where files are; saved extensions survive restarts |
| `carve` | 6 sectors, clusters of 2 from any sector on, blocks of up to 4, any clusters in use, any headers and file ends | the list stays sound, each sector is in one place, no block is missed, the walk never reaches `exit(1)`, it ends, and it implements `Carving` |

Bounds, and why they suffice. Two threads are the fewest that can overlap, and a third adds no new
pair of statements; the theorems cover any number. Blocks = 3 and MaxBack = 1 let a deep scan
advance, go back and end. Two parameters tell the first from the others and from the end. With two
parameters, "set scan" can be given all three it reads, the third being the place after the last,
or too few. In `server_pair` workers are interchangeable. Pages of 2 with lists of 3 and 2 give a
page that is part full and one that is exactly full; `FILE_NUM` 4 leaves room. Three rebuilds are
enough for a list to be left by one, skipped by the next and met by the third. One file per
directory and two files make the directory change in mid-scan; `MAX_DIR` 4 lets one directory stay
behind, and `MAX_LEFT` 1 one file that can get in the way of another. The files are
interchangeable. The guards that use bounds are `rebuilds < MaxRebuilds`, the second conjunct of
`Deep_Scan_File_With_Param` and, in `Delete_Diectory`, `Cardinality(left') <= MAX_LEFT`.

In `list_careful`, the five records have each kind of run and of stream at least once, a runlist of
two runs, and two streams in either order; three clusters let one be reused while another is read.
`FULL` 2 stands for 100 percent: with at most three blocks there are none, some and all. In
`carve`, six sectors are three clusters of two, or two and a sector before them, or one block of
four and a rest. That is enough for a range to be split by a file in its middle, for a file of two
fragments around a cluster in use, for a header passed over within a file, for ends that are not a
multiple of the block, and for going back twice (`MAX_BACK` 1, and then to the header passed over).
The bounds `MAX_HEADERS`, `MAX_BACK`, `FRAGMENTS` and `BACK_SIZE` are constants of the code (10, 5,
3 and 200 MB), made smaller; nothing else is bounded.

The busy check is checked by `scan_two_at_once`, where a client that does not wait defeats it, and
proved to hold for all other clients (`OneScan`).

Deadlock is checked in `scan_patient`, `catalog_*` and `deep_files`. The other runs turn it off
because the model really stops: the process crashed, `main` is gone, or the search has ended.

Fairness is assumed in two places. The first is `FairSpec` of `ScanControl`, for `EveryScanEnds`:
weak fairness of each thread's next statement and of the handler's. They are operating-system
threads without locks, so a thread that has not ended can always run. Nothing is assumed about
clients. The engine's own progress is part of the model: a deep scan moves through a finite number
of blocks and goes back a bounded number of times (`MaxBack`). The second is `FairSpec` of
`SearchSpace`, for `SearchEnds`: the scanner thread takes steps until the search has ended (weak
fairness of `Next`, written out). Nothing says which steps, so the search ends whatever it finds:
this is where the bound on going back in a row, and the fact that each way back is paid for by a
kept file, are needed. Together, `SearchEnds` justifies the bounded blocks and ways back of
`ScanControl`.

## Proofs

Each proof module begins with a summary of its argument. All of them are of one kind: a property
that the runs check is not inductive, because it says nothing about where the threads are, so it is
strengthened by an invariant that ties the program counters to the shared variables; that invariant
is established by `Init` and kept by each action, and implies the property.

`ScanControl_proofs` holds for any set of threads and volumes and any bound. It proves
`TypeCorrect` (`TypeOK`, with what is known of the request that creates a thread) and `BusyOwned`
for every client; for any client but an eager one, `OneScan`, `NeverBack` (`ProgressForward`: with
one scan at work the comparison of `Set_Percent` still holds when it writes; two scans do make the
percentage go back) and `LateStopHonoured`, that a stop accepted after the scan has cleared the
flag is taken back by no other request or thread, so that the window `scan_lost_stop` shows is the
only one; and, for the patient client, `PatientReadsItsObject`, `PatientReadyListIsComplete`,
`PatientNeverCrashes` and `Implementation`, that `Spec` implements `ScanService`. The invariants
say which statements set the status, what a thread between two of them has already done, and that
with a patient client at most one thread is not free. From that, each step of the running thread is
either a stutter of `ScanService` or one of its actions. The assumptions are those named in
`ScanControl.tla`.

`RequestServer_proofs` holds for any number of workers and requests of any number of parameters.
For every interleaving it proves `TypeCorrect`, `AlwaysServed` (`LifeInv`: which contexts exist at
each statement of `main`), `QuietServer` (`TidyInv`: a field of the request or of the answer is set
only while some worker is between the statement that sets it and the one that resets it; the sets
`Holds...` name these statements) and `StopsForAClient` (`ExitInv`: an action of "exit" is the
action of a request in service). For a lone worker it proves `LoneDies` (`DiesOfAFatalRequest`) and
`LoneAnswers` (`AnswersItsRequest`, of the requests that do not bring the process down), from
`StageInv`, which says what the worker has learned of its request at each statement. The two need
that the worker is alone, and `server_mixed` shows why.

`FileList_proofs` proves `TypeCorrect` for any volumes, files, page size and client, and, for
volumes whose files fit in `file_Ctx->info` (`ListsFit`: at most `FILE_NUM + 1` of them),
`AnnouncedAsFound` (`ReadyListIsFound`), `PagesCover` (`PagesPartition`) and, for a client that
uses a list only while it is announced, `CarefulRecovery` (`RecoversWhatWasListed` and
`RecoversFromOpenVolume`). A list that is announced was built by a thread that has ended, so the
inductive invariant `Building` says, statement by statement of that thread, what has been copied so
far, and that the list holds what the search came to (`FoundIsSeen`); when the thread marks the
list, that is the theorem. That an ascending list of a set has each of its members once is a matter
of cardinalities (`AscendingList`). `PagesCover` follows from the value of `total_Page` and a few
facts on division. Without `ListsFit` the list is cut off after `FILE_NUM + 1` entries and
`ReadyListIsFound` fails.

`Recovery_proofs` is about a recovery beside everything else, on a volume that goes on changing.
`RecoveredWhole` (`SuccessIsComplete`) rests on `UndeleteInv`: what was written so far is a part of
what the current stream is to be (`IsPart`), and each stream before it is done. `FailuresExplained`
(`FailureHasCause`) holds of every record. `CutsFit` (`TruncationFits`) adds `CutInv`: the
percentages are those of the record, and what is counted less than written is a hole or a missing
beginning. A stream with 100 percent has nothing missing, so it is cut at the end of all its
blocks. It assumes `HolesAllocated`, that the allocated size of a stream with a hole is at least
that of its runs, as NTFS lays streams down; the code does not look. In a record where that is not
so the blocks besides the holes can add up to the allocated size, and a file that is too long is
cut. The five records of the run have it. `Composition` says that with a client that waits for
answers the composition implements `FileList`: the one-step recovery of `FileList` is what a
recovery that reads for a while amounts to, as long as its volume stays open (`StaysOpen`).
`ReadsOpenVolume` is then `CarefulRecovery`, carried over.

`DiskCatalog_proofs` proves `TypeCorrect`, `Resolves` (`NumbersResolve`), `OwnPartitions`
(`PartitionsOfTheirDisk`) and, for careful clients, `ScansOfLiveObjects`, for any machines that fit
in the tables. The code counts the numbers on from disk to disk, which the model says with a
recursive function (`First`). `TableInv` says it with *some* table of starts that was built along
with the numbers; that this table is `First` is an induction over the disks. `MachinesFit` is what
the tables need: a disk that cannot be read is shown with the partitions an earlier disk left in
its position, so no machine may have more disks than there are, times the partitions of any disk
seen before, than the table has room for.

`DeepScan_proofs` proves `TypeCorrect`, `AnnouncedSorted` (`ReadyMeansSorted`), `NoFileLost`
(`NothingLost`), `NoGap` (`RecupHasNoGap`) and `SettingsSurvive` (`EnabledSurvives`) for any number
of files, extensions and directories, with any crashes. `PlaceInv` says where the scan's own files
may be at each stage: nowhere at its start, then in the recup directories up to `dir_num`, which
all exist, then in those from `index` on or where they belong. A file whose move failed stays in
its directory until that is deleted, and may then be left over for the next scan to delete.

`SearchSpace_proofs` holds for any partition, cluster size, largest block and limits, of which
`SearchSpaceAssumption` says only what the code has: the partition does not begin at sector 0
(where the boot sector is, and 0 stands for "no header passed over"), and 1, the cluster size and
the largest block are among the powers of two that are tried. It proves `TypeCorrect`,
`InOrderAlways` (`RangesInOrder`), `OnceAlways` (`EverySectorOnce`), `FoundAlways`
(`NeverGivesUp`), `AloneAlways` (`InUseIsLeftAlone`), `SeenAlways` (`NothingUnseen`) and `Carves`,
the refinement of `Carving`. None of these is inductive. `Inv` has five parts: types; what is known
before the walk; `DuringWalk`, that the list, the open file and the kept files divide the walk's
sectors between them in whole blocks; `OnTheWay`; and that nothing is unseen at the end. `OnTheWay`
carries the argument. The offset is a block of the list, though not always of the range the walk
stands on; only no earlier than its start. Every block that has not been looked at is still free,
lies at the place or behind it, and *behind the header passed over*: that is why going back to such
a header leaves nothing out, and why forgetting it when it was kept in a file
(`Header_Ignored_Cond_Reset`) matters. `NeverGivesUp` comes down to the first of these,
`NothingUnseen` to the second. What the lists do is proved apart from the walk, for lists of ranges
of any set `R` (`InsertRange`, `RemoveRange`, `ReplaceRange`, `GiveBackAll`, `Aligned`): each keeps
the order and changes the sectors by just those it was given. The alignment needs its own argument.
`Aligned` says that of what it adds, all lies behind the last range, and only if that range did not
end at a block; as the ranges begin and end at clusters when the clusters in use were read and the
blocks begin at them (`AtClusters`, with the grid of clusters from the first cluster or from the
partition's start), nothing in use is added.

`NatInduction` has what the proofs need of induction: a set of natural numbers that has 0 and is
closed under adding 1 has all of them (from the well-foundedness of `<`), and from that the
existence and the values of the recursive functions in `DiskCatalog`, in `FlattenSeq` and in
`Give_Back_All`.

Only model-checked: `EveryScanEnds` and `SearchEnds`, which are liveness under fairness and out of
the prover's reach. The violation runs are counterexamples and need no proof.

## Where the code departs from what it says

The findings of the five violation runs are in `PROJECT.json`. Met while modelling, visible in the
modules, and not given a run of their own:

* a start request refused as busy has already replaced the disk of the scan that runs
  (`scan_component.c:557`);
* the status turns IDLE before the list is marked ready (`:477-478`), so a fast client's next scan
  can be announced ready while it runs;
* a volume that cannot be mounted still ends as LIST_READY, with an empty list (`:461`);
  `local_dir` is set even so (`:46`), and the next scan closes the earlier volume a second time
  (`common.c:612`), as the first scan does when the recovery path was set before it;
* of two scans at once the slower may put an older percentage back (`common.c:467-483`);
* a file that a deep scan found and `MoveFile` could not move is deleted with its directory
  (`scan_component.c:445-448`), and one that cannot be deleted is shown with the next scan's files
  (`:343`);
* `Update_DataRec_Ctx` writes one entry past `FILE_NUM` (`:141`); the page after the last can be
  asked for (`:208`, `:223`); a page always shows ten entries, the last ones of an earlier list
  (`:265`);
* a parameter that is too long is dropped without an error (`handler.c:195`); a message without a
  first token is answered nothing; `main` can miss an exit request that is parsed and forgotten
  between two polls (`datarec.c:54`);
* a disk's number is shown from the table of partitions (`disk_component.c:39`), and with no disk
  at all the number of partitions is that of the last rebuild;
* an extension that was disabled is enabled again by a restart when any after it is enabled
  (`common.c:784`).
* the log: `log_times` is compared with `==` and counted without a lock, so two threads that log at
  once can take it past `LOG_FRESH_FREQUENCY`, and nothing is flushed from then on (`log.c:63-68`);
  `Log_Close` forgets the handle only when `fclose` *fails* (`log.c:97-101`), so
  `My_Data_Context_Free` logs to a closed file;
* `main` looks at no result: with the port in use it polls for ever (`datarec.c:51-54`). It does
  not wait for scanner threads, which may use a context that was freed (`datarec.c:60`);
* a request with fewer parameters than its command reads calls `atoi(NULL)` (`common.c:362-365`),
  and a command of 32 characters or more runs into `command_ID` (`common.c:321`);
  `DiesOfAFatalRequest` says that there is nothing else a single client can bring the process down
  with. The client's menu item 12 asks for a file's number and sends the last page's
  (`client.c:197-200`);
* a read error in `$MFT`'s bitmap ends the walk, and what was found until then is announced
  LIST_READY (`testdisk_inject.c:566`); each stream of a record is an entry of the list, and the
  recovery of any of them writes all streams;
* `undelete_file` returns 0 or -2 only, so "Success(With Broken Data)" is never answered
  (`recovery_component.c:57`); a write that returns -1 is not noticed (`testdisk_inject.c:667`); a
  missing beginning is written twice (`:782-816`); a sparse stream is never cut to its size, nor is
  an encrypted or compressed one, which is written as it is on disk;
* two lost files of one path overwrite each other (`testdisk_inject.c:649`), and a scan that starts
  during a recovery closes the volume and resets the path the remaining streams go to;
* a redirection is never taken away (`scan_component.c:101` is behind two returns); a second scan
  of the partition adds another, and a partition behind one that was redirected is refused
  (`io_redir.c:94-101`), which nobody looks at;
* photorec: a stop is not noticed while the block size is looked for; the last range's end is
  rounded *up* to a block, past the partition's end (`photorec.c:495`), or over clusters in use
  (see SearchSpace); `get_prev_location_smart` may leave the offset outside the range it names
  (`filegen.c:868`), which only the search through the whole list in `file_block_remove_from_sp`
  makes harmless; a header passed over in a file rejected at the end of the list is not visited
  again.

## Not modelled

* File names, paths, sizes and dates; the wording of JSON and of answers; the log.
* What photorec's `header_check`, `data_check` and `file_check` functions say of the data (some 300
  file types), and what the libraries read from file systems: free choices in `SearchSpace` and
  `FileList`. A file that `DeepScan` finds is any that was not found yet.
* Redirection of partitions (`scan_component.c:92-112`): it changes where a scan reads, never what
  it does. Memory that runs out.
* `client.c`: the choice of requests stands for it.
* Everything else under `libdatarec/` (testdisk's partition search, ntfs-3g, libewf, libjpeg and
  others) and civetweb and cJSON: third-party libraries, over 99% of the C lines of the repository.
  Their effect is modelled where first-party code calls them. Their own correctness is not a claim
  of this program, so the specification covers only a small share of the repository's lines, though
  nearly every state change of the first-party ones.

## Plan

1. Done: `ScanControl` with `ScanService`; `RequestServer` with start-up and take-down; `FileList`;
   `DiskCatalog`; `DeepScan`; `Undelete` and `Recovery`; `SearchSpace` with `Carving`; theorems for
   each safety and action property that a passing run checks.
