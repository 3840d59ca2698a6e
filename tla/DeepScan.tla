------------------------------ MODULE DeepScan ------------------------------
(***************************************************************************)
(* What a deep scan leaves on disk (scan_component.c:297-452, 484-511,     *)
(* 596-632; common.c:763-821; photorec_inject.c:245-356).                  *)
(*                                                                         *)
(* photorec writes the files it finds into recup.1, recup.2 and so on; the *)
(* scanner thread then moves each into a directory for its extension.      *)
(* Before a scan, everything an earlier one left is deleted.  Directories  *)
(* outlive the process, and a process may end at any statement, so the     *)
(* model includes its restart.                                             *)
(*                                                                         *)
(* Which extensions a scan looks for is set by a request and kept in a     *)
(* configuration file of one digit per extension, read at start-up.        *)
(*                                                                         *)
(* ScanControl shows how scans begin and end; one scan and one request at  *)
(* a time are taken for granted here.  The deletion of a directory or of a *)
(* file and the move of a file may fail, and no result is looked at.       *)
(***************************************************************************)
EXTENDS Integers, FiniteSets

CONSTANTS
    Extensions,         \* how many extensions there are (25)
    Files,              \* the files a scan can find: names such as f0001234.png
    Report,             \* {report.xml} when built with ENABLE_DFXML, {} when not
    Extension,          \* Extension[f]: the position of its extension in the table, 0 for none
    Default,            \* Default[k]: .enable in gSA_deep_Scan_File_Extension_List
    MAX_FILES_PER_DIR,  \* files of a recup directory (500)
    MAX_DIR,            \* bound: recup directories that fit on the disk
    MAX_LEFT            \* bound: files that a scan cannot delete

Kinds == 1 .. Extensions
Names == Files \cup Report

ASSUME DeepScanAssumption ==
    /\ Extensions \in Nat \ {0} /\ Default \in [Kinds -> BOOLEAN]
    /\ Extension \in [Names -> Kinds \cup {0}] /\ Files \cap Report = {}
    /\ MAX_FILES_PER_DIR \in Nat \ {0} /\ MAX_DIR \in Nat \ {0}
    /\ MAX_LEFT \in Nat
    /\ IsFiniteSet(Files)

VARIABLES
    enable,     \* file_Extension_Surpport_List[k].enable
    config,     \* file_Extension_Support_List.cfg, and its digits once they are written
    saving,     \* the next statement of Set_DeepScan_File_Extension, or "none"
    dirs,       \* directories below .\tmp\deep
    stored,     \* files below .\tmp\deep, each with its directory
    left,       \* those of them that were to be deleted since the last start of a scan
    scanner,    \* the next statement of the scanner thread, or "none"
    looks_For,  \* file_stats: the extensions the scan looks for
    found,      \* files the scan has written: those it found, and its report
    unmoved,    \* those of them that MoveFile failed for
    dir_num, file_nbr,
    index,      \* i of Deep_Scan_File_Classify
    visit,      \* files to move that readdir has not returned yet
    stopped,    \* process_Ctx->control is SCAN_STOP
    available   \* info_Ctx->deep_Scan_File_List

disk == <<config, dirs, stored, left>>
params == <<looks_For, found, unmoved, dir_num, file_nbr>>
walk == <<index, visit>>
vars == <<enable, disk, saving, scanner, params, walk, stopped, available>>

Recup(n) == <<"recup", n>>
Sorted(k) == <<"extension", k>>
Directories == {Recup(n) : n \in 1 .. MAX_DIR} \cup {Sorted(k) : k \in Kinds \cup {0}}

In(d) == {s \in stored : s[1] = d}

\* The files of this scan.
Own == stored \ left

ConfigFile(state, digits) == [state |-> state, digits |-> digits]

Bug_Applied_Next_Digit ==
    CASE config.state = "missing" -> {Default}
      [] config.state = "empty" -> [Kinds -> BOOLEAN]
      [] config.state = "written" ->
            {[k \in Kinds |-> tail \/ \E m \in k + 1 .. Extensions : config.digits[m]]
                : tail \in BOOLEAN}

\* What Apply_File_Extension_Support_Config can make of the file.  atoi reads every digit from
\* position k on, and what the buffer happens to hold after the last (`tail`): k is enabled when
\* one of them is not zero.  25 digits overflow an int, but cannot become a multiple of 2^32
\* unless they are all zero.  From an empty file only such a buffer is read.
Applied ==
    CASE config.state = "missing" -> {Default}
      [] config.state = "empty" -> [Kinds -> BOOLEAN]
      [] config.state = "written" ->
            {[k \in Kinds |-> tail \/ \E m \in k .. Extensions : config.digits[m]]
                : tail \in BOOLEAN}

Init ==
    /\ enable = Default /\ config = ConfigFile("missing", Default) /\ saving = "none"
    /\ dirs = {} /\ stored = {} /\ left = {}
    /\ scanner = "none" /\ looks_For = {} /\ found = {} /\ unmoved = {} /\ dir_num = 1 /\ file_nbr = 0
    /\ index = 1 /\ visit = {}
    /\ stopped = FALSE /\ available = "LIST_NOT_READY"

----------------------------------------------------------------------------
(* Extensions: Set_DeepScan_File_Extension and its file *)

Set_DeepScan_File_Extension(k, value) ==
    /\ saving = "none"
    /\ enable' = [enable EXCEPT ![k] = value]
    /\ saving' = "open"
    /\ UNCHANGED <<disk, scanner, params, walk, stopped, available>>

\* fopen(.., "w") empties the file; fwrite and fclose fill it.
Save_File_Extension_Support_List_Config ==
    \/ /\ saving = "open"
       /\ saving' = "write"
       /\ config' = ConfigFile("empty", Default)
       /\ UNCHANGED <<enable, dirs, stored, left, scanner, params, walk, stopped, available>>
    \/ /\ saving = "write"
       /\ saving' = "none"
       /\ config' = ConfigFile("written", enable)
       /\ UNCHANGED <<enable, dirs, stored, left, scanner, params, walk, stopped, available>>

----------------------------------------------------------------------------
(* The scanner thread *)

Step(from, to) == scanner = from /\ scanner' = to

RecupDirs == {n \in 1 .. MAX_DIR : Recup(n) \in dirs}

\* A scan starts only when the directories it may need fit under MAX_DIR.
Deep_Scan_File_With_Param ==
    /\ Step("none", "clean")
    /\ Cardinality(RecupDirs) + (Cardinality(Files) \div MAX_FILES_PER_DIR) + 1 <= MAX_DIR
    /\ available' = "LIST_NOT_READY"
    /\ stopped' = FALSE
    /\ left' = {} /\ found' = {} /\ unmoved' = {}
    /\ UNCHANGED <<enable, config, dirs, stored, saving, looks_For, dir_num, file_nbr, walk>>

Stop_Scan_Process ==
    /\ scanner # "none"
    /\ stopped' = TRUE
    /\ UNCHANGED <<enable, disk, saving, scanner, params, walk, available>>

\* Delete_Diectory for each of some directories: their files go, but for those that cannot be
\* deleted.  A directory may stay, and does when it is not empty.
Delete_Diectory(all) ==
    \E kept \in SUBSET {s \in stored : s[1] \in all} :
       /\ stored' = {s \in stored : s[1] \notin all} \cup kept
       /\ left' = {s \in left : s[1] \notin all} \cup kept
       /\ Cardinality(left') <= MAX_LEFT
       /\ \E gone \in SUBSET (all \ {s[1] : s \in kept}) : dirs' = dirs \ gone

Bug_Deep_Scan_File_Clean_Recup_Only ==
    /\ Step("clean", "mkdir")
    /\ Delete_Diectory({Recup(n) : n \in RecupDirs})
    /\ UNCHANGED <<enable, config, saving, params, walk, stopped, available>>

\* One step for all directories: a crash halfway leaves no more than files that could not be
\* deleted would.
Deep_Scan_File_Clean ==
    /\ Step("clean", "mkdir")
    /\ Delete_Diectory(dirs)
    /\ UNCHANGED <<enable, config, saving, params, walk, stopped, available>>

Bug_Photorec_Mkdir_Skips(from) ==
    /\ \E n \in from + 1 .. MAX_DIR :
          /\ n \notin RecupDirs
          /\ \A m \in from + 1 .. n - 1 : m \in RecupDirs
          /\ dirs' = dirs \cup {Recup(n)}
          /\ dir_num' = n

\* photorec_mkdir: the first number from `from` on whose directory does not exist yet.
Photorec_Mkdir(from) ==
    /\ \E n \in from .. MAX_DIR :
          /\ n \notin RecupDirs
          /\ \A m \in from .. n - 1 : m \in RecupDirs
          /\ dirs' = dirs \cup {Recup(n)}
          /\ dir_num' = n

\* params_reset, with the extensions that are enabled now, the first directory and, when there
\* is one and it can be opened, the report in it.
Params_Reset ==
    /\ Step("mkdir", "find_offset")
    /\ looks_For' = {k \in Kinds : enable[k]}
    /\ file_nbr' = 0
    /\ Photorec_Mkdir(1)
    /\ found' \in SUBSET Report
    /\ stored' = stored \cup {<<Recup(dir_num'), f>> : f \in found'}
    /\ UNCHANGED <<enable, config, left, saving, unmoved, walk, stopped, available>>

\* The pass that looks for the block size; status_inc then starts the count of files again.
Find_Offset ==
    /\ Step("find_offset", IF stopped THEN "end" ELSE "carve")
    /\ file_nbr' = 0
    /\ UNCHANGED <<enable, disk, saving, looks_For, found, unmoved, dir_num, walk, stopped, available>>

Bug_File_Found_Again ==
    /\ Step("carve", "carve")
    /\ \E f \in Files :
          /\ Extension[f] \in looks_For
          /\ found' = found \cup {f}
          /\ stored' = stored \cup {<<Recup(dir_num), f>>}
    /\ file_nbr' = file_nbr + 1
    /\ IF file_nbr' % MAX_FILES_PER_DIR = 0
       THEN Photorec_Mkdir(dir_num + 1)
       ELSE UNCHANGED <<dirs, dir_num>>
    /\ UNCHANGED <<enable, config, left, saving, looks_For, unmoved, walk, stopped, available>>

\* A file is found, and its blocks leave the search space.  A full directory is followed by
\* the next.
File_Found ==
    /\ Step("carve", "carve")
    /\ \E f \in Files \ found :
          /\ Extension[f] \in looks_For
          /\ found' = found \cup {f}
          /\ stored' = stored \cup {<<Recup(dir_num), f>>}
    /\ file_nbr' = file_nbr + 1
    /\ IF file_nbr' % MAX_FILES_PER_DIR = 0
       THEN Photorec_Mkdir(dir_num + 1)
       ELSE UNCHANGED <<dirs, dir_num>>
    /\ UNCHANGED <<enable, config, left, saving, looks_For, unmoved, walk, stopped, available>>

\* The search space is exhausted, the destination is full, or the scan was stopped; file_stats
\* is freed.
Pass_Ends ==
    /\ Step("carve", "decide") \/ Step("end", "decide")
    /\ looks_For' = {}
    /\ UNCHANGED <<enable, disk, saving, found, unmoved, dir_num, file_nbr, walk, stopped, available>>

\* Nothing is classified after a stop; the files stay where they are until the next scan.
Decide ==
    /\ Step("decide", IF stopped THEN "none" ELSE "open_dir")
    /\ index' = 1
    /\ UNCHANGED <<enable, disk, saving, params, visit, stopped, available>>

\* The next recup directory is opened, or there is none and the classification ends.
Open_Directory ==
    /\ IF Recup(index) \in dirs
       THEN Step("open_dir", "move") /\ visit' = {f \in Names : <<Recup(index), f>> \in stored}
       ELSE Step("open_dir", "ready") /\ UNCHANGED visit
    /\ UNCHANGED <<enable, disk, saving, params, index, stopped, available>>

\* A file is moved to the directory of its extension, which is made for it.  MoveFile fails
\* when one of its name is there, and may fail otherwise; its result is not looked at.
Move_Files ==
    /\ Step("move", "move")
    /\ \E f \in visit :
          LET from == <<Recup(index), f>>
              to == <<Sorted(Extension[f]), f>>
          IN  /\ visit' = visit \ {f}
              /\ \/ /\ to \notin stored
                    /\ dirs' = dirs \cup {to[1]}
                    /\ stored' = (stored \ {from}) \cup {to}
                    /\ left' = IF from \in left THEN (left \ {from}) \cup {to} ELSE left
                    /\ UNCHANGED unmoved
                 \/ /\ dirs' \in {dirs, dirs \cup {to[1]}}
                    /\ unmoved' = IF from \in left THEN unmoved ELSE unmoved \cup {f}
                    /\ UNCHANGED <<stored, left>>
    /\ UNCHANGED <<enable, config, saving, looks_For, found, dir_num, file_nbr, index>>
    /\ UNCHANGED <<stopped, available>>

Bug_Directory_Done_Early ==
    /\ Step("move", "open_dir")
    /\ Delete_Diectory({Recup(index)})
    /\ index' = index + 1
    /\ UNCHANGED <<enable, config, saving, params, visit, stopped, available>>

\* The emptied recup directory goes, with anything that could not be moved.
Directory_Done ==
    /\ Step("move", "open_dir")
    /\ visit = {}
    /\ Delete_Diectory({Recup(index)})
    /\ index' = index + 1
    /\ UNCHANGED <<enable, config, saving, params, visit, stopped, available>>

Mark_Ready ==
    /\ Step("ready", "none")
    /\ available' = "LIST_READY"
    /\ index' = 1
    /\ UNCHANGED <<enable, disk, saving, params, visit, stopped>>

Deep_Scan_File_Classify == Open_Directory \/ Move_Files \/ Directory_Done

----------------------------------------------------------------------------

\* The process ends, wherever it was, and is started again.
Restart ==
    /\ enable' \in Applied
    /\ saving' = "none" /\ scanner' = "none" /\ stopped' = FALSE
    /\ looks_For' = {} /\ found' = {} /\ unmoved' = {} /\ dir_num' = 1 /\ file_nbr' = 0
    /\ index' = 1 /\ visit' = {}
    /\ available' = "LIST_NOT_READY"
    /\ left' = {}
    /\ UNCHANGED <<config, dirs, stored>>

Next ==
    \/ \E k \in Kinds, value \in BOOLEAN : Set_DeepScan_File_Extension(k, value)
    \/ Save_File_Extension_Support_List_Config
    \/ Deep_Scan_File_With_Param
    \/ Stop_Scan_Process
    \/ Deep_Scan_File_Clean
    \/ Params_Reset
    \/ Find_Offset
    \/ File_Found
    \/ Pass_Ends
    \/ Decide
    \/ Deep_Scan_File_Classify
    \/ Mark_Ready
    \/ Restart

Spec == Init /\ [][Next]_vars

----------------------------------------------------------------------------
(* Properties *)

TypeOK ==
    /\ enable \in [Kinds -> BOOLEAN]
    /\ config \in [state : {"missing", "empty", "written"}, digits : [Kinds -> BOOLEAN]]
    /\ saving \in {"none", "open", "write"}
    /\ dirs \subseteq Directories /\ stored \subseteq Directories \X Names
    /\ left \subseteq stored
    /\ scanner \in {"none", "clean", "mkdir", "find_offset", "carve", "end", "decide", "open_dir",
                    "move", "ready"}
    /\ looks_For \subseteq Kinds /\ found \subseteq Names /\ unmoved \subseteq Names
    /\ dir_num \in 1 .. MAX_DIR /\ file_nbr \in 0 .. Cardinality(Files)
    /\ index \in 1 .. MAX_DIR + 1
    /\ visit \subseteq Names
    /\ stopped \in BOOLEAN /\ available \in {"LIST_NOT_READY", "LIST_READY"}

\* When the deep scan's list is announced LIST_READY, the extension directories hold the files
\* the scan found, but for those that could not be moved, and besides these there are only files
\* that could not be deleted, whatever earlier scans, stops and crashes left
\* (scan_component.c:334-452, 484-511).
ReadyMeansSorted ==
    available = "LIST_READY" => Own = {<<Sorted(Extension[f]), f>> : f \in found \ unmoved}

\* From the first file found until the list is announced, a found file is lost only when its
\* move has failed: until then it is in one place, in a recup directory or sorted
\* (scan_component.c:398-452).
NothingLost ==
    scanner \in {"carve", "decide", "open_dir", "move", "ready"} =>
        \A f \in found \ unmoved : Cardinality({s \in Own : s[2] = f}) = 1

\* A classification that stops at the first missing number misses no directory with files of
\* its scan (photorec.c:268, scan_component.c:417-424).
RecupHasNoGap ==
    scanner \in {"open_dir", "move"} =>
        \A n \in RecupDirs : In(Recup(n)) \ left # {} => \A m \in index .. n : m \in RecupDirs

\* An extension that is enabled when its setting has been saved is still enabled after a
\* restart (common.c:763-821).
EnabledSurvives ==
    [][saving = "none" /\ saving' = "none" /\ config.state = "written"
       => \A k \in Kinds : config.digits[k] => enable'[k]]_enable

=============================================================================
