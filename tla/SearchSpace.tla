---------------------------- MODULE SearchSpace ----------------------------
(***************************************************************************)
(* The search of a deep scan (photorec_inject.c:14-335, photorec.c,        *)
(* filegen.c, pnext.h, phbs.c, photorec_check_header.h).                   *)
(*                                                                         *)
(* list_search_space is the list of the ranges that are still free.  The   *)
(* search walks it block by block: a block that looks like the start of a  *)
(* file opens one, later blocks are taken out of the list and appended to  *)
(* it, and when the file ends a prefix of it is kept and the rest is given *)
(* back.  After a file was kept the search goes back, to a file it gave up *)
(* before or to a header it passed over.                                   *)
(*                                                                         *)
(* The unit is the sector.  What a header_check, data_check or file_check  *)
(* says of the data is chosen freely, and so is the length that is kept.   *)
(* A stop and a failed write or fopen may come at every block.  The        *)
(* options are those of Option_Init (paranoid 1, no keep_corrupted_file,   *)
(* no lowmem, no ext2): STATUS_FIND_OFFSET, STATUS_EXT2_OFF, STATUS_QUIT.  *)
(***************************************************************************)
EXTENDS Integers, SequencesExt

CONSTANTS
    FIRST, LAST,    \* sectors of the partition
    CLUSTER,        \* sectors of a cluster of its file system
    MAX_BLOCKSIZE,  \* the largest block size find_blocksize tries (64 KB)
    MAX_HEADERS,    \* photorec_find_blocksize stops after so many (10)
    MAX_BACK,       \* ways back in a row by get_prev_file_header (5)
    FRAGMENTS,      \* ranges get_prev_file_header looks at (3) ..
    BACK_SIZE       \* .. and the sectors after which it stops (200 MB)

BlockSizes == {2 ^ n : n \in 0 .. MAX_BLOCKSIZE} \cap 1 .. MAX_BLOCKSIZE

ASSUME SearchSpaceAssumption ==
    /\ FIRST \in Nat \ {0} /\ LAST \in Nat /\ FIRST <= LAST
    /\ MAX_BLOCKSIZE \in Nat /\ {1, CLUSTER, MAX_BLOCKSIZE} \subseteq BlockSizes
    /\ MAX_HEADERS \in Nat /\ MAX_BACK \in Nat /\ FRAGMENTS \in Nat /\ BACK_SIZE \in Nat

VARIABLES
    ranges,     \* list_search_space: each with file_stat, whether a file was given up there
    current,    \* current_search_space: a place in ranges, or one after the last for its head
    offset,
    blocksize,  \* params->blocksize; 0 until it is known
    file,       \* file_recovery: whether file_stat is set, location.start, its sectors
    skipped,    \* offset_skipped_header
    recovered,  \* the files kept, each the set of its sectors
    outcome,    \* file_recovered and file_recovered_old
    back, offset_before_back,
    pc,
    universe,   \* history: the sectors of list_search_space when the walk began
    used,       \* history: the sectors in use, if the file system could be read
    on_blocks,  \* history: and if its clusters begin where blocks will
    seen        \* history: the sectors where a header was looked for

walk == <<file, skipped, recovered, outcome, back, offset_before_back>>
history == <<universe, used, on_blocks>>
vars == <<ranges, current, offset, blocksize, walk, pc, history, seen>>

Extent(start, end, file_stat) == [start |-> start, end |-> end, file_stat |-> file_stat]
SectorsOf(r) == r.start .. r.end
Space == UNION {SectorsOf(ranges[i]) : i \in DOMAIN ranges}
Place == [list |-> ranges, at |-> current]
AtHead == current = Len(ranges) + 1
StartOf(list, i) == IF i <= Len(list) THEN list[i].start ELSE 0

\* The numbers of S in ascending order.
In_Order(S) == [n \in 1 .. Cardinality(S) |-> CHOOSE s \in S : Cardinality({t \in S : t <= s}) = n]

\* The maximal runs of consecutive sectors of S, in order, not marked.
Runs(S) ==
    LET order == In_Order({s \in S : s - 1 \notin S})
        EndOf(s) == Max({e \in S : s <= e /\ s .. e \subseteq S})
    IN  [i \in DOMAIN order |-> Extent(order[i], EndOf(order[i]), FALSE)]

NoFile == [open |-> FALSE, start |-> 0, location |-> {}]

Init ==
    /\ ranges = <<Extent(FIRST, LAST, FALSE)>>
    /\ current = 1 /\ offset = 0 /\ blocksize = 0
    /\ file = NoFile /\ skipped = 0 /\ recovered = {}
    /\ outcome = [now |-> "BAD", old |-> "BAD"]
    /\ back = 0 /\ offset_before_back = 0
    /\ pc = "used" /\ universe = {} /\ used = {} /\ on_blocks = FALSE /\ seen = {}

----------------------------------------------------------------------------
(* Before the walk: the clusters in use are taken out, the block size is   *)
(* found, and the ranges are aligned to it                                 *)

\* The clusters of a file system whose first is at `heap`.
Clusters(heap) == {c \in heap .. LAST : (c - heap) % CLUSTER = 0 /\ c + CLUSTER - 1 <= LAST}
ClusterSectors(C) == UNION {c .. c + CLUSTER - 1 : c \in C}

\* BUG: the run of clusters in use that was still open at the end is not removed.
Bug_Removed_Last_Run_Kept(C, readable, until) ==
    LET runs == Runs(ClusterSectors({c \in C : readable \/ c < until}))
    IN  UNION {SectorsOf(runs[i]) : i \in 1 .. Len(runs) - 1}

\* remove_used_space: the runs of clusters in use leave the list, and the cluster size is the
\* block size.  When the file system cannot be read, or only up to some cluster, the runs
\* removed before that stay removed and the block size is left to be found.
Removed(C, readable, until) ==
    IF readable THEN ClusterSectors(C)
    ELSE LET runs == Runs(ClusterSectors({c \in C : c < until}))
         IN  UNION {SectorsOf(runs[i]) : i \in 1 .. Len(runs) - 1}

\* What lies before the clusters is taken out for FAT only.
Metadata(fs, heap) == IF fs = "fat" THEN FIRST .. heap - 1 ELSE {}

\* The first range will begin at a cluster, and the blocks with it.  NTFS has its first cluster
\* at the start of the partition, exFAT where its boot sector says.
On_Blocks(fs, heap) == fs = "fat" \/ (heap - FIRST) % CLUSTER = 0

\* Only NTFS may be read in part: when the boot sector of another cannot be read, nothing is
\* removed, and a sector of a FAT that cannot be read counts as free.
Remove_Used_Space ==
    /\ pc = "used"
    /\ \E fs \in {"ntfs", "fat", "exfat"}, heap \in FIRST .. LAST, readable \in BOOLEAN,
          until \in FIRST .. LAST : \E C \in SUBSET Clusters(heap) :
          /\ fs = "ntfs" => heap = FIRST
          /\ ~readable => fs = "ntfs"
          /\ used' = IF readable THEN ClusterSectors(C) \cup Metadata(fs, heap) ELSE {}
          /\ on_blocks' = (readable /\ On_Blocks(fs, heap))
          /\ ranges' = Runs((FIRST .. LAST) \ (Removed(C, readable, until) \cup Metadata(fs, heap)))
          /\ blocksize' = IF readable THEN CLUSTER ELSE 0
          /\ pc' = IF readable THEN "align" ELSE "find"
    /\ current' = 1 /\ offset' = StartOf(ranges', 1)
    /\ UNCHANGED <<walk, universe, seen>>

\* file_found: the range is cut where a header is.
File_Found ==
    LET r == ranges[current] IN
    IF r.start = offset
    THEN [list |-> [ranges EXCEPT ![current].file_stat = TRUE], at |-> current]
    ELSE [list |-> InsertAt([ranges EXCEPT ![current].end = offset - 1], current + 1,
                            Extent(offset, r.end, TRUE)),
          at |-> current + 1]

\* BUG: the last sector of a range is not stepped on (< for <=).
Bug_Next_Sector_Strict(L, o, size) ==
    IF o + size < L.list[L.at].end THEN [at |-> L.at, offset |-> o + size]
    ELSE [at |-> L.at + 1, offset |-> StartOf(L.list, L.at + 1)]

\* get_next_sector
Next_Sector(L, o, size) ==
    IF o + size <= L.list[L.at].end THEN [at |-> L.at, offset |-> o + size]
    ELSE [at |-> L.at + 1, offset |-> StartOf(L.list, L.at + 1)]

Headers(list) == {list[i].start : i \in {j \in DOMAIN list : list[j].file_stat}}

\* photorec_find_blocksize, with the sector as its block: one turn of its loop.
Photorec_Find_Blocksize ==
    /\ pc = "find"
    /\ IF AtHead \/ Cardinality(Headers(ranges)) >= MAX_HEADERS
       THEN pc' = "align" /\ UNCHANGED <<ranges, current, offset>>
       ELSE \E L \in {Place, File_Found} :
               LET next == Next_Sector(L, offset, 1)
               IN  /\ ranges' = L.list
                   /\ current' = next.at /\ offset' = next.offset
                   /\ UNCHANGED pc
    /\ UNCHANGED <<blocksize, walk, history, seen>>

\* find_blocksize: it is halved until all headers lie at the same distance from a block.  The
\* start of the first range counts as one until the first time.
Find_Blocksize ==
    LET headers == Headers(ranges)
        Agree(S, b) == \A s, t \in S : s % b = t % b
    IN  IF ranges = <<>> THEN 1
        ELSE IF Agree(headers \cup {ranges[1].start}, MAX_BLOCKSIZE) THEN MAX_BLOCKSIZE
        ELSE Max({b \in BlockSizes : b < MAX_BLOCKSIZE /\ Agree(headers, b)})

\* start_offset of Deep_Scan_File, modulo the block size
Start_Offset(size) ==
    LET headers == Headers(ranges) IN
    IF ranges = <<>> THEN 0
    ELSE IF blocksize > 0 \/ headers = {} THEN ranges[1].start % size
    ELSE Min(headers) % size

\* BUG: ends are left as they are.
Bug_Update_Blocksize_Starts_Only(list, size, distance) ==
    [i \in DOMAIN list |->
        [list[i] EXCEPT !.start = ((@ - distance + size - 1) \div size) * size + distance]]

\* update_blocksize: the end of the last range is rounded up.  A range that does not begin at a
\* block joins the one it touches, or begins at the next block.  Then ends are rounded down, and
\* what is left without a block is dropped.
Update_Blocksize(list, size, distance) ==
    LET Down(s) == ((s - distance) \div size) * size + distance
        Up(s) == Down(s + size - 1)
        final(i) == IF i = Len(list) THEN Up(list[i].end + 1) - 1 ELSE list[i].end
        AtBlock(i) == Up(list[i].start) = list[i].start
        leads(i) == AtBlock(i) \/ i = 1 \/ final(i - 1) + 1 # list[i].start
        last(i) == Min({j \in i .. Len(list) : j = Len(list) \/ leads(j + 1)})
        begin(i) == Up(list[i].start)
        end(i) == Down(final(last(i)) + 1) - 1
        first == In_Order({i \in DOMAIN list : leads(i) /\ begin(i) <= end(i)})
    IN  [n \in DOMAIN first |->
            Extent(begin(first[n]), end(first[n]), list[first[n]].file_stat /\ AtBlock(first[n]))]

\* The rest of STATUS_FIND_OFFSET, and set_search_start; a stop ends the scan here.
Align ==
    /\ pc = "align"
    /\ blocksize' = IF blocksize > 0 THEN blocksize ELSE Find_Blocksize
    /\ ranges' = Update_Blocksize(ranges, blocksize', Start_Offset(blocksize'))
    /\ universe' = UNION {SectorsOf(ranges'[i]) : i \in DOMAIN ranges'}
    /\ current' = 1 /\ offset' = StartOf(ranges', 1)
    /\ pc' \in {"stopped", IF ranges' = <<>> THEN "quit" ELSE "header"}
    /\ UNCHANGED <<walk, used, on_blocks, seen>>

----------------------------------------------------------------------------
(* Taking blocks out of the list, and giving them back *)

Containing(list, o) ==
    {i \in DOMAIN list : list[i].start <= o /\ o + blocksize <= list[i].end + 1}

\* file_block_remove_from_sp_aux, on the i-th range
Remove_From_Sp(i) ==
    LET r == ranges[i]
        next == offset + blocksize
        without == RemoveAt(ranges, i)
    IN  CASE r.start = offset /\ next <= r.end ->
                [list |-> [ranges EXCEPT ![i] = Extent(next, r.end, FALSE)],
                 at |-> current, offset |-> next]
          [] r.start = offset /\ next > r.end ->
                [list |-> without, at |-> i, offset |-> StartOf(without, i)]
          [] r.start # offset /\ next = r.end + 1 ->
                [list |-> [ranges EXCEPT ![i].end = offset - 1],
                 at |-> i + 1, offset |-> StartOf(ranges, i + 1)]
          [] OTHER ->
                [list |-> InsertAt([ranges EXCEPT ![i].end = offset - 1], i + 1,
                                   Extent(next, r.end, FALSE)),
                 at |-> i + 1, offset |-> next]

\* file_block_truncate_aux, and file_block_truncate_zero_aux when piece.file_stat is set: a
\* piece joins the free range after it, or (the former only) the one before it, or becomes a
\* range of its own before the first that lies behind it.
Give_Back(L, piece) ==
    LET Joins(r) == r.start = piece.end + 1 /\ ~r.file_stat
        Follows(r) == ~piece.file_stat /\ r.end + 1 = piece.start
        hits == {i \in DOMAIN L.list : LET r == L.list[i] IN
                     Joins(r) \/ Follows(r) \/ piece.end < r.start}
        i == Min(hits \cup {Len(L.list) + 1})
    IN  IF i <= Len(L.list) /\ Joins(L.list[i])
        THEN [L EXCEPT !.list[i] = Extent(piece.start, @.end, piece.file_stat)]
        ELSE IF i <= Len(L.list) /\ Follows(L.list[i])
        THEN [L EXCEPT !.list[i].end = piece.end]
        ELSE [list |-> InsertAt(L.list, i, piece), at |-> IF i <= L.at THEN L.at + 1 ELSE L.at]

\* Piece after piece.
Give_Back_All(L, pieces) ==
    LET after[n \in 0 .. Len(pieces)] == IF n = 0 THEN L ELSE Give_Back(after[n - 1], pieces[n])
    IN  after[Len(pieces)]

\* The first n sectors of S.
Prefix(S, n) == {s \in S : Cardinality({t \in S : t <= s}) <= n}

\* BUG: the rest of the fragment in which the kept file ends is not given back.
Bug_Not_Kept_Whole_Fragments(location, kept) ==
    SelectSeq(Runs(location), LAMBDA r : SectorsOf(r) \cap kept = {})

\* What file_block_truncate gives back, by fragments.
Not_Kept(location, kept) == Runs(location \ kept)

\* BUG: file_block_free without header_ignored_cond_reset.
Bug_Header_Ignored_Cond_Reset_Missing(passed, kept) == passed

\* header_ignored_cond_reset, for every fragment of what is kept
Header_Ignored_Cond_Reset(passed, kept) == IF passed \in kept THEN 0 ELSE passed

\* file_finish2, when file_check leaves a file of `keep` blocks: what is not kept is given back
\* by fragments, the first of them marked if nothing is kept.  TRUNCATED is the answer only
\* when a whole fragment was given back.  A header passed over in what was kept is forgotten.
File_Finish(f, L, passed, keep) ==
    LET kept == Prefix(f.location, keep * blocksize)
        lost == Not_Kept(f.location, kept)
        pieces == [i \in DOMAIN lost |-> [lost[i] EXCEPT !.file_stat = kept = {} /\ i = 1]]
        fragments == Runs(f.location)
        rest == Give_Back_All(L, pieces)
    IN  [list |-> rest.list, at |-> rest.at,
         recovered |-> IF kept = {} THEN recovered ELSE recovered \cup {kept},
         skipped |-> Header_Ignored_Cond_Reset(passed, kept),
         status |-> IF kept = {} THEN "BAD"
                    ELSE IF \E i \in DOMAIN fragments : SectorsOf(fragments[i]) \cap kept = {}
                    THEN "TRUNCATED" ELSE "OK"]

File_Finish2(f, L, passed) ==
    IF f.open
    THEN {File_Finish(f, L, passed, n) : n \in 0 .. Cardinality(f.location) \div blocksize}
    ELSE {[list |-> L.list, at |-> L.at, recovered |-> recovered, skipped |-> passed,
           status |-> "BAD"]}

Finished(f) ==
    /\ ranges' = f.list /\ current' = f.at
    /\ recovered' = f.recovered

\* reset_file_recovery leaves location.start as it is.
Reset_File_Recovery(f) == [f EXCEPT !.open = FALSE, !.location = {}]

----------------------------------------------------------------------------
(* The walk: one turn of photorec_aux's loop is "header", "data", perhaps  *)
(* "move", and "turn"                                                      *)

Header_Ignored(o) == IF o < skipped \/ skipped = 0 THEN o ELSE skipped

\* photorec_header_found: the open file is finished; when that gives a fragment back, the
\* header is left for later.  The new file may not be created (PSTATUS_EACCES).
Photorec_Header_Found(passed) ==
    \E f \in File_Finish2(file, Place, passed) :
        /\ Finished(f)
        /\ skipped' = f.skipped
        /\ outcome' = [outcome EXCEPT !.now = f.status]
        /\ \/ /\ f.status = "TRUNCATED"
              /\ file' = Reset_File_Recovery(file) /\ pc' = "data"
           \/ /\ f.status # "TRUNCATED"
              /\ file' = [open |-> TRUE, start |-> offset, location |-> {}]
              /\ pc' \in {"data", "abort"}

\* A header_check of the kind of the open file may pass a header over (header_ignored).
Photorec_Check_Header ==
    /\ pc = "header"
    /\ \E passed \in {skipped, Header_Ignored(offset)} :
          /\ file.open \/ passed = skipped
          /\ \/ /\ skipped' = passed /\ pc' = "data"
                /\ UNCHANGED <<ranges, current, file, recovered, outcome>>
             \/ Photorec_Header_Found(passed)
    /\ seen' = seen \cup {offset}
    /\ UNCHANGED <<offset, blocksize, back, offset_before_back, history>>

\* The block goes into the open file, unless the disk is full (PSTATUS_ENOSPC).  data_check
\* goes on, or ends the file.  A stop is noticed after that.
Take_Block ==
    LET places == Containing(ranges, offset)
        i == IF current \in places THEN current ELSE Min(places)
        taken == Remove_From_Sp(i)
        longer == [file EXCEPT !.location = @ \cup offset .. offset + blocksize - 1]
    IN  IF places = {}
        THEN /\ pc' = "exit"  \* "file_block_remove_from_sp failed", exit(1)
             /\ UNCHANGED <<ranges, current, offset, file, skipped, recovered, outcome>>
        ELSE
        /\ offset' = taken.offset
        /\ \/ /\ ranges' = taken.list /\ current' = taken.at
              /\ file' = longer
              /\ pc' \in {"turn", "abort"}
              /\ UNCHANGED <<skipped, recovered, outcome>>
           \/ \E f \in File_Finish2(longer, [list |-> taken.list, at |-> taken.at], skipped) :
                 /\ Finished(f)
                 /\ skipped' = f.skipped
                 /\ outcome' = [outcome EXCEPT !.now = f.status]
                 /\ file' = Reset_File_Recovery(file)
                 /\ pc' \in {"abort", IF f.status = "TRUNCATED" THEN "move" ELSE "turn"}

Photorec_Data ==
    /\ pc = "data"
    /\ \/ /\ ~file.open
          /\ pc' \in {"move", "abort"}
          /\ UNCHANGED <<ranges, current, offset, file, skipped, recovered, outcome>>
       \/ /\ file.open
          /\ pc' = "abort"
          /\ UNCHANGED <<ranges, current, offset, file, skipped, recovered, outcome>>
       \/ file.open /\ Take_Block
    /\ UNCHANGED <<blocksize, back, offset_before_back, history, seen>>

\* get_prev_file_header: a file given up in one of the FRAGMENTS ranges before this one.
Prev_File_Headers ==
    {i \in DOMAIN ranges :
        /\ i < current /\ current - i <= FRAGMENTS
        /\ Cardinality(UNION {SectorsOf(ranges[j]) : j \in i + 1 .. current - 1}) < BACK_SIZE
        /\ ranges[i].file_stat}

\* get_prev_location_smart, in its two loops: the header passed over is looked for in the
\* ranges before this one, down to the start of the last file; then from there on (or from the
\* end) in the first range that begins before it, which need not contain it.
Prev_Location_Smart(L, passed, prev_location) ==
    LET list == L.list
        Below(i, S) == Max({0} \cup {j \in S : j <= i})
        holding == {j \in DOMAIN list : passed \in SectorsOf(list[j])}
        before == {j \in DOMAIN list : list[j].start < prev_location}
        j == Below(L.at - 1, holding \cup before)
        from == IF j = 0 THEN Len(list) ELSE j - 1
        k == Below(from, {n \in DOMAIN list : list[n].start < passed})
    IN  CASE passed = 0 -> [at |-> L.at, offset |-> offset]
          [] passed # 0 /\ j \in holding -> [at |-> j, offset |-> passed]
          [] passed # 0 /\ j \notin holding /\ from = 0 -> [at |-> L.at, offset |-> offset]
          [] passed # 0 /\ j \notin holding /\ from > 0 /\ k = 0 ->
                [at |-> 1, offset |-> StartOf(list, 1)]
          [] OTHER -> [at |-> k, offset |-> passed]

\* BUG: one way back too many (<= for <).
Bug_Go_Back_Once_More ==
    /\ offset_before_back' = offset
    /\ IF back <= MAX_BACK /\ Prev_File_Headers # {}
       THEN /\ current' = Max(Prev_File_Headers)
            /\ offset' = ranges[current'].start
            /\ back' = back + 1
            /\ UNCHANGED skipped
       ELSE LET to == Prev_Location_Smart(Place, skipped, file.start)
            IN  /\ current' = to.at /\ offset' = to.offset
                /\ back' = 0
                /\ skipped' = 0

\* After a file was kept, the search goes back.
Go_Back ==
    /\ offset_before_back' = offset
    /\ IF back < MAX_BACK /\ Prev_File_Headers # {}
       THEN /\ current' = Max(Prev_File_Headers)
            /\ offset' = ranges[current'].start
            /\ back' = back + 1
            /\ UNCHANGED skipped
       ELSE LET to == Prev_Location_Smart(Place, skipped, file.start)
            IN  /\ current' = to.at /\ offset' = to.offset
                /\ back' = 0
                /\ skipped' = 0

Go_On ==
    LET next == IF AtHead THEN [at |-> current, offset |-> offset]
                ELSE Next_Sector(Place, offset, blocksize)
    IN  /\ current' = next.at /\ offset' = next.offset
        /\ back' = IF offset' > offset_before_back THEN 0 ELSE back
        /\ UNCHANGED <<skipped, offset_before_back>>

Move ==
    /\ pc = "move"
    /\ IF outcome.now = "TRUNCATED" \/ outcome.old = "OK" THEN Go_Back ELSE Go_On
    /\ pc' = "turn"
    /\ UNCHANGED <<ranges, blocksize, file, recovered, outcome, history, seen>>

\* BUG: file_recovered keeps its value from one turn to the next.
Bug_Turn_Outcome_Kept ==
    /\ pc = "turn"
    /\ \/ /\ ~AtHead
          /\ outcome' = [outcome EXCEPT !.old = outcome.now]
          /\ pc' = "header"
          /\ UNCHANGED <<ranges, current, offset, file, skipped, recovered>>
       \/ /\ AtHead /\ pc' = "quit"
          /\ UNCHANGED <<ranges, current, offset, file, skipped, recovered, outcome>>
    /\ UNCHANGED <<blocksize, back, offset_before_back, history, seen>>

\* The end of the loop's body.  At the end of the list the open file ends too, and if it is
\* kept the search may go back once more.
Turn ==
    /\ pc = "turn"
    /\ \/ /\ ~AtHead
          /\ outcome' = [now |-> "BAD", old |-> outcome.now]
          /\ pc' = "header"
          /\ UNCHANGED <<ranges, current, offset, file, skipped, recovered>>
       \/ /\ AtHead
          /\ \E f \in File_Finish2(file, Place, skipped) :
                LET to == IF f.status = "BAD" THEN [at |-> f.at, offset |-> offset]
                          ELSE Prev_Location_Smart(f, f.skipped, file.start)
                IN  /\ ranges' = f.list /\ recovered' = f.recovered
                    /\ current' = to.at /\ offset' = to.offset
                    /\ skipped' = IF f.status = "BAD" THEN f.skipped ELSE 0
                    /\ outcome' = [now |-> "BAD", old |-> f.status]
                    /\ pc' = IF to.at = Len(f.list) + 1 THEN "quit" ELSE "header"
          /\ file' = Reset_File_Recovery(file)
    /\ UNCHANGED <<blocksize, back, offset_before_back, history, seen>>

\* BUG: the sectors of the file are not given back.
Bug_Abort_Sectors_Lost ==
    /\ pc = "abort"
    /\ file' = Reset_File_Recovery(file)
    /\ pc' = "stopped"
    /\ UNCHANGED <<ranges, current, offset, blocksize, skipped, recovered, outcome, back,
                   offset_before_back, history, seen>>

\* file_recovery_aborted: the open file is unlinked and its sectors given back.
Abort ==
    /\ pc = "abort"
    /\ LET f == File_Finish(file, Place, skipped, 0)
       IN  IF file.open THEN ranges' = f.list /\ current' = f.at ELSE UNCHANGED <<ranges, current>>
    /\ file' = Reset_File_Recovery(file)
    /\ pc' = "stopped"
    /\ UNCHANGED <<offset, blocksize, skipped, recovered, outcome, back, offset_before_back, history, seen>>

Photorec_Aux ==
    \/ Photorec_Check_Header
    \/ Photorec_Data
    \/ Move
    \/ Turn
    \/ Abort

Next == Remove_Used_Space \/ Photorec_Find_Blocksize \/ Align \/ Photorec_Aux

Spec == Init /\ [][Next]_vars

\* The scanner thread runs until the search has ended.  Next is enabled until then, so this is
\* WF_vars(Next), in the form TLC evaluates fastest.
Ended == pc \in {"stopped", "quit", "exit"}
FairSpec == Spec /\ ([]<>Ended \/ []<><<TRUE>>_vars)

----------------------------------------------------------------------------
(* Properties *)

Walking == pc \in {"header", "data", "move", "turn", "abort", "exit", "stopped", "quit"}

TypeOK ==
    /\ \A i \in DOMAIN ranges : /\ ranges[i].start \in Nat /\ ranges[i].end \in Nat
                                /\ ranges[i].file_stat \in BOOLEAN
    /\ current \in 1 .. Len(ranges) + 1
    /\ offset \in Nat /\ skipped \in Nat /\ file.start \in Nat
    /\ blocksize \in BlockSizes \cup {0}
    /\ back \in 0 .. MAX_BACK
    /\ outcome \in [now : {"BAD", "OK", "TRUNCATED"}, old : {"BAD", "OK", "TRUNCATED"}]

\* The list stays a list of whole blocks in ascending order, whatever was taken out and given
\* back; all walking, merging and going back relies on it (pnext.h, photorec.c:495-541).
RangesInOrder ==
    /\ \A i \in DOMAIN ranges : ranges[i].start <= ranges[i].end
    /\ \A i \in DOMAIN ranges : i > 1 => ranges[i - 1].end < ranges[i].start
    /\ Walking => \A i \in DOMAIN ranges :
                     /\ (ranges[i].start - Min(universe)) % blocksize = 0
                     /\ (ranges[i].end + 1 - ranges[i].start) % blocksize = 0

\* A sector is free, in the open file or in one file that was kept, and in only one of these
\* (photorec.c:949-1188).
EverySectorOnce ==
    Walking =>
        /\ Space \cup file.location \cup UNION recovered = universe
        /\ Space \cap file.location = {}
        /\ (Space \cup file.location) \cap UNION recovered = {}
        /\ \A f, g \in recovered : f = g \/ f \cap g = {}

\* The block the walk stands on is always found in the list when it is taken: the exit(1) of
\* file_block_remove_from_sp is never reached (photorec.c:1029-1031).
NeverGivesUp == pc # "exit"

\* When the clusters in use could be read, no file is carved from one, provided that the blocks
\* begin at clusters: the round-up of the last range takes nothing back (common.c:726-737,
\* photorec.c:495, 505).  In an exFAT volume whose first cluster is not a multiple of the cluster
\* size from the start of the partition it may (exfatp.c:97-121).
InUseIsLeftAlone == on_blocks => used \cap UNION recovered = {}

\* A search that was not stopped has looked at every block for a header
\* (photorec_inject.c:56-238).
NothingUnseen ==
    pc = "quit" => \A s \in universe : (s - Min(universe)) % blocksize = 0 => s \in seen

\* The search ends, whatever it finds: each way back is paid for by a file
\* (photorec_inject.c:62-238).
SearchEnds == <>(pc \in {"stopped", "quit"})

\* The search carves files out of the free space, and out of nothing else: a sector leaves what
\* is still searched only with a file that is kept, and for good (photorec.c:560-722).
Abstract == INSTANCE Carving WITH
    Sectors <- FIRST .. LAST + MAX_BLOCKSIZE,
    started <- Walking, free <- Space \cup file.location, files <- recovered
ImplementsCarving == Abstract!Spec

=============================================================================
