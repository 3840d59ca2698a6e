------------------------------ MODULE Undelete ------------------------------
(***************************************************************************)
(* The recovery of one lost file (testdisk_inject.c:54-151, 645-905).      *)
(*                                                                         *)
(* A quick scan lists a record of the MFT when calc_percentage gives more  *)
(* than 0.  Later, and on a volume that is in use, undelete_file reads the *)
(* record again and writes the blocks of each of its data streams to a     *)
(* file.  A block stands for its cluster, or for the zeros written in      *)
(* place of a hole or of a segment that is missing.  Every open, read and  *)
(* write may fail; a write that returns -1 goes unnoticed, since           *)
(* write_data hands it on as an unsigned number.                           *)
(***************************************************************************)
EXTENDS Integers, SequencesExt

CONSTANTS
    Records,    \* MFT records that have data: the sequences of their data streams
    Clusters,
    FULL        \* 100 percent

\* A run of a runlist: its clusters, or a 0 for each block of a hole or of a missing segment
Runs == [of : {"clusters", "hole", "missing"}, blocks : Seq(Clusters \cup {0})]

\* A data stream: its runlist (empty also for NULL), size_alloc in clusters, and whether
\* size_data is at most a cluster less.  "encrypted" also stands for compressed.
Streams == [kind : {"resident", "plain", "encrypted"}, runlist : Seq(Runs), alloc : Nat, fits : BOOLEAN]

ASSUME UndeleteAssumption ==
    /\ Clusters \subseteq Nat \ {0}
    /\ Records \subseteq Seq(Streams) \ {<<>>}
    /\ FULL \in Nat \ {0}

VARIABLES
    record,     \* the record the client asked for
    in_use,     \* MFT_RECORD_IN_USE is set in it by now
    bitmap,     \* the clusters in use by now
    step,       \* the next statement of undelete_file, or "none"
    percent,    \* data->percent of each stream
    item,       \* the stream that is being written
    done,       \* how many blocks of it the loops have been through
    written,    \* what is in the file that is open
    cluster_count,
    files,      \* the files written and closed, by stream: their blocks, and whether truncated
    unnoticed,  \* a write failed unnoticed
    failed,     \* an open, a read or a write failed and was noticed
    result      \* undelete_file's result; 1 until it has one

volume == <<record, in_use, bitmap>>
stream == <<item, done, written, cluster_count>>
undelete_vars == <<volume, step, percent, stream, files, unnoticed, failed, result>>

Idle ==
    /\ step = "none" /\ record = <<>> /\ in_use = FALSE /\ bitmap = {} /\ percent = <<>>
    /\ item = 1 /\ done = 0 /\ written = <<>> /\ cluster_count = 0
    /\ files = <<>> /\ unnoticed = FALSE /\ failed = FALSE /\ result = 1

----------------------------------------------------------------------------
(* calc_percentage *)

Blocks(runs) == FlattenSeq([i \in DOMAIN runs |-> runs[i].blocks])
Blocks_Of(runs, kind) ==
    FlattenSeq([i \in DOMAIN runs |-> IF runs[i].of = kind THEN runs[i].blocks ELSE <<>>])
Clusters_Of(runs) == ToSet(Blocks_Of(runs, "clusters"))
Missing(runs) == Len(Blocks_Of(runs, "missing"))

\* The share of the blocks that are free; a stream that is encrypted or compressed, or has no
\* runlist, has none.
Percent(s, used) ==
    LET clusters_inuse == Cardinality(Clusters_Of(s.runlist) \cap used) + Missing(s.runlist)
        all == Len(Blocks(s.runlist))
    IN  IF s.kind = "resident" THEN FULL
        ELSE IF s.kind = "encrypted" \/ all = 0 THEN 0
        ELSE ((all - clusters_inuse) * FULL) \div all

Calc_Percentage(r, used) == [i \in DOMAIN r |-> Percent(r[i], used)]

Recoverable(r, used) == \E i \in DOMAIN r : Percent(r[i], used) > 0

----------------------------------------------------------------------------
(* undelete_file *)

\* A file that Quick_Scan_File listed is asked for.
Ask(r, used) ==
    /\ step = "none"
    /\ Recoverable(r, used)
    /\ record' = r /\ bitmap' = used
    /\ step' = "read_record"
    /\ UNCHANGED <<in_use, percent, stream, files, unnoticed, failed, result>>

\* The system that owns the volume uses the record, or a cluster, for a new file.
Volume_Changes ==
    /\ step # "none"
    /\ \/ in_use' = TRUE /\ UNCHANGED bitmap
       \/ \E c \in Clusters \ bitmap : bitmap' = bitmap \cup {c} /\ UNCHANGED in_use
    /\ UNCHANGED <<record, step, percent, stream, files, unnoticed, failed, result>>

Fail == step' = "end" /\ result' = -2

Read_Record ==
    /\ step = "read_record"
    /\ \/ Fail /\ failed' = TRUE /\ UNCHANGED percent
       \/ /\ in_use \/ ~Recoverable(record, bitmap)
          /\ Fail
          /\ UNCHANGED <<percent, failed>>
       \/ /\ ~in_use /\ Recoverable(record, bitmap)
          /\ percent' = Calc_Percentage(record, bitmap)
          /\ step' = "stream"
          /\ UNCHANGED <<failed, result>>
    /\ UNCHANGED <<volume, stream, files, unnoticed>>

Current == record[item]

\* What the loops write: a missing segment at the beginning once before them and once in them;
\* in the loop every block is counted that is not of a hole.
Blocks_Of_Run(r, isCounted) ==
    [k \in DOMAIN r.blocks |-> [block |-> r.blocks[k], counted |-> isCounted]]
Beginning(s) ==
    IF Head(s.runlist).of = "missing" THEN Blocks_Of_Run(Head(s.runlist), FALSE) ELSE <<>>
To_Write(s) ==
    IF s.kind = "resident" THEN <<[block |-> 0, counted |-> FALSE]>>
    ELSE Beginning(s) \o FlattenSeq([i \in DOMAIN s.runlist |->
                                        Blocks_Of_Run(s.runlist[i], s.runlist[i].of # "hole")])

HasData(s) == s.kind = "resident" \/ s.runlist # <<>>

Bug_Next_Stream_Without_Data_Fails ==
    /\ step = "stream"
    /\ item <= Len(record) /\ ~HasData(Current)
    /\ Fail
    /\ UNCHANGED <<volume, percent, stream, files, unnoticed, failed>>

\* A stream without a runlist is passed over.
Next_Stream ==
    /\ step = "stream"
    /\ item <= Len(record) /\ ~HasData(Current)
    /\ item' = item + 1
    /\ UNCHANGED <<volume, step, percent, done, written, cluster_count, files, unnoticed, failed>>
    /\ UNCHANGED result

\* open_file, which truncates what is there
Open_File ==
    /\ step = "stream"
    /\ item <= Len(record) /\ HasData(Current)
    /\ \/ Fail /\ failed' = TRUE
       \/ step' = "write" /\ UNCHANGED <<failed, result>>
    /\ UNCHANGED <<volume, percent, stream, files, unnoticed>>

Bug_Write_Block_Short_Write_Ignored ==
    /\ step = "write"
    /\ done < Len(To_Write(Current))
    /\ LET next == To_Write(Current)[done + 1] IN
       /\ done' = done + 1
       /\ cluster_count' = cluster_count + (IF next.counted THEN 1 ELSE 0)
       /\ written' \in {written, Append(written, next.block)}
    /\ UNCHANGED <<volume, step, percent, item, files, unnoticed, failed, result>>

\* One turn of the loops: the block is read, whether it is in use or not, and written.
Write_Block ==
    /\ step = "write"
    /\ done < Len(To_Write(Current))
    /\ LET next == To_Write(Current)[done + 1] IN
       \/ /\ Fail /\ failed' = TRUE
          /\ UNCHANGED <<done, written, cluster_count, unnoticed>>
       \/ /\ done' = done + 1
          /\ cluster_count' = cluster_count + (IF next.counted THEN 1 ELSE 0)
          /\ \/ written' = Append(written, next.block) /\ UNCHANGED unnoticed
             \/ unnoticed' = TRUE /\ UNCHANGED written
          /\ UNCHANGED <<step, failed, result>>
    /\ UNCHANGED <<volume, percent, item, files>>

Bug_Truncated_Any_Percent(s) ==
    s.kind # "resident" /\ s.fits /\ cluster_count = s.alloc

Truncated(s) ==
    s.kind # "resident" /\ s.fits /\ percent[item] = FULL /\ cluster_count = s.alloc

\* Cut to size_data if the record is consistent, closed and dated.
Close_File ==
    /\ step = "write"
    /\ done = Len(To_Write(Current))
    /\ files' = [i \in DOMAIN files \cup {item} |->
                    IF i = item THEN [blocks |-> written, cut |-> Truncated(Current)] ELSE files[i]]
    /\ item' = item + 1 /\ done' = 0 /\ written' = <<>> /\ cluster_count' = 0
    /\ step' = "stream"
    /\ UNCHANGED <<volume, percent, unnoticed, failed, result>>

All_Streams_Done ==
    /\ step = "stream"
    /\ item > Len(record)
    /\ step' = "end" /\ result' = 0
    /\ UNCHANGED <<volume, percent, stream, files, unnoticed, failed>>

Undelete_File ==
    \/ Read_Record
    \/ Next_Stream
    \/ Open_File
    \/ Write_Block
    \/ Close_File
    \/ All_Streams_Done

\* The handler answers, and nothing of it is kept.
Answer ==
    /\ step = "end"
    /\ step' = "none" /\ record' = <<>> /\ in_use' = FALSE /\ bitmap' = {} /\ percent' = <<>>
    /\ item' = 1 /\ done' = 0 /\ written' = <<>> /\ cluster_count' = 0
    /\ files' = <<>> /\ unnoticed' = FALSE /\ failed' = FALSE /\ result' = 1

----------------------------------------------------------------------------
(* Properties *)

\* When success is answered, every stream that has data was written block by block: all that is
\* not zeros at the beginning is in its place, unless a write failed unnoticed
\* (testdisk_inject.c:733-904).
SuccessIsComplete ==
    result = 0 => \A i \in DOMAIN record :
        LET image == Blocks(record[i].runlist) IN
        HasData(record[i]) =>
            /\ i \in DOMAIN files
            /\ \/ unnoticed
               \/ record[i].kind = "resident"
               \/ IF record[i].runlist[1].of = "missing" THEN IsSuffix(image, files[i].blocks)
                  ELSE files[i].blocks = image

\* The recovery of a file that was listed fails only if something went wrong, or the volume has
\* changed since: the percentages of the list and of the recovery agree
\* (testdisk_inject.c:581, 705-720).
FailureHasCause == result = -2 => failed \/ in_use \/ ~Recoverable(record, bitmap)

\* A file is cut to size_data only if it is as long as the record says (testdisk_inject.c:877-886).
TruncationFits ==
    \A i \in DOMAIN files : files[i].cut /\ ~unnoticed => Len(files[i].blocks) = record[i].alloc

=============================================================================
