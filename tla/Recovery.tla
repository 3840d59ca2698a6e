------------------------------ MODULE Recovery ------------------------------
(***************************************************************************)
(* FileList and Undelete together: a recovery reads the volume that        *)
(* FileList keeps open, block by block, while other requests are served    *)
(* and a scan may be started (recovery_component.c:40-69).                 *)
(*                                                                         *)
(* One client recovers.  If it is careful it waits for the answer of a     *)
(* recovery before it starts a scan or sets the recovery path.             *)
(***************************************************************************)
EXTENDS FileList, Undelete

all_vars == <<vars, undelete_vars>>

RecoveryInit == Init /\ Idle

Recovering == step # "none"

\* The handler looks the number up and calls undelete_file.
Recover(n) ==
    /\ ~Recovering
    /\ Quick_Scan_Recovery_File(n)
    /\ IF crashed' = "no"
       THEN \E r \in Records, used \in SUBSET Clusters : Ask(r, used)
       ELSE UNCHANGED undelete_vars

\* undelete_file reads through the handle it was given.
Read_Volume ==
    /\ Recovering /\ crashed = "no"
    /\ IF handle.open
       THEN Undelete_File /\ UNCHANGED vars
       ELSE /\ crashed' = "recover"
            /\ UNCHANGED <<volume_Data, destination, file_Ctx, available, thread, recovered>>
            /\ UNCHANGED undelete_vars

RecoveryNext ==
    \/ /\ Scanner \/ Stop_Scan_Process \/ File_List_Serializer
       /\ UNCHANGED undelete_vars
    \/ /\ Careful => ~Recovering
       /\ Update_Quick_Scan_File_Path \/ \E v \in Volumes : Start_QuickScan_File(v)
       /\ UNCHANGED undelete_vars
    \/ \E n \in Slots : Recover(n)
    \/ Read_Volume
    \/ (Volume_Changes \/ Answer) /\ crashed = "no" /\ UNCHANGED vars

RecoverySpec == RecoveryInit /\ [][RecoveryNext]_all_vars

=============================================================================
