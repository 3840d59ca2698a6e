---------------------------- MODULE ScanControl ----------------------------
(***************************************************************************)
(* The life of a scan (handler_component/scan_component.c:454-594).        *)
(*                                                                         *)
(* A request handler starts a scan by creating a detached thread, and      *)
(* stops it by raising a flag the thread polls.  Handler and threads share *)
(* info_Ctx (status, control, percent, list availability) and              *)
(* scan_Object_Ctx (the disk and partition to scan) with no lock, so each  *)
(* of their statements is a step of its own here.                          *)
(*                                                                         *)
(* One connection is served, by one civetweb worker: its requests are      *)
(* handled one after the other.  Several workers sharing the request       *)
(* context are the subject of RequestServer.  The disk and partition lists *)
(* are taken as stable (DiskCatalog rebuilds them): a pair of numbers      *)
(* resolves to a Volume or to NULL.                                        *)
(*                                                                         *)
(* A definition named Bug_X is X with a plausible mistake.  Nothing uses   *)
(* it; substituted for X it must break a property.                         *)
(***************************************************************************)
EXTENDS Integers

CONSTANTS
    Threads,    \* slots for live scanner threads: pthread_create fails when all are taken
    Volumes,    \* partitions the disk list knows
    NTFS,       \* those that Check_Partition_Type accepts
    NULL,       \* the null pointer
    Blocks,     \* search blocks of a deep scan
    MaxBack,    \* bound: times one deep scan steps back in its search space
    Patience    \* how the client paces its scan requests, see MayStart and MayStop

ASSUME VolumesAssumption == NTFS \subseteq Volumes /\ NULL \notin Volumes
ASSUME BlocksAssumption == Blocks \in Nat \ {0} /\ MaxBack \in Nat
ASSUME PatienceAssumption == Patience \in {"eager", "observant", "patient"}

VARIABLES
    status,       \* info_Ctx->status
    available,    \* info_Ctx->quick_Scan_File_List and deep_Scan_File_List
    control,      \* process_Ctx->control
    percent,      \* process_Ctx->percent
    percent_cmp,  \* Set_Percent's static variable, the percentage it compares with
    call,         \* how far each scanner thread is in its call of Set_Percent
    scan_Object,  \* scan_Object_Ctx
    found,        \* testdisk_File_Ctx->list: the volume whose files it holds
    listing,      \* what file_Ctx->info and .\tmp\deep hold, by kind of scan
    pc,           \* the next statement of each scanner thread
    job,          \* what each scanner thread works on, and how far a deep scan is
    handler,      \* the next statement of the request handler
    request,      \* the request in service
    crashed       \* a NULL pointer was dereferenced: the process is gone

progress == <<percent, percent_cmp, call>>
shared == <<status, available, control, progress>>
contents == <<found, listing>>
vars == <<shared, scan_Object, contents, pc, job, handler, request, crashed>>

Kinds == {"QUICK", "DEEP"}
Statuses == {"IDLE", "QUICK_SCANNING", "DEEP_SCANNING"}
Busy == [QUICK |-> "QUICK_SCANNING", DEEP |-> "DEEP_SCANNING"]
VolumeOrNull == Volumes \cup {NULL}
ScanObjects == [disk : VolumeOrNull, partition : VolumeOrNull]
NoObject == [disk |-> NULL, partition |-> NULL]

\* What a pair of disk and partition numbers resolves to: both, the disk only, or nothing.
Targets == {[disk |-> v, partition |-> v] : v \in Volumes}
             \cup {[disk |-> v, partition |-> NULL] : v \in Volumes}
             \cup {NoObject}

Requests == [op : Kinds \cup {"STOP"}, target : Targets]
NoRequest == [op |-> "STOP", target |-> NoObject]

Jobs == [kind : Kinds, requested : ScanObjects, target : ScanObjects,
         block : 0 .. Blocks, back : 0 .. MaxBack,
         \* history: a stop was accepted before the last look at control, and if so whether
         \* before ("early") or after ("late") the thread cleared the stop flag
         stopped : {"no", "early", "late"}]
NoJob == [kind |-> "QUICK", requested |-> NoObject, target |-> NoObject,
          block |-> 0, back |-> 0, stopped |-> "no"]

Calls == [at : {"none", "compare", "write_cmp", "write"}, p : 0 .. 100]
NoCall == [at |-> "none", p |-> 0]

----------------------------------------------------------------------------
(* Where a scanner thread is: the statement it executes next.  Both scan   *)
(* functions have the same statements in the same order.                   *)

Starting == {"created", "mark_busy"}                     \* before Set_Status(..SCANNING)
Preparing == {"mark_unready", "allow"}                   \* before Set_Control(SCAN_CONTINUE)
Working == {"open", "mount", "search", "turn", "half", "decide"} \* up to the last look at control
Aborting == {"abort_percent", "abort_idle", "abort_list"}
Publishing == {"publish", "full", "idle", "ready"}
ThreadStates == {"free"} \cup Starting \cup Preparing \cup Working \cup Aborting \cup Publishing

Live(t) == pc[t] # "free"
\* The thread has set status and has not given it back.
Owns(t) == pc[t] \in Preparing \cup Working \cup {"abort_percent", "abort_idle"}
                       \cup {"publish", "full", "idle"}
\* The thread is between its first and last write to the shared context.
Running(t) == Live(t) /\ pc[t] \notin Starting

----------------------------------------------------------------------------
(* common.c: the accessors of the shared context *)

Set_Status(s) == status' = s
Set_Control(c) == control' = c
Set_List_Available(k, a) == available' = [available EXCEPT ![k] = a]

\* The call begins; the thread's own statements wait until it returns.
Set_Percent(t, p) ==
    /\ call' = [call EXCEPT ![t] = [at |-> "compare", p |-> p]]
    /\ UNCHANGED <<percent, percent_cmp>>

Info_Context_Reset ==
    /\ status = "IDLE"
    /\ control = "SCAN_CONTINUE"
    /\ available = [k \in Kinds |-> "LIST_NOT_READY"]
    /\ percent = 0 /\ percent_cmp = 0

Init ==
    /\ Info_Context_Reset
    /\ scan_Object = NoObject
    /\ found = NULL
    /\ listing = [k \in Kinds |-> NULL]
    /\ pc = [t \in Threads |-> "free"]
    /\ job = [t \in Threads |-> NoJob]
    /\ call = [t \in Threads |-> NoCall]
    /\ handler = "receive"
    /\ request = NoRequest
    /\ crashed = FALSE

----------------------------------------------------------------------------
(* The request handler *)

\* eager:     the client sends what it likes when it likes.
\* observant: after "Scan Started" it polls `info` until the status shows the scan, and only
\*            then asks for another; it may ask while the service is busy.
\* patient:   it starts a scan only after the last thread has ended, and stops one only
\*            after that scan has cleared the stop flag.
MayStart ==
    /\ Patience = "observant" => \A t \in Threads : pc[t] \notin Starting
    /\ Patience = "patient" => \A t \in Threads : ~Live(t)

MayStop ==
    Patience = "patient" => \A t \in Threads : pc[t] \notin Starting \cup Preparing

Handle(from, to) == ~crashed /\ handler = from /\ handler' = to
ThreadsUnchanged == UNCHANGED <<pc, job, contents>>

\* A `set scan` request arrives and Scan_Handler dispatches it.
Scan_Handler ==
    \E r \in Requests :
        /\ IF r.op = "STOP" THEN MayStop ELSE MayStart
        /\ r.op = "STOP" => r.target = NoObject
        /\ request' = r
        /\ Handle("receive", IF r.op = "STOP" THEN "stop" ELSE "set_disk")
        /\ ThreadsUnchanged
        /\ UNCHANGED <<shared, scan_Object, crashed>>

Set_Scan_Disk ==
    /\ Handle("set_disk", "set_partition")
    /\ scan_Object' = [scan_Object EXCEPT !.disk = request.target.disk]
    /\ ThreadsUnchanged
    /\ UNCHANGED <<shared, request, crashed>>

Bug_Accepted_Any_Partition ==
    request.op = "QUICK" => request.target.partition \in NTFS \cup {NULL}

\* A deep scan takes any partition that resolves, a quick scan only an NTFS one.
Accepted == /\ request.target.partition # NULL
            /\ request.op = "QUICK" => request.target.partition \in NTFS

Bug_Set_Scan_Partition_Once ==
    /\ Handle("set_partition", IF Accepted THEN "check_busy" ELSE "receive")
    /\ scan_Object' = IF scan_Object.partition # NULL THEN scan_Object
                      ELSE [scan_Object EXCEPT !.partition = request.target.partition]
    /\ request' = IF Accepted THEN request ELSE NoRequest
    /\ ThreadsUnchanged
    /\ UNCHANGED <<shared, crashed>>

\* The checks that follow read what this handler has just written; nothing restores the
\* previous object when one of them refuses the request.
Set_Scan_Partition ==
    /\ Handle("set_partition", IF Accepted THEN "check_busy" ELSE "receive")
    /\ scan_Object' = [scan_Object EXCEPT !.partition = request.target.partition]
    /\ request' = IF Accepted THEN request ELSE NoRequest
    /\ ThreadsUnchanged
    /\ UNCHANGED <<shared, crashed>>

\* if (IDLE != Get_Status()): the scan is refused or the thread is about to be created.
Check_Busy ==
    /\ Handle("check_busy", IF status = "IDLE" THEN "create" ELSE "receive")
    /\ request' = IF status = "IDLE" THEN request ELSE NoRequest
    /\ ThreadsUnchanged
    /\ UNCHANGED <<shared, scan_Object, crashed>>

Create_Thread(t) ==
    /\ ~Live(t)
    /\ Handle("create", "receive")
    /\ pc' = [pc EXCEPT ![t] = "created"]
    /\ job' = [job EXCEPT ![t] = [NoJob EXCEPT !.kind = request.op,
                                               !.requested = request.target]]
    /\ request' = NoRequest
    /\ UNCHANGED <<shared, scan_Object, contents, crashed>>

\* pthread_create fails: always when no slot is left, and possibly otherwise.
Create_Fails ==
    /\ Handle("create", "receive")
    /\ request' = NoRequest
    /\ ThreadsUnchanged
    /\ UNCHANGED <<shared, scan_Object, crashed>>

Stop_Scan_Process ==
    /\ Handle("stop", IF status # "IDLE" THEN "set_stop" ELSE "receive")
    /\ ThreadsUnchanged
    /\ UNCHANGED <<shared, scan_Object, request, crashed>>

\* The answer is "Scan Process Stopped".
Accept_Stop ==
    /\ Handle("set_stop", "receive")
    /\ Set_Control("SCAN_STOP")
    /\ job' = [t \in Threads |->
                 IF pc[t] \in Working THEN [job[t] EXCEPT !.stopped = "late"]
                 ELSE IF pc[t] \in Preparing THEN [job[t] EXCEPT !.stopped = "early"]
                 ELSE job[t]]
    /\ UNCHANGED <<status, available, progress, pc, contents, scan_Object, request, crashed>>

HandlerStep ==
    \/ Set_Scan_Disk
    \/ Set_Scan_Partition
    \/ Check_Busy
    \/ \E t \in Threads : Create_Thread(t)
    \/ Create_Fails
    \/ Stop_Scan_Process
    \/ Accept_Stop

----------------------------------------------------------------------------
(* The scanner threads: Quick_Scan_File_With_Param and                     *)
(* Deep_Scan_File_With_Param, one statement at a time                      *)

Goto(t, from, to) ==
    ~crashed /\ call[t] = NoCall /\ pc[t] = from /\ pc' = [pc EXCEPT ![t] = to]
HandlerUnchanged == UNCHANGED <<handler, request, scan_Object>>

Bug_Compare_Percent_Missing(t) ==
    /\ call[t].at = "compare"
    /\ call' = [call EXCEPT ![t].at = "write_cmp"]
    /\ UNCHANGED <<percent, percent_cmp>>

\* Set_Percent: if (percent > percent_cmp), else if (0.0 == percent).
Compare_Percent(t) ==
    /\ call[t].at = "compare"
    /\ call' = IF call[t].p > percent_cmp \/ call[t].p = 0
               THEN [call EXCEPT ![t].at = "write_cmp"]
               ELSE [call EXCEPT ![t] = NoCall]
    /\ UNCHANGED <<percent, percent_cmp>>

Write_Percent_Cmp(t) ==
    /\ call[t].at = "write_cmp"
    /\ percent_cmp' = call[t].p
    /\ call' = [call EXCEPT ![t].at = "write"]
    /\ UNCHANGED percent

Bug_Write_Percent_Adds(t) ==
    /\ call[t].at = "write"
    /\ percent' = percent + call[t].p
    /\ call' = [call EXCEPT ![t] = NoCall]
    /\ UNCHANGED percent_cmp

Write_Percent(t) ==
    /\ call[t].at = "write"
    /\ percent' = call[t].p
    /\ call' = [call EXCEPT ![t] = NoCall]
    /\ UNCHANGED percent_cmp

\* One shared access of a call of Set_Percent.
Percent_Step(t) ==
    /\ ~crashed
    /\ Compare_Percent(t) \/ Write_Percent_Cmp(t) \/ Write_Percent(t)
    /\ UNCHANGED <<status, available, control, contents, pc, job, crashed>>
    /\ HandlerUnchanged

\* Set_Percent(0.0), at :456 and :485, and on the early exits at :467 and :499.
Reset_Percent(t) ==
    /\ Goto(t, "created", "mark_busy") \/ Goto(t, "abort_percent", "abort_idle")
    /\ Set_Percent(t, 0)
    /\ UNCHANGED <<status, available, control, job, contents, crashed>>
    /\ HandlerUnchanged

\* :457, :486
Mark_Busy(t) ==
    /\ Goto(t, "mark_busy", "mark_unready")
    /\ Set_Status(Busy[job[t].kind])
    /\ UNCHANGED <<available, control, progress, job, contents, crashed>>
    /\ HandlerUnchanged

Bug_Mark_Unready_Missing(t) ==
    /\ Goto(t, "mark_unready", "allow")
    /\ UNCHANGED <<shared, job, contents, crashed>>
    /\ HandlerUnchanged

\* :458, :487
Mark_Unready(t) ==
    /\ Goto(t, "mark_unready", "allow")
    /\ Set_List_Available(job[t].kind, "LIST_NOT_READY")
    /\ UNCHANGED <<status, control, progress, job, contents, crashed>>
    /\ HandlerUnchanged

\* :459, :488
Allow(t) ==
    /\ Goto(t, "allow", "open")
    /\ Set_Control("SCAN_CONTINUE")
    /\ UNCHANGED <<status, available, progress, job, contents, crashed>>
    /\ HandlerUnchanged

\* The next statement needs a pointer of scan_Object_Ctx that is NULL: the partition in
\* Check_Partiton_Need_Redir, either in dir_partition_ntfs_init and in Param_Init.
Meets_Null(t) ==
    \/ pc[t] = "open" /\ scan_Object.partition = NULL
    \/ pc[t] = "open" /\ job[t].kind = "DEEP" /\ scan_Object.disk = NULL
    \/ pc[t] = "mount" /\ NULL \in {scan_Object.disk, scan_Object.partition}

Null_Dereference(t) ==
    /\ Meets_Null(t)
    /\ ~crashed /\ call[t] = NoCall
    /\ crashed' = TRUE
    /\ UNCHANGED <<shared, contents, pc, job>>
    /\ HandlerUnchanged

\* Check_Partiton_Need_Redir looks at the partition again: another request may have
\* replaced it by one that is not NTFS.
Check_Partition(t) ==
    /\ job[t].kind = "QUICK"
    /\ scan_Object.partition # NULL
    /\ Goto(t, "open", IF scan_Object.partition \in NTFS THEN "mount" ELSE "half")
    /\ UNCHANGED <<shared, contents, job, crashed>>
    /\ HandlerUnchanged

\* Read_Partition_Data up to its switch: the file list is emptied and the volume opened, or
\* found damaged or not NTFS.  The caller ignores which.
Read_Partition_Data(t) ==
    /\ NULL \notin {scan_Object.disk, scan_Object.partition}
    /\ \/ /\ Goto(t, "mount", "search")
          /\ scan_Object.partition \in NTFS
          /\ job' = [job EXCEPT ![t].target = scan_Object]
       \/ /\ Goto(t, "mount", "half")
          /\ UNCHANGED job
    /\ found' = NULL
    /\ UNCHANGED <<shared, listing, crashed>>
    /\ HandlerUnchanged

Quick_Scan_File(t) ==
    /\ job[t].kind = "QUICK"
    /\ Goto(t, "search", "half")
    /\ found' = job[t].target.partition
    /\ UNCHANGED <<shared, listing, job, crashed>>
    /\ HandlerUnchanged

\* :462
Half_Way(t) ==
    /\ Goto(t, "half", "decide")
    /\ Set_Percent(t, 50)
    /\ UNCHANGED <<status, available, control, job, contents, crashed>>
    /\ HandlerUnchanged

\* Photorec_Context_Init copies the scan object, Deep_Scan_File_Clean empties .\tmp\deep.
Photorec_Context_Init(t) ==
    /\ job[t].kind = "DEEP"
    /\ NULL \notin {scan_Object.disk, scan_Object.partition}
    /\ Goto(t, "open", "search")
    /\ job' = [job EXCEPT ![t].target = scan_Object]
    /\ listing' = [listing EXCEPT !["DEEP"] = NULL]
    /\ UNCHANGED <<shared, found, crashed>>
    /\ HandlerUnchanged

\* The statements that use the scan object's pointers.
Use_Scan_Object(t) ==
    IF Meets_Null(t)
    THEN Null_Dereference(t)
    ELSE Check_Partition(t) \/ Read_Partition_Data(t) \/ Photorec_Context_Init(t)

\* The top of photorec_aux's loop: the percentage follows the offset.
Deep_Scan_Turn(t) ==
    LET at == job[t].block IN
    /\ job[t].kind = "DEEP" /\ at < Blocks
    /\ Goto(t, "search", "turn")
    /\ Set_Percent(t, (100 * at) \div Blocks)
    /\ UNCHANGED <<status, available, control, contents, job, crashed>>
    /\ HandlerUnchanged

\* The rest of the turn: the search stops, because it is told to or the disk is full; or it
\* goes on to the next block, or back to one it left when a file was recovered.
Deep_Scan_Block(t) ==
    LET at == job[t].block IN
    /\ job[t].kind = "DEEP"
    /\ \/ /\ Goto(t, "turn", "decide")
          /\ UNCHANGED job
       \/ /\ control # "SCAN_STOP" /\ Goto(t, "turn", "search")
          /\ job' = [job EXCEPT ![t].block = at + 1]
       \/ /\ control # "SCAN_STOP" /\ Goto(t, "turn", "search")
          /\ job[t].back < MaxBack
          /\ \E b \in 0 .. at : job' = [job EXCEPT ![t].block = b, ![t].back = @ + 1]
    /\ UNCHANGED <<shared, contents, crashed>>
    /\ HandlerUnchanged

Bug_Deep_Scan_Never_Quits(t) ==
    /\ job[t].kind = "DEEP"
    /\ Goto(t, "search", "search")
    /\ job' = [job EXCEPT ![t].block = 0]
    /\ UNCHANGED <<shared, contents, crashed>>
    /\ HandlerUnchanged

\* The search space is exhausted: Deep_Scan_File returns 0, as it does when stopped.
Deep_Scan_Ends(t) ==
    /\ job[t].kind = "DEEP"
    /\ Goto(t, "search", "decide")
    /\ UNCHANGED <<shared, contents, job, crashed>>
    /\ HandlerUnchanged

Bug_Decide_Ignores_Stop(t) ==
    /\ Goto(t, "decide", "publish")
    /\ UNCHANGED <<shared, contents, job, crashed>>
    /\ HandlerUnchanged

\* :465, :497
Decide(t) ==
    /\ Goto(t, "decide", IF control = "SCAN_STOP" THEN "abort_percent" ELSE "publish")
    /\ UNCHANGED <<shared, contents, job, crashed>>
    /\ HandlerUnchanged

\* Update_DataRec_Ctx copies the list found, Deep_Scan_File_Classify sorts the files carved.
Publish(t) ==
    /\ Goto(t, "publish", "full")
    /\ listing' = [listing EXCEPT ![job[t].kind] =
                      IF job[t].kind = "QUICK" THEN found ELSE job[t].target.partition]
    /\ UNCHANGED <<shared, found, job, crashed>>
    /\ HandlerUnchanged

\* :476, :508
Full(t) ==
    /\ Goto(t, "full", "idle")
    /\ Set_Percent(t, 100)
    /\ UNCHANGED <<status, available, control, job, contents, crashed>>
    /\ HandlerUnchanged

Bug_Mark_Idle_Not_On_Abort(t) ==
    /\ \/ Goto(t, "idle", "ready") /\ Set_Status("IDLE")
       \/ Goto(t, "abort_idle", "abort_list") /\ UNCHANGED status
    /\ UNCHANGED <<available, control, progress, job, contents, crashed>>
    /\ HandlerUnchanged

\* :477, :509, and on the early exits :468, :500.
Mark_Idle(t) ==
    /\ Goto(t, "idle", "ready") \/ Goto(t, "abort_idle", "abort_list")
    /\ Set_Status("IDLE")
    /\ UNCHANGED <<available, control, progress, job, contents, crashed>>
    /\ HandlerUnchanged

Bug_Mark_List_Ready_On_Abort(t) ==
    /\ Goto(t, "ready", "free") \/ Goto(t, "abort_list", "free")
    /\ Set_List_Available(job[t].kind, "LIST_READY")
    /\ job' = [job EXCEPT ![t] = NoJob]
    /\ UNCHANGED <<status, control, progress, contents, crashed>>
    /\ HandlerUnchanged

\* :478, :510, and on the early exits :469, :501; the thread ends.
Mark_List(t) ==
    /\ \/ Goto(t, "ready", "free") /\ Set_List_Available(job[t].kind, "LIST_READY")
       \/ Goto(t, "abort_list", "free") /\ Set_List_Available(job[t].kind, "LIST_NOT_READY")
    /\ job' = [job EXCEPT ![t] = NoJob]
    /\ UNCHANGED <<status, control, progress, contents, crashed>>
    /\ HandlerUnchanged

ScannerStep(t) ==
    \/ Percent_Step(t)
    \/ Reset_Percent(t)
    \/ Mark_Busy(t)
    \/ Mark_Unready(t)
    \/ Allow(t)
    \/ Use_Scan_Object(t)
    \/ Quick_Scan_File(t)
    \/ Half_Way(t)
    \/ Deep_Scan_Turn(t)
    \/ Deep_Scan_Block(t)
    \/ Deep_Scan_Ends(t)
    \/ Decide(t)
    \/ Publish(t)
    \/ Full(t)
    \/ Mark_Idle(t)
    \/ Mark_List(t)

----------------------------------------------------------------------------
Next == Scan_Handler \/ HandlerStep \/ \E t \in Threads : ScannerStep(t)

\* The operating system runs every thread; nobody has to send a request.
Fairness == /\ WF_vars(HandlerStep)
            /\ \A t \in Threads : WF_vars(ScannerStep(t))

Spec == Init /\ [][Next]_vars
FairSpec == Spec /\ Fairness

----------------------------------------------------------------------------
(* Properties that hold for every client *)

TypeOK ==
    /\ status \in Statuses
    /\ available \in [Kinds -> {"LIST_NOT_READY", "LIST_READY"}]
    /\ control \in {"SCAN_CONTINUE", "SCAN_STOP"}
    /\ percent \in 0 .. 100 /\ percent_cmp \in 0 .. 100
    /\ call \in [Threads -> Calls]
    /\ scan_Object \in ScanObjects
    /\ found \in VolumeOrNull
    /\ listing \in [Kinds -> VolumeOrNull]
    /\ pc \in [Threads -> ThreadStates]
    /\ job \in [Threads -> Jobs]
    /\ handler \in {"receive", "set_disk", "set_partition", "check_busy", "create",
                    "stop", "set_stop"}
    /\ request \in Requests
    /\ crashed \in BOOLEAN

\* The service is never busy for nobody: while status refuses new scans, some thread is
\* still there that will give it back (scan_component.c:457-477, 486-509, both exits).
BusyHasOwner == status # "IDLE" => \E t \in Threads : Owns(t)

\* Every scanner thread ends, or the process does, whatever the requests that arrive.
EveryScanEnds == \A t \in Threads : Live(t) ~> (~Live(t) \/ crashed)

----------------------------------------------------------------------------
(* Properties that depend on how the client paces its requests *)

\* One scan at a time: what the check of Scan_File_BackGround is for
\* (scan_component.c:517-522, "Scan Aborted, DataRec Busy").
OneScanAtATime == \A t, u \in Threads : Owns(t) /\ Owns(u) => t = u

\* Progress shown to the client never goes back, except to zero when a scan begins, is
\* stopped, or returns to the first block: the unlocked comparison and the two writes of
\* Set_Percent (common.c:467-483) never let an older percentage win.  Two scans at once can.
ProgressForward == [][percent' >= percent \/ percent' = 0]_percent

\* A scan reads the disk and partition its own request named (scan_component.c:555-578).
ScanReadsItsObject ==
    \A t \in Threads : Live(t) => job[t].target \in {job[t].requested, NoObject}

\* A list announced LIST_READY is not being written: no thread of its kind is between
\* LIST_NOT_READY and the end of its scan (scan_component.c:458-478, 487-510).
ReadyListIsComplete ==
    \A t \in Threads :
        pc[t] \in {"allow"} \cup Working \cup {"publish", "full", "idle"}
            => available[job[t].kind] = "LIST_NOT_READY"

\* A scan whose stop was accepted before its last look at the flag ends through the early
\* exit: it publishes nothing (scan_component.c:464-472, 496-504, 582-587).
StopIsHonoured == \A t \in Threads : job[t].stopped # "no" => pc[t] \notin Publishing

\* The same of a stop that found the scan's flag already cleared: no other request or thread
\* clears it again before the scan has seen it (scan_component.c:459, 488, 582-587).
LateStopIsHonoured == \A t \in Threads : job[t].stopped = "late" => pc[t] \notin Publishing

\* No request makes the process dereference a NULL disk or partition
\* (common.c:663-677 is there to refuse the numbers that do not resolve).
NeverCrashes == ~crashed

----------------------------------------------------------------------------
(* Refinement: with a patient client the threads and flags implement       *)
(* ScanService.  A scan begins when its thread marks the status busy, and  *)
(* ends when the thread does.                                              *)

Runner == CHOOSE t \in Threads : Running(t)
SomeRunning == \E t \in Threads : Running(t)
RunningKind == IF SomeRunning THEN job[Runner].kind ELSE "IDLE"

RunningSubject == IF SomeRunning THEN job[Runner].requested.partition ELSE NULL
Readable == [k \in Kinds |->
               IF available[k] = "LIST_READY" /\ k # RunningKind THEN listing[k] ELSE NULL]

Service == INSTANCE ScanService WITH
    phase <- RunningKind, subject <- RunningSubject, result <- Readable

\* Every behaviour of the threads is one of the service (scan_component.c:454-511).
ImplementsService == Service!Spec

=============================================================================
