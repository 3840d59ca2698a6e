------------------------- MODULE ScanControl_proofs -------------------------
(***************************************************************************)
(* Theorems about ScanControl, for every set of threads and volumes, every *)
(* size of the search and, unless a hypothesis says otherwise, every way a *)
(* client paces its requests.                                              *)
(***************************************************************************)
EXTENDS ScanControl, TLAPS

----------------------------------------------------------------------------
(* Type correctness *)

\* The request that reaches pthread_create asks for a scan, not for a stop.
RequestOK == handler \in {"set_disk", "set_partition", "check_busy", "create"}
                => request.op \in Kinds

TypeInv == TypeOK /\ RequestOK

\* A turn of the search is about a block that exists.
TurnOK == \A t \in Threads : pc[t] = "turn" => job[t].block < Blocks

\* The percentage of a deep scan (photorec_inject.c:63) is one.
LEMMA PercentRange ==
    ASSUME NEW at \in 0 .. Blocks, at < Blocks
    PROVE  (100 * at) \div Blocks \in 0 .. 100
<1> DEFINE q == (100 * at) \div Blocks
           r == (100 * at) % Blocks
<1>1. Blocks \in Nat /\ Blocks > 0
    BY BlocksAssumption
<1>2. q \in Int /\ r \in 0 .. (Blocks - 1) /\ 100 * at = Blocks * q + r
    BY <1>1
<1>3. Blocks * q <= 100 * Blocks
    BY <1>1, <1>2
<1>4. q <= 100
    BY <1>1, <1>2, <1>3
<1>5. q >= 0
    BY <1>1, <1>2
<1> QED
    BY <1>2, <1>4, <1>5

LEMMA NoJobType == NoObject \in ScanObjects /\ NoJob \in Jobs
BY BlocksAssumption DEF NoObject, NoJob, ScanObjects, Jobs, VolumeOrNull, Kinds

LEMMA NoRequestType == NoRequest \in Requests /\ \A r \in Requests : r.target \in ScanObjects
BY DEF NoRequest, Requests, Targets, NoObject, ScanObjects, VolumeOrNull, Kinds

LEMMA CallUpdate ==
    ASSUME call \in [Threads -> Calls], NEW t \in Threads
    PROVE  /\ [call EXCEPT ![t] = NoCall] \in [Threads -> Calls]
           /\ \A p \in 0 .. 100 :
                  [call EXCEPT ![t] = [at |-> "compare", p |-> p]] \in [Threads -> Calls]
           /\ \A a \in {"write_cmp", "write"} : [call EXCEPT ![t].at = a] \in [Threads -> Calls]
<1>1. NoCall \in Calls /\ \A p \in 0 .. 100 : [at |-> "compare", p |-> p] \in Calls
    BY DEF Calls, NoCall
<1>2. \A a \in {"write_cmp", "write"} : [call[t] EXCEPT !.at = a] \in Calls
    BY DEF Calls
<1>3. \A c \in Calls : [call EXCEPT ![t] = c] \in [Threads -> Calls]
    OBVIOUS
<1> QED
    BY <1>1, <1>2, <1>3

\* A call of Set_Percent leaves everything else as it is.
LEMMA SetPercentType ==
    ASSUME call \in [Threads -> Calls], NEW t \in Threads, NEW p \in 0 .. 100, Set_Percent(t, p)
    PROVE  call' \in [Threads -> Calls] /\ percent' = percent /\ percent_cmp' = percent_cmp
BY CallUpdate DEF Set_Percent

LEMMA InitType == Init => TypeInv
<1> SUFFICES ASSUME Init PROVE TypeInv
    OBVIOUS
<1>1. /\ status \in Statuses
      /\ available \in [Kinds -> {"LIST_NOT_READY", "LIST_READY"}]
      /\ control \in {"SCAN_CONTINUE", "SCAN_STOP"}
      /\ percent \in 0 .. 100 /\ percent_cmp \in 0 .. 100
      /\ call \in [Threads -> Calls]
    BY DEF Init, Info_Context_Reset, Statuses, Calls, NoCall
<1>2. /\ scan_Object \in ScanObjects
      /\ found \in VolumeOrNull
      /\ listing \in [Kinds -> VolumeOrNull]
    BY NoJobType DEF Init, VolumeOrNull
<1>3. pc \in [Threads -> ThreadStates] /\ job \in [Threads -> Jobs]
    BY NoJobType DEF Init, ThreadStates
<1>4. request \in Requests
    BY NoRequestType DEF Init
<1> QED
    BY <1>1, <1>2, <1>3, <1>4 DEF Init, TypeInv, TypeOK, RequestOK

\* Facts about records that the steps below need.
LEMMA JobUpdate ==
    ASSUME TypeInv, NEW t \in Threads
    PROVE  /\ job[t] \in Jobs
           /\ \A x \in ScanObjects : [job[t] EXCEPT !.target = x] \in Jobs
           /\ \A b \in 0 .. Blocks : [job[t] EXCEPT !.block = b] \in Jobs
           /\ \A b \in 0 .. Blocks, n \in 0 .. MaxBack :
                  [job[t] EXCEPT !.block = b, !.back = n] \in Jobs
           /\ \A s \in {"no", "early", "late"} : [job[t] EXCEPT !.stopped = s] \in Jobs
<1>1. job[t] \in Jobs
    BY DEF TypeInv, TypeOK
<1>2. \A j \in Jobs, x \in ScanObjects : [j EXCEPT !.target = x] \in Jobs
    BY DEF Jobs
<1>3. \A j \in Jobs, b \in 0 .. Blocks : [j EXCEPT !.block = b] \in Jobs
    BY DEF Jobs
<1>4. \A j \in Jobs, b \in 0 .. Blocks, n \in 0 .. MaxBack :
          [j EXCEPT !.block = b, !.back = n] \in Jobs
    BY DEF Jobs
<1>5. \A j \in Jobs, s \in {"no", "early", "late"} : [j EXCEPT !.stopped = s] \in Jobs
    BY DEF Jobs
<1> QED
    BY <1>1, <1>2, <1>3, <1>4, <1>5

LEMMA HandlerType == TypeInv /\ (Scan_Handler \/ HandlerStep) => TypeInv'
<1> SUFFICES ASSUME TypeInv, Scan_Handler \/ HandlerStep PROVE TypeInv'
    OBVIOUS
<1> USE DEF TypeInv, TypeOK, RequestOK, Handle, ThreadsUnchanged, shared, progress, contents
<1>1. CASE Scan_Handler
    BY <1>1 DEF Scan_Handler, Requests
<1>2. CASE Set_Scan_Disk
    <2>1. scan_Object' \in ScanObjects
        BY <1>2, NoRequestType DEF Set_Scan_Disk, ScanObjects
    <2> QED
        BY <1>2, <2>1 DEF Set_Scan_Disk
<1>3. CASE Set_Scan_Partition
    <2>1. scan_Object' \in ScanObjects
        BY <1>3, NoRequestType DEF Set_Scan_Partition, ScanObjects
    <2> QED
        BY <1>3, <2>1, NoRequestType DEF Set_Scan_Partition
<1>4. CASE Check_Busy
    BY <1>4, NoRequestType DEF Check_Busy
<1>5. ASSUME NEW t \in Threads, Create_Thread(t) PROVE TypeInv'
    <2>1. [NoJob EXCEPT !.kind = request.op, !.requested = request.target] \in Jobs
        BY <1>5, NoJobType, NoRequestType DEF Create_Thread, Jobs
    <2>2. pc' \in [Threads -> ThreadStates]
        BY <1>5 DEF Create_Thread, ThreadStates, Starting
    <2> QED
        BY <1>5, <2>1, <2>2, NoRequestType DEF Create_Thread
<1>6. CASE Create_Fails
    BY <1>6, NoRequestType DEF Create_Fails
<1>7. CASE Stop_Scan_Process
    BY <1>7 DEF Stop_Scan_Process
<1>8. CASE Accept_Stop
    <2>1. job' \in [Threads -> Jobs]
        BY <1>8, JobUpdate DEF Accept_Stop
    <2> QED
        BY <1>8, <2>1 DEF Accept_Stop, Set_Control
<1> QED
    BY <1>1, <1>2, <1>3, <1>4, <1>5, <1>6, <1>7, <1>8 DEF HandlerStep

LEMMA ThreadStatesListed ==
    ThreadStates = {"free", "created", "mark_busy", "mark_unready", "allow", "open", "mount",
                    "search", "turn", "half", "decide", "abort_percent", "abort_idle", "abort_list",
                    "publish", "full", "idle", "ready"}
BY DEF ThreadStates, Starting, Preparing, Working, Aborting, Publishing

\* A step that moves a thread and the progress, and nothing else.
LEMMA ProgressType ==
    ASSUME TypeInv, pc' \in [Threads -> ThreadStates],
           percent' \in 0 .. 100, percent_cmp' \in 0 .. 100, call' \in [Threads -> Calls],
           UNCHANGED <<status, available, control, scan_Object, found, listing, job, handler,
                       request, crashed>>
    PROVE  TypeInv'
BY DEF TypeInv, TypeOK, RequestOK

LEMMA ScannerType ==
    ASSUME TypeInv, TurnOK, NEW t \in Threads, ScannerStep(t)
    PROVE  TypeInv'
<1> USE DEF TypeInv, TypeOK, RequestOK, Goto, HandlerUnchanged, shared, progress, contents
<1>0. \A to \in ThreadStates : [pc EXCEPT ![t] = to] \in [Threads -> ThreadStates]
    OBVIOUS
<1>1. CASE Reset_Percent(t)
    BY <1>1, <1>0, ThreadStatesListed, SetPercentType DEF Reset_Percent
<1>2. CASE Mark_Busy(t)
    <2>1. job[t].kind \in Kinds
        BY JobUpdate DEF Jobs
    <2>2. status' \in Statuses
        BY <1>2, <2>1 DEF Mark_Busy, Set_Status, Busy, Statuses, Kinds
    <2> QED
        BY <1>2, <1>0, <2>2, ThreadStatesListed DEF Mark_Busy
<1>3. CASE Mark_Unready(t)
    BY <1>3, <1>0, ThreadStatesListed DEF Mark_Unready, Set_List_Available
<1>4. CASE Allow(t)
    BY <1>4, <1>0, ThreadStatesListed DEF Allow, Set_Control
<1>5. CASE Null_Dereference(t)
    BY <1>5 DEF Null_Dereference, Meets_Null
<1>6. CASE Check_Partition(t)
    BY <1>6, <1>0, ThreadStatesListed DEF Check_Partition
<1>7. CASE Read_Partition_Data(t)
    <2>1. pc' \in [Threads -> ThreadStates]
        BY <1>7, <1>0, ThreadStatesListed DEF Read_Partition_Data
    <2>2. job' \in [Threads -> Jobs]
        <3>1. [job[t] EXCEPT !.target = scan_Object] \in Jobs
            BY JobUpdate
        <3>2. [job EXCEPT ![t].target = scan_Object] \in [Threads -> Jobs]
            BY <3>1
        <3> QED
            BY <1>7, <3>2 DEF Read_Partition_Data
    <2>3. found' \in VolumeOrNull
        BY <1>7 DEF Read_Partition_Data, VolumeOrNull
    <2> QED
        BY <1>7, <2>1, <2>2, <2>3 DEF Read_Partition_Data
<1>8. CASE Quick_Scan_File(t)
    <2>1. found' \in VolumeOrNull
        BY <1>8, JobUpdate DEF Quick_Scan_File, Jobs, ScanObjects
    <2> QED
        BY <1>8, <2>1, <1>0, ThreadStatesListed DEF Quick_Scan_File
<1>9. CASE Half_Way(t)
    BY <1>9, <1>0, ThreadStatesListed, SetPercentType DEF Half_Way
<1>10. CASE Photorec_Context_Init(t)
    <2>1. job' \in [Threads -> Jobs]
        BY <1>10, JobUpdate DEF Photorec_Context_Init
    <2>2. listing' \in [Kinds -> VolumeOrNull]
        BY <1>10 DEF Photorec_Context_Init, VolumeOrNull
    <2> QED
        BY <1>10, <1>0, ThreadStatesListed, <2>1, <2>2 DEF Photorec_Context_Init
<1>11. CASE Deep_Scan_Block(t)
    <2> DEFINE at == job[t].block
    <2>1. at \in 0 .. Blocks /\ job[t].back \in 0 .. MaxBack
        BY JobUpdate DEF Jobs
    <2>3. pc' \in [Threads -> ThreadStates]
        BY <1>11, <1>0, ThreadStatesListed DEF Deep_Scan_Block
    <2>4. job' \in [Threads -> Jobs]
        <3>1. at + 1 \in 0 .. Blocks
            <4>1. at < Blocks
                BY <1>11 DEF Deep_Scan_Block, TurnOK
            <4> QED
                BY <4>1, <2>1, BlocksAssumption
        <3>6. \A b \in 0 .. at : b \in 0 .. Blocks
            BY <2>1, BlocksAssumption
        <3>2. job[t].back < MaxBack => job[t].back + 1 \in 0 .. MaxBack
            BY <2>1, BlocksAssumption
        <3>3. CASE job' = job
            BY <3>3
        <3>4. CASE job' = [job EXCEPT ![t].block = at + 1]
            BY <3>4, <3>1, JobUpdate
        <3>5. ASSUME NEW b \in 0 .. at, job[t].back < MaxBack,
                     job' = [job EXCEPT ![t].block = b, ![t].back = @ + 1]
              PROVE  job' \in [Threads -> Jobs]
            BY <3>5, <3>6, <3>2, JobUpdate
        <3> QED
            BY <1>11, <3>3, <3>4, <3>5 DEF Deep_Scan_Block
    <2> QED
        BY <1>11, <2>3, <2>4 DEF Deep_Scan_Block
<1>18. CASE Deep_Scan_Turn(t)
    <2>1. (100 * job[t].block) \div Blocks \in 0 .. 100
        <3>1. job[t].block < Blocks
            BY <1>18 DEF Deep_Scan_Turn
        <3>2. job[t].block \in 0 .. Blocks
            BY JobUpdate DEF Jobs
        <3> QED
            BY <3>1, <3>2, PercentRange
    <2>2. call' \in [Threads -> Calls] /\ percent' = percent /\ percent_cmp' = percent_cmp
        <3>1. Set_Percent(t, (100 * job[t].block) \div Blocks)
            BY <1>18 DEF Deep_Scan_Turn
        <3> QED
            BY <2>1, <3>1, SetPercentType
    <2>3. /\ pc' \in [Threads -> ThreadStates]
          /\ UNCHANGED <<status, available, control, scan_Object, found, listing, job, handler,
                         request, crashed>>
        BY <1>18, <1>0, ThreadStatesListed DEF Deep_Scan_Turn
    <2>4. percent' \in 0 .. 100 /\ percent_cmp' \in 0 .. 100
        BY <2>2
    <2> QED
        BY <2>2, <2>3, <2>4, ProgressType
<1>19. CASE Percent_Step(t)
    <2>1. call[t].p \in 0 .. 100
        BY DEF Calls
    <2>2. /\ percent' \in 0 .. 100 /\ percent_cmp' \in 0 .. 100
          /\ call' \in [Threads -> Calls]
        <3>1. CASE Compare_Percent(t)
            BY <3>1, CallUpdate DEF Compare_Percent
        <3>2. CASE Write_Percent_Cmp(t)
            BY <3>2, <2>1, CallUpdate DEF Write_Percent_Cmp
        <3>3. CASE Write_Percent(t)
            BY <3>3, <2>1, CallUpdate DEF Write_Percent
        <3> QED
            BY <1>19, <3>1, <3>2, <3>3 DEF Percent_Step
    <2>3. /\ pc' \in [Threads -> ThreadStates]
          /\ UNCHANGED <<status, available, control, scan_Object, found, listing, job, handler,
                         request, crashed>>
        BY <1>19 DEF Percent_Step
    <2> QED
        BY <2>2, <2>3, ProgressType
<1>12. CASE Deep_Scan_Ends(t)
    BY <1>12, <1>0, ThreadStatesListed DEF Deep_Scan_Ends
<1>13. CASE Decide(t)
    BY <1>13, <1>0, ThreadStatesListed DEF Decide
<1>14. CASE Publish(t)
    <2>1. listing' \in [Kinds -> VolumeOrNull]
        BY <1>14, JobUpdate DEF Publish, Jobs, ScanObjects
    <2> QED
        BY <1>14, <1>0, ThreadStatesListed, <2>1 DEF Publish
<1>15. CASE Full(t)
    BY <1>15, <1>0, ThreadStatesListed, SetPercentType DEF Full
<1>16. CASE Mark_Idle(t)
    BY <1>16, <1>0, ThreadStatesListed DEF Mark_Idle, Set_Status, Statuses
<1>17. CASE Mark_List(t)
    BY <1>17, <1>0, ThreadStatesListed, NoJobType DEF Mark_List, Set_List_Available
<1> QED
    BY <1>1, <1>2, <1>3, <1>4, <1>5, <1>6, <1>7, <1>8, <1>9, <1>10, <1>11, <1>12, <1>13, <1>14,
       <1>15, <1>16, <1>17, <1>18, <1>19 DEF ScannerStep, Use_Scan_Object

LEMMA StutterType == TypeInv /\ UNCHANGED vars => TypeInv'
BY DEF TypeInv, TypeOK, RequestOK, vars, shared, progress, contents

\* Only Deep_Scan_Turn enters a turn, and only its own thread moves a search.
LEMMA TurnStep == TypeInv /\ TurnOK /\ [Next]_vars => TurnOK'
<1> SUFFICES ASSUME TypeInv, TurnOK, [Next]_vars, NEW u \in Threads, pc'[u] = "turn"
             PROVE  job'[u].block < Blocks
    BY DEF TurnOK
<1> USE DEF TypeInv, TypeOK
<1>1. CASE UNCHANGED vars
    BY <1>1 DEF TurnOK, vars
<1>2. CASE Scan_Handler \/ HandlerStep
    <2>1. pc[u] = "turn" /\ job'[u].block = job[u].block
        BY <1>2 DEF Scan_Handler, HandlerStep, Set_Scan_Disk, Set_Scan_Partition, Check_Busy,
               Create_Thread, Create_Fails, Stop_Scan_Process, Accept_Stop, ThreadsUnchanged, Jobs
    <2> QED
        BY <2>1 DEF TurnOK
<1>3. ASSUME NEW t \in Threads, ScannerStep(t) PROVE job'[u].block < Blocks
    <2>1. CASE Deep_Scan_Turn(t)
        BY <2>1 DEF Deep_Scan_Turn, TurnOK, Goto
    <2>2. CASE ~Deep_Scan_Turn(t)
        <3>1. pc[u] = "turn" /\ job'[u] = job[u]
            BY <1>3, <2>2 DEF ScannerStep, Use_Scan_Object, Meets_Null, Goto, Percent_Step,
                   Reset_Percent, Mark_Busy, Mark_Unready, Allow, Null_Dereference,
                   Check_Partition, Read_Partition_Data, Quick_Scan_File, Half_Way,
                   Photorec_Context_Init, Deep_Scan_Block, Deep_Scan_Ends, Decide, Publish, Full,
                   Mark_Idle, Mark_List
        <3> QED
            BY <3>1 DEF TurnOK
    <2> QED
        BY <2>1, <2>2
<1> QED
    BY <1>1, <1>2, <1>3 DEF Next

LEMMA TypeInvariant == Spec => []TypeInv
<1>1. Init => TurnOK
    BY DEF Init, TurnOK
<1>2. TypeInv /\ TurnOK /\ [Next]_vars => TypeInv'
    BY HandlerType, ScannerType, StutterType DEF Next
<1> QED
    BY InitType, TurnStep, <1>1, <1>2, PTL DEF Spec

\* The shared context, the scan object and every thread's record always hold values of their
\* types; in particular the percentage stays between 0 and 100 however far the search goes
\* (common.c:467-483, photorec_inject.c:63).
THEOREM TypeCorrect == Spec => []TypeOK
<1>1. TypeInv => TypeOK
    BY DEF TypeInv
<1> QED
    BY TypeInvariant, <1>1, PTL

----------------------------------------------------------------------------
(* A busy status has an owner, whatever the client does *)

LEMMA OwnsListed == \A t \in Threads :
    Owns(t) <=> pc[t] \in {"mark_unready", "allow", "open", "mount", "search", "turn", "half",
                           "decide", "abort_percent", "abort_idle", "publish", "full", "idle"}
BY DEF Owns, Preparing, Working

\* Only Mark_Idle takes a thread out of the states that own the status, and it sets IDLE.
LEMMA OwnerScanner ==
    ASSUME TypeInv, BusyHasOwner, NEW t \in Threads, ScannerStep(t)
    PROVE  BusyHasOwner'
<1> USE DEF BusyHasOwner, Goto
<1>1. CASE Mark_Idle(t)
    BY <1>1 DEF Mark_Idle, Set_Status
<1>2. CASE Mark_Busy(t)
    <2>1. pc'[t] = "mark_unready"
        BY <1>2 DEF Mark_Busy, TypeInv, TypeOK
    <2> QED
        BY <2>1 DEF Owns, Preparing
<1>3. ASSUME status' = status,
             \A u \in Threads : u # t => pc'[u] = pc[u],
             Owns(t) => Owns(t)'
      PROVE  BusyHasOwner'
    BY <1>3 DEF Owns
<1>4. CASE Reset_Percent(t)
    BY <1>3, <1>4 DEF Reset_Percent, TypeInv, TypeOK, Owns, Preparing, Working
<1>5. CASE Mark_Unready(t)
    BY <1>3, <1>5 DEF Mark_Unready, TypeInv, TypeOK, Owns, Preparing
<1>6. CASE Allow(t)
    BY <1>3, <1>6 DEF Allow, TypeInv, TypeOK, Owns, Working
<1>7. CASE Null_Dereference(t)
    BY <1>3, <1>7 DEF Null_Dereference, Meets_Null, shared, progress, Owns
<1>8. CASE Check_Partition(t)
    BY <1>3, <1>8 DEF Check_Partition, shared, progress, TypeInv, TypeOK, Owns, Working
<1>9. CASE Read_Partition_Data(t)
    BY <1>3, <1>9 DEF Read_Partition_Data, shared, progress, TypeInv, TypeOK, Owns, Working
<1>10. CASE Quick_Scan_File(t)
    BY <1>3, <1>10 DEF Quick_Scan_File, shared, progress, TypeInv, TypeOK, Owns, Working
<1>11. CASE Half_Way(t)
    BY <1>3, <1>11 DEF Half_Way, TypeInv, TypeOK, Owns, Working
<1>12. CASE Photorec_Context_Init(t)
    BY <1>3, <1>12 DEF Photorec_Context_Init, shared, progress, TypeInv, TypeOK, Owns, Working
<1>13. CASE Deep_Scan_Block(t)
    BY <1>3, <1>13 DEF Deep_Scan_Block, shared, progress, TypeInv, TypeOK, Owns, Working
<1>19. CASE Deep_Scan_Turn(t)
    BY <1>3, <1>19 DEF Deep_Scan_Turn, TypeInv, TypeOK, Owns, Working
<1>20. CASE Percent_Step(t)
    BY <1>3, <1>20 DEF Percent_Step, Owns
<1>14. CASE Deep_Scan_Ends(t)
    BY <1>3, <1>14 DEF Deep_Scan_Ends, shared, progress, TypeInv, TypeOK, Owns, Working
<1>15. CASE Decide(t)
    BY <1>3, <1>15 DEF Decide, shared, progress, TypeInv, TypeOK, Owns
<1>16. CASE Publish(t)
    BY <1>3, <1>16 DEF Publish, shared, progress, TypeInv, TypeOK, Owns
<1>17. CASE Full(t)
    BY <1>3, <1>17 DEF Full, TypeInv, TypeOK, Owns
<1>18. CASE Mark_List(t)
    BY <1>3, <1>18, OwnsListed DEF Mark_List, TypeInv, TypeOK
<1> QED
    BY <1>1, <1>2, <1>4, <1>5, <1>6, <1>7, <1>8, <1>9, <1>10, <1>11, <1>12, <1>13, <1>14, <1>15,
       <1>16, <1>17, <1>18, <1>19, <1>20 DEF ScannerStep, Use_Scan_Object

\* No statement of the request handler sets the status, and a new thread takes a free slot.
LEMMA OwnerHandler ==
    ASSUME TypeInv, BusyHasOwner, Scan_Handler \/ HandlerStep
    PROVE  BusyHasOwner'
<1>1. status' = status
    BY DEF Scan_Handler, HandlerStep, Set_Scan_Disk, Set_Scan_Partition, Check_Busy, Create_Thread,
           Create_Fails, Stop_Scan_Process, Accept_Stop, shared, progress
<1>2. \A u \in Threads : Live(u) => pc'[u] = pc[u]
    BY DEF Scan_Handler, HandlerStep, Set_Scan_Disk, Set_Scan_Partition, Check_Busy, Create_Thread,
           Create_Fails, Stop_Scan_Process, Accept_Stop, ThreadsUnchanged, Live, TypeInv, TypeOK
<1> QED
    BY <1>1, <1>2, OwnsListed DEF BusyHasOwner, Owns, Live

\* The scanner is never left busy by nobody: whatever is requested and however the threads
\* interleave, while the status refuses new scans there is a thread that will give it back
\* (scan_component.c:454-511, both exits of both functions).
THEOREM BusyOwned == Spec => []BusyHasOwner
<1>1. Init => BusyHasOwner
    BY DEF Init, Info_Context_Reset, BusyHasOwner
<1>2. TypeInv /\ BusyHasOwner /\ [Next]_vars => BusyHasOwner'
    <2>1. TypeInv /\ BusyHasOwner /\ Next => BusyHasOwner'
        BY OwnerScanner, OwnerHandler DEF Next
    <2>2. BusyHasOwner /\ UNCHANGED vars => BusyHasOwner'
        BY DEF BusyHasOwner, Owns, vars, shared, progress
    <2> QED
        BY <2>1, <2>2
<1> QED
    BY TypeInvariant, <1>1, <1>2, PTL DEF Spec

----------------------------------------------------------------------------
(* One scan at a time, when the client waits to see the status of a scan   *)
(* before it asks for another                                              *)

\* Requests that may still create a thread.
Starts == {"set_disk", "set_partition", "check_busy", "create"}

\* A thread that has not yet marked the status is alone: it passed a check that nobody has
\* outdated, and no request that could pass it again is in service.
Overlaps ==
    /\ \A t, u \in Threads : pc[t] \in Starting /\ (pc[u] \in Starting \/ Owns(u)) => t = u
    /\ \A t \in Threads : Owns(t) => status # "IDLE"
    /\ handler \in Starts => \A t \in Threads : pc[t] \notin Starting
    /\ handler = "create" => \A t \in Threads : ~Owns(t)

LEMMA ObservantScanner ==
    ASSUME TypeInv, OneScanAtATime, Overlaps, NEW t \in Threads, ScannerStep(t)
    PROVE  OneScanAtATime' /\ Overlaps'
<1> USE DEF TypeInv, TypeOK, Goto, HandlerUnchanged, shared, progress, OneScanAtATime, Overlaps,
            Starts, Starting
<1>1. CASE Mark_Busy(t)
    <2>1. status' # "IDLE" /\ handler' = handler
        <3>1. job[t].kind \in Kinds
            BY DEF Jobs
        <3> QED
            BY <1>1, <3>1 DEF Mark_Busy, Set_Status, Busy, Kinds
    <2>2. pc[t] = "mark_busy" /\ pc'[t] = "mark_unready" /\ \A u \in Threads : u # t => pc'[u] = pc[u]
        BY <1>1 DEF Mark_Busy
    <2>3. \A u \in Threads : Owns(u)' <=> (u = t \/ Owns(u))
        BY <2>2, OwnsListed DEF Owns, Preparing, Working
    <2>4. \A u \in Threads : ~Owns(u) /\ (pc[u] \in Starting => u = t)
        BY <2>2, OwnsListed
    <2> QED
        BY <2>1, <2>2, <2>3, <2>4
<1>2. CASE Mark_Idle(t)
    <2>1. status' = "IDLE" /\ handler' = handler
        BY <1>2 DEF Mark_Idle, Set_Status
    <2>2. /\ Owns(t)
          /\ pc'[t] \in {"ready", "abort_list"} /\ \A u \in Threads : u # t => pc'[u] = pc[u]
        BY <1>2, OwnsListed DEF Mark_Idle
    <2>3. \A u \in Threads : ~Owns(u)' /\ pc'[u] \notin Starting
        BY <2>2 DEF Owns, Preparing, Working
    <2> QED
        BY <2>1, <2>3
<1>3. CASE ~Mark_Busy(t) /\ ~Mark_Idle(t)
    <2>1. UNCHANGED <<status, handler>>
        BY <1>3 DEF ScannerStep, Use_Scan_Object, Meets_Null, Reset_Percent, Mark_Unready, Allow,
               Null_Dereference, Check_Partition, Read_Partition_Data, Quick_Scan_File, Half_Way,
               Photorec_Context_Init, Deep_Scan_Turn, Deep_Scan_Block, Percent_Step, Deep_Scan_Ends,
               Decide, Publish, Full, Mark_List
    <2>2. /\ pc'[t] \in Starting <=> pc[t] \in Starting
          /\ Owns(t)' <=> Owns(t)
          /\ \A u \in Threads : u # t => pc'[u] = pc[u]
        BY <1>3 DEF ScannerStep, Use_Scan_Object, Meets_Null, Reset_Percent, Mark_Unready, Allow,
               Null_Dereference, Check_Partition, Read_Partition_Data, Quick_Scan_File, Half_Way,
               Photorec_Context_Init, Deep_Scan_Turn, Deep_Scan_Block, Percent_Step, Deep_Scan_Ends,
               Decide, Publish, Full, Mark_List, Owns, Preparing, Working
    <2>3. \A u \in Threads : (pc'[u] \in Starting <=> pc[u] \in Starting) /\ (Owns(u)' <=> Owns(u))
        BY <2>2 DEF Owns
    <2> QED
        BY <2>1, <2>3
<1> QED
    BY <1>1, <1>2, <1>3

LEMMA ObservantHandler ==
    ASSUME Patience # "eager", TypeInv, OneScanAtATime, Overlaps, Scan_Handler \/ HandlerStep
    PROVE  OneScanAtATime' /\ Overlaps'
<1> USE DEF TypeInv, TypeOK, Handle, ThreadsUnchanged, shared, progress, OneScanAtATime, Overlaps,
            Starts
<1>1. CASE Scan_Handler
    <2>1. MayStart => \A t \in Threads : pc[t] \notin Starting
        BY PatienceAssumption DEF MayStart, Live, Starting
    <2> QED
        BY <1>1, <2>1 DEF Scan_Handler, Owns
<1>2. CASE Check_Busy
    BY <1>2 DEF Check_Busy, Owns
<1>3. ASSUME NEW t \in Threads, Create_Thread(t)
      PROVE  OneScanAtATime' /\ Overlaps'
    <2>1. handler = "create" /\ handler' = "receive" /\ status' = status
        BY <1>3 DEF Create_Thread
    <2>2. /\ pc[t] = "free" /\ pc'[t] = "created"
          /\ \A u \in Threads : u # t => pc'[u] = pc[u]
        BY <1>3 DEF Create_Thread, Live
    <2>3. \A u \in Threads : ~Owns(u)' /\ (pc'[u] \in Starting => u = t)
        BY <2>1, <2>2 DEF Owns, Preparing, Working
    <2> QED
        BY <2>1, <2>3
<1>4. CASE Set_Scan_Disk \/ Set_Scan_Partition \/ Create_Fails \/ Stop_Scan_Process \/ Accept_Stop
    BY <1>4 DEF Set_Scan_Disk, Set_Scan_Partition, Create_Fails, Stop_Scan_Process, Accept_Stop,
           Owns
<1> QED
    BY <1>1, <1>2, <1>3, <1>4 DEF HandlerStep

LEMMA OneScanInvariant ==
    ASSUME Patience # "eager" PROVE Spec => [](OneScanAtATime /\ Overlaps)
<1>1. Init => OneScanAtATime /\ Overlaps
    BY OwnsListed DEF Init, OneScanAtATime, Overlaps, Owns, Starting, Starts
<1>2. TypeInv /\ OneScanAtATime /\ Overlaps /\ [Next]_vars => OneScanAtATime' /\ Overlaps'
    <2>1. TypeInv /\ OneScanAtATime /\ Overlaps /\ Next => OneScanAtATime' /\ Overlaps'
        BY ObservantScanner, ObservantHandler DEF Next
    <2>2. OneScanAtATime /\ Overlaps /\ UNCHANGED vars => OneScanAtATime' /\ Overlaps'
        BY DEF OneScanAtATime, Overlaps, Owns, vars, shared, progress
    <2> QED
        BY <2>1, <2>2
<1> QED
    BY TypeInvariant, <1>1, <1>2, PTL DEF Spec

\* A client that does not ask for a scan before it has seen the status of the previous one
\* never has two scans at work, although the check and the update of the status are apart
\* (scan_component.c:457, 486, 517-531).
THEOREM OneScan == ASSUME Patience # "eager" PROVE Spec => []OneScanAtATime
BY OneScanInvariant, PTL

----------------------------------------------------------------------------
(* Stops and percentages of the same clients *)

\* A stop that found the flag cleared stays raised until the scan has seen it.
LateRaised ==
    \A t \in Threads : job[t].stopped = "late" =>
        /\ pc[t] \in Working \cup Aborting
        /\ pc[t] \in Working => control = "SCAN_STOP"

\* A turn of the search changes where the search is and nothing else of the thread's job.
LEMMA BlockJob ==
    ASSUME TypeInv, NEW t \in Threads, Deep_Scan_Block(t)
    PROVE  /\ \A u \in Threads : u # t => job'[u] = job[u] /\ pc'[u] = pc[u]
           /\ pc[t] = "turn" /\ pc'[t] \in {"search", "decide"}
           /\ job'[t].kind = job[t].kind /\ job'[t].requested = job[t].requested
           /\ job'[t].stopped = job[t].stopped /\ job'[t].target = job[t].target
<1> USE DEF TypeInv, TypeOK
<1>1. /\ pc[t] = "turn" /\ pc'[t] \in {"search", "decide"}
      /\ \A u \in Threads : u # t => pc'[u] = pc[u]
    BY DEF Deep_Scan_Block, Goto
<1>2. PICK x : job' = job \/ job' = [job EXCEPT ![t].block = x]
                \/ \E y : job' = [job EXCEPT ![t].block = x, ![t].back = y]
    BY DEF Deep_Scan_Block
<1>3. job[t] \in Jobs
    OBVIOUS
<1>4. \A y : /\ [job[t] EXCEPT !.block = x].kind = job[t].kind
             /\ [job[t] EXCEPT !.block = x].requested = job[t].requested
             /\ [job[t] EXCEPT !.block = x].stopped = job[t].stopped
             /\ [job[t] EXCEPT !.block = x].target = job[t].target
             /\ [job[t] EXCEPT !.block = x, !.back = y].kind = job[t].kind
             /\ [job[t] EXCEPT !.block = x, !.back = y].requested = job[t].requested
             /\ [job[t] EXCEPT !.block = x, !.back = y].stopped = job[t].stopped
             /\ [job[t] EXCEPT !.block = x, !.back = y].target = job[t].target
    BY <1>3 DEF Jobs
<1>5. CASE job' = job
    BY <1>1, <1>5
<1>6. CASE job' = [job EXCEPT ![t].block = x]
    <2>1. job'[t] = [job[t] EXCEPT !.block = x] /\ \A u \in Threads : u # t => job'[u] = job[u]
        BY <1>6
    <2> QED
        BY <1>1, <1>4, <2>1
<1>7. ASSUME NEW y, job' = [job EXCEPT ![t].block = x, ![t].back = y]
      PROVE  /\ \A u \in Threads : u # t => job'[u] = job[u]
             /\ job'[t].kind = job[t].kind /\ job'[t].requested = job[t].requested
             /\ job'[t].stopped = job[t].stopped /\ job'[t].target = job[t].target
    <2>1. /\ job'[t] = [job[t] EXCEPT !.block = x, !.back = y]
          /\ \A u \in Threads : u # t => job'[u] = job[u]
        BY <1>7
    <2> QED
        BY <1>4, <2>1
<1> QED
    BY <1>1, <1>2, <1>5, <1>6, <1>7

\* Allow, which clears the flag, is a step of the only thread that has set the status.
LEMMA LateScanner ==
    ASSUME TypeInv, OneScanAtATime, LateRaised, NEW t \in Threads, ScannerStep(t)
    PROVE  LateRaised'
<1> USE DEF TypeInv, TypeOK, Goto, shared
<1>1. /\ \A u \in Threads : u # t => pc'[u] = pc[u] /\ job'[u] = job[u]
      /\ job'[t].stopped \in {job[t].stopped, "no"}
    <2>1. job[t] \in Jobs
        OBVIOUS
    <2>2. CASE Deep_Scan_Block(t)
        BY <2>2, BlockJob
    <2>3. CASE Read_Partition_Data(t) \/ Photorec_Context_Init(t)
        BY <2>1, <2>3 DEF Read_Partition_Data, Photorec_Context_Init, Jobs
    <2>4. CASE ~(Deep_Scan_Block(t) \/ Read_Partition_Data(t) \/ Photorec_Context_Init(t))
        BY <2>4 DEF ScannerStep, Use_Scan_Object, Meets_Null, Percent_Step, Reset_Percent,
               Mark_Busy, Mark_Unready, Allow, Null_Dereference, Check_Partition,
               Quick_Scan_File, Half_Way, Deep_Scan_Turn, Deep_Scan_Ends, Decide, Publish, Full,
               Mark_Idle, Mark_List, NoJob
    <2> QED
        BY <2>2, <2>3, <2>4
<1>2. CASE Allow(t)
    <2>1. Owns(t) /\ pc[t] = "allow"
        BY <1>2 DEF Allow, Owns, Preparing
    <2>2. \A u \in Threads : job[u].stopped = "late" => u # t /\ pc[u] \notin Working
        BY <2>1 DEF LateRaised, OneScanAtATime, Owns, Working, Aborting
    <2> QED
        BY <1>1, <2>2 DEF LateRaised
<1>3. CASE Decide(t)
    BY <1>1, <1>3 DEF Decide, LateRaised, Working, Aborting
<1>4. CASE Mark_List(t)
    <2>1. job'[t].stopped = "no"
        BY <1>4 DEF Mark_List, NoJob
    <2>2. control' = control
        BY <1>4 DEF Mark_List
    <2> QED
        BY <1>1, <2>1, <2>2 DEF LateRaised
<1>5. CASE ~(Allow(t) \/ Decide(t) \/ Mark_List(t))
    <2>1. control' = control
        BY <1>5 DEF ScannerStep, Use_Scan_Object, Meets_Null, Percent_Step, Reset_Percent,
               Mark_Busy, Mark_Unready, Null_Dereference, Check_Partition, Read_Partition_Data,
               Quick_Scan_File, Half_Way, Photorec_Context_Init, Deep_Scan_Turn,
               Deep_Scan_Block, Deep_Scan_Ends, Publish, Full, Mark_Idle
    <2>2. /\ pc[t] \in Working => pc'[t] \in Working
          /\ pc[t] \in Aborting => pc'[t] \in Aborting
        BY <1>5 DEF ScannerStep, Use_Scan_Object, Meets_Null, Percent_Step, Reset_Percent,
               Mark_Busy, Mark_Unready, Null_Dereference, Check_Partition, Read_Partition_Data,
               Quick_Scan_File, Half_Way, Photorec_Context_Init, Deep_Scan_Turn,
               Deep_Scan_Block, Deep_Scan_Ends, Publish, Full, Mark_Idle, Working, Aborting
    <2>3. pc[t] \in Aborting => pc'[t] \notin Working
        BY <2>2 DEF Working, Aborting
    <2> QED
        BY <1>1, <2>1, <2>2, <2>3 DEF LateRaised
<1> QED
    BY <1>2, <1>3, <1>4, <1>5

LEMMA LateHandler ==
    ASSUME TypeInv, LateRaised, Scan_Handler \/ HandlerStep
    PROVE  LateRaised'
<1> USE DEF TypeInv, TypeOK, ThreadsUnchanged, shared, LateRaised
<1>1. CASE Accept_Stop
    <2>1. control' = "SCAN_STOP" /\ pc' = pc
        BY <1>1 DEF Accept_Stop, Set_Control
    <2>2. \A u \in Threads : job'[u].stopped = "late" => job[u].stopped = "late" \/ pc[u] \in Working
        BY <1>1 DEF Accept_Stop, Jobs
    <2> QED
        BY <2>1, <2>2
<1>2. ASSUME NEW t \in Threads, Create_Thread(t) PROVE LateRaised'
    <2>1. job'[t].stopped = "no" /\ control' = control
        BY <1>2 DEF Create_Thread, NoJob
    <2>2. \A u \in Threads : u # t => job'[u] = job[u] /\ pc'[u] = pc[u]
        BY <1>2 DEF Create_Thread
    <2> QED
        BY <2>1, <2>2
<1>3. CASE ~Accept_Stop /\ ~(\E t \in Threads : Create_Thread(t))
    BY <1>3 DEF Scan_Handler, HandlerStep, Set_Scan_Disk, Set_Scan_Partition, Check_Busy,
           Create_Fails, Stop_Scan_Process
<1> QED
    BY <1>1, <1>2, <1>3

\* For every client that waits to see the status of a scan before it asks for another, a stop
\* accepted after the scan cleared the flag ends that scan without a list: no later request
\* and no other thread takes the stop back.  A stop can only be lost between the status and
\* the clearing of the flag (scan_component.c:457-459, 486-488, 582-587).
THEOREM LateStopHonoured == ASSUME Patience # "eager" PROVE Spec => []LateStopIsHonoured
<1>1. Init => LateRaised
    BY DEF Init, LateRaised, NoJob
<1>2. TypeInv /\ OneScanAtATime /\ LateRaised /\ [Next]_vars => LateRaised'
    <2>1. LateRaised /\ UNCHANGED vars => LateRaised'
        BY DEF LateRaised, vars, shared
    <2> QED
        BY <2>1, LateScanner, LateHandler DEF Next
<1>3. LateRaised => LateStopIsHonoured
    BY DEF LateRaised, LateStopIsHonoured, Working, Aborting, Publishing
<1> QED
    BY <1>1, <1>2, <1>3, TypeInvariant, OneScanInvariant, PTL DEF Spec

\* A thread calls Set_Percent only while it starts or holds the status.
CallsWhen ==
    \A t \in Threads : call[t] # NoCall =>
        pc[t] \in {"mark_busy", "turn", "decide", "idle", "abort_idle"}

\* How far the only call is, and what its comparison has established.
CallProgress ==
    /\ \A t \in Threads : call[t].at = "write_cmp" => call[t].p > percent_cmp \/ call[t].p = 0
    /\ \A t \in Threads : call[t].at = "write" =>
           /\ call[t].p > percent \/ call[t].p = 0
           /\ percent_cmp = call[t].p
    /\ (\A t \in Threads : call[t].at # "write") => percent_cmp = percent

\* A statement of a thread that is not inside Set_Percent may begin a call, and nothing else
\* happens to the percentage.
LEMMA CallBegins ==
    ASSUME TypeInv, NEW t \in Threads, ScannerStep(t), ~Percent_Step(t)
    PROVE  /\ UNCHANGED <<percent, percent_cmp>>
           /\ \A u \in Threads : u # t => call'[u] = call[u] /\ pc'[u] = pc[u]
           /\ call[t] = NoCall
           /\ \/ call'[t] = call[t]
              \/ /\ call[t] = NoCall /\ call'[t].at = "compare"
                 /\ pc'[t] \in {"mark_busy", "turn", "decide", "idle", "abort_idle"}
BY DEF TypeInv, TypeOK, shared, progress, Goto, ScannerStep, Use_Scan_Object, Meets_Null,
       Set_Percent, Reset_Percent, Mark_Busy, Mark_Unready, Allow, Null_Dereference,
       Check_Partition, Read_Partition_Data, Quick_Scan_File, Half_Way, Photorec_Context_Init,
       Deep_Scan_Turn, Deep_Scan_Block, Deep_Scan_Ends, Decide, Publish, Full, Mark_Idle,
       Mark_List

\* The request handler calls Set_Percent nowhere, and a new thread is not inside it.
LEMMA CallHandler ==
    ASSUME TypeInv, Scan_Handler \/ HandlerStep
    PROVE  /\ UNCHANGED <<percent, percent_cmp, call>>
           /\ \A u \in Threads : pc[u] # "free" => pc'[u] = pc[u]
BY DEF TypeInv, TypeOK, shared, progress, ThreadsUnchanged, Scan_Handler, HandlerStep,
       Set_Scan_Disk, Set_Scan_Partition, Check_Busy, Create_Thread, Create_Fails,
       Stop_Scan_Process, Accept_Stop, Live

LEMMA CallsWhenStep == TypeInv /\ CallsWhen /\ [Next]_vars => CallsWhen'
<1> SUFFICES ASSUME TypeInv, CallsWhen, [Next]_vars PROVE CallsWhen'
    OBVIOUS
<1>1. CASE UNCHANGED vars
    BY <1>1 DEF vars, shared, progress, CallsWhen
<1>2. CASE Scan_Handler \/ HandlerStep
    BY <1>2, CallHandler DEF CallsWhen
<1>3. ASSUME NEW t \in Threads, Percent_Step(t) PROVE CallsWhen'
    <2>1. /\ pc' = pc /\ call[t] # NoCall
          /\ \A u \in Threads : u # t => call'[u] = call[u]
        BY <1>3 DEF Percent_Step, Compare_Percent, Write_Percent_Cmp, Write_Percent, TypeInv,
               TypeOK, NoCall
    <2> QED
        BY <2>1 DEF CallsWhen
<1>4. ASSUME NEW t \in Threads, ScannerStep(t), ~Percent_Step(t) PROVE CallsWhen'
    BY <1>4, CallBegins DEF CallsWhen
<1> QED
    BY <1>1, <1>2, <1>3, <1>4 DEF Next

\* At most one thread is inside Set_Percent.
LEMMA OneCall ==
    ASSUME OneScanAtATime, Overlaps, CallsWhen,
           NEW t \in Threads, NEW u \in Threads, call[t] # NoCall, call[u] # NoCall
    PROVE  t = u
BY OwnsListed DEF OneScanAtATime, Overlaps, CallsWhen, Starting

\* What a step of the only call does to the percentage.
LEMMA CallStep ==
    ASSUME TypeInv, CallProgress, NEW t \in Threads, Percent_Step(t),
           \A u \in Threads : u # t => call[u] = NoCall
    PROVE  CallProgress' /\ (percent' >= percent \/ percent' = 0)
<1> USE DEF TypeInv, TypeOK
<1>1. /\ call[t].p \in 0 .. 100 /\ percent \in 0 .. 100 /\ percent_cmp \in 0 .. 100
      /\ call[t] \in Calls
    BY DEF Calls
<1>2. \A u \in Threads : u # t => call'[u] = NoCall
    BY DEF Percent_Step, Compare_Percent, Write_Percent_Cmp, Write_Percent
<1>3. NoCall.at = "none"
    BY DEF NoCall
<1>4. CASE Compare_Percent(t)
    <2>1. /\ UNCHANGED <<percent, percent_cmp>> /\ call[t].at = "compare"
          /\ call'[t].at \in {"none", "write_cmp"} /\ call'[t].p \in {call[t].p, 0}
          /\ call'[t].at = "write_cmp" => call'[t].p > percent_cmp \/ call'[t].p = 0
        BY <1>1, <1>4 DEF Compare_Percent, NoCall, Calls
    <2>2. percent_cmp = percent
        BY <1>1, <1>3, <2>1 DEF CallProgress
    <2> QED
        BY <1>1, <1>2, <1>3, <2>1, <2>2 DEF CallProgress
<1>5. CASE Write_Percent_Cmp(t)
    <2>1. /\ percent' = percent /\ call[t].at = "write_cmp" /\ percent_cmp' = call[t].p
          /\ call'[t].at = "write" /\ call'[t].p = call[t].p
        BY <1>1, <1>5 DEF Write_Percent_Cmp, Calls
    <2>2. percent_cmp = percent /\ (call[t].p > percent_cmp \/ call[t].p = 0)
        BY <1>1, <1>3, <2>1 DEF CallProgress
    <2> QED
        BY <1>1, <1>2, <1>3, <2>1, <2>2 DEF CallProgress
<1>6. CASE Write_Percent(t)
    <2>1. /\ percent' = call[t].p /\ call[t].at = "write" /\ percent_cmp' = percent_cmp
          /\ call'[t].at = "none"
        BY <1>1, <1>6 DEF Write_Percent, NoCall, Calls
    <2>2. percent_cmp = call[t].p /\ (call[t].p > percent \/ call[t].p = 0)
        BY <2>1 DEF CallProgress
    <2> QED
        BY <1>1, <1>2, <1>3, <2>1, <2>2 DEF CallProgress
<1> QED
    BY <1>4, <1>5, <1>6 DEF Percent_Step

\* For every client that waits to see the status of a scan before it asks for another, the
\* percentage shown never goes back but to zero, although a scan that ends and the next one
\* may be alive together, and comparison and writes are apart: the threads that may be inside
\* Set_Percent are those that start or hold the status, and that is one at a time
\* (common.c:467-483, scan_component.c:456-476, photorec_inject.c:63).
THEOREM NeverBack == ASSUME Patience # "eager" PROVE Spec => ProgressForward
<1> DEFINE CallInv == CallsWhen /\ CallProgress
           Forward == percent' >= percent \/ percent' = 0 \/ percent' = percent
<1>1. Init => CallInv
    BY DEF Init, Info_Context_Reset, CallsWhen, CallProgress, NoCall
<1>2. ASSUME TypeInv, OneScanAtATime, Overlaps, CallInv, [Next]_vars
      PROVE  CallProgress' /\ Forward
    <2>1. ASSUME UNCHANGED <<percent, percent_cmp>>,
                 NEW t \in Threads, \A u \in Threads : u # t => call'[u] = call[u],
                 call'[t] = call[t] \/ (call[t] = NoCall /\ call'[t].at = "compare")
          PROVE  CallProgress' /\ Forward
        <3>1. call[t] = NoCall => call[t].at = "none"
            BY DEF NoCall
        <3> QED
            BY <1>2, <2>1, <3>1 DEF CallProgress
    <2>2. ASSUME UNCHANGED <<percent, percent_cmp, call>> PROVE CallProgress' /\ Forward
        BY <1>2, <2>2 DEF CallProgress
    <2>3. CASE UNCHANGED vars
        BY <2>2, <2>3 DEF vars, shared, progress
    <2>4. CASE Scan_Handler \/ HandlerStep
        BY <1>2, <2>2, <2>4, CallHandler
    <2>5. ASSUME NEW t \in Threads, Percent_Step(t) PROVE CallProgress' /\ Forward
        <3>1. call[t] # NoCall
            BY <2>5 DEF Percent_Step, Compare_Percent, Write_Percent_Cmp, Write_Percent, NoCall
        <3>2. \A u \in Threads : u # t => call[u] = NoCall
            BY <1>2, <3>1, OneCall
        <3> QED
            BY <1>2, <2>5, <3>2, CallStep
    <2>6. ASSUME NEW t \in Threads, ScannerStep(t), ~Percent_Step(t)
          PROVE  CallProgress' /\ Forward
        <3>1. /\ UNCHANGED <<percent, percent_cmp>>
              /\ \A u \in Threads : u # t => call'[u] = call[u]
            BY <1>2, <2>6, CallBegins
        <3>2. call'[t] = call[t] \/ (call[t] = NoCall /\ call'[t].at = "compare")
            BY <1>2, <2>6, CallBegins
        <3> QED
            BY <2>1, <3>1, <3>2
    <2> QED
        BY <1>2, <2>3, <2>4, <2>5, <2>6 DEF Next
<1>3. TypeInv /\ OneScanAtATime /\ Overlaps /\ CallInv /\ [Next]_vars => CallInv'
    BY <1>2, CallsWhenStep
<1>4. TypeInv /\ OneScanAtATime /\ Overlaps /\ CallInv /\ [Next]_vars
          => [percent' >= percent \/ percent' = 0]_percent
    BY <1>2
<1> QED
    BY <1>1, <1>3, <1>4, TypeInvariant, OneScanInvariant, PTL DEF Spec, ProgressForward

----------------------------------------------------------------------------
(* The inductive invariant of the patient client *)

Early == Starting \cup Preparing \cup {"open", "mount"}

\* A scan request is served only while no scanner thread is left, and a stop request only
\* once the scan has cleared the stop flag.
Alone == /\ \A t, u \in Threads : Live(t) /\ Live(u) => t = u
         /\ handler \in Starts => \A t \in Threads : ~Live(t)
         /\ handler \in {"stop", "set_stop"} =>
                \A t \in Threads : pc[t] \notin Starting \cup Preparing

\* The scan object is what the request names, from the request's checks to the scan's end.
Accepts(kind, object) ==
    /\ object \in ScanObjects
    /\ object.disk # NULL /\ object.partition # NULL
    /\ kind = "QUICK" => object.partition \in NTFS

ObjectNamed ==
    /\ handler \in {"set_partition", "check_busy", "create"} =>
           scan_Object.disk = request.target.disk
    /\ handler \in {"check_busy", "create"} =>
           /\ scan_Object = request.target
           /\ Accepts(request.op, request.target)
    /\ \A t \in Threads : Live(t) =>
           /\ scan_Object = job[t].requested
           /\ Accepts(job[t].kind, job[t].requested)

\* What a scan has read so far is what was requested, or nothing.
ReadsNamed ==
    \A t \in Threads : Live(t) =>
        /\ job[t].target \in {job[t].requested, NoObject}
        /\ pc[t] \in Early => job[t].target = NoObject
        /\ pc[t] \in {"search", "turn"} => job[t].target = job[t].requested
        /\ job[t].kind = "DEEP" /\ pc[t] \in {"decide", "publish"} =>
               job[t].target = job[t].requested
        /\ job[t].kind = "DEEP" => pc[t] \notin {"mount", "half"}
        /\ job[t].kind = "QUICK" /\ pc[t] \in {"half", "decide", "publish"} =>
               found \in {job[t].requested.partition, NULL}
        /\ pc[t] \in {"full", "idle", "ready"} =>
               listing[job[t].kind] \in {job[t].requested.partition, NULL}

\* A stop that was accepted for a scan stays raised until the scan has seen it.
StopRaised ==
    \A t \in Threads : job[t].stopped # "no" =>
        /\ pc[t] \notin Starting \cup Preparing \cup Publishing
        /\ pc[t] \in Working => control = "SCAN_STOP"

Unready == \A t \in Threads :
    Running(t) /\ pc[t] # "mark_unready" => available[job[t].kind] = "LIST_NOT_READY"

PatientInv ==
    TypeInv /\ Alone /\ ObjectNamed /\ ReadsNamed /\ StopRaised /\ Unready /\ NeverCrashes

LEMMA PatientScanner ==
    ASSUME Patience = "patient", PatientInv, NEW t \in Threads, ScannerStep(t), ~Percent_Step(t)
    PROVE  Alone' /\ ObjectNamed' /\ ReadsNamed' /\ StopRaised' /\ Unready' /\ NeverCrashes'
<1> USE DEF PatientInv, TypeInv, TypeOK, Goto, HandlerUnchanged, shared, contents, Live,
            Running, Starting, Preparing, Working, Publishing, Early, Starts
<1>a. /\ Live(t)
      /\ \A u \in Threads : u # t => pc[u] = "free"
      /\ handler \notin Starts
      /\ scan_Object = job[t].requested
      /\ Accepts(job[t].kind, job[t].requested)
    <2>1. Live(t)
        BY DEF ScannerStep, Use_Scan_Object, Meets_Null,
               Reset_Percent, Mark_Busy, Mark_Unready, Allow, Null_Dereference,
               Check_Partition, Read_Partition_Data, Quick_Scan_File, Half_Way,
               Photorec_Context_Init, Deep_Scan_Turn, Deep_Scan_Block, Deep_Scan_Ends,
               Decide, Publish, Full, Mark_Idle, Mark_List
    <2> QED
        BY <2>1 DEF Alone, ObjectNamed
<1>b. job[t] \in Jobs /\ job[t].kind \in Kinds
    BY DEF Jobs
<1>1. CASE Reset_Percent(t)
    BY <1>1, <1>a DEF Reset_Percent, Set_Percent, Alone, ObjectNamed, ReadsNamed, StopRaised,
           Unready, NeverCrashes
<1>2. CASE Mark_Busy(t)
    BY <1>2, <1>a DEF Mark_Busy, Set_Status, Alone, ObjectNamed, ReadsNamed, StopRaised,
           Unready, NeverCrashes
<1>3. CASE Mark_Unready(t)
    BY <1>3, <1>a, <1>b DEF Mark_Unready, Set_List_Available, Alone, ObjectNamed, ReadsNamed, StopRaised,
           Unready, NeverCrashes
<1>4. CASE Allow(t)
    BY <1>4, <1>a DEF Allow, Set_Control, Alone, ObjectNamed, ReadsNamed, StopRaised,
           Unready, NeverCrashes
<1>5. CASE Null_Dereference(t)
    BY <1>5, <1>a DEF Null_Dereference, Meets_Null, Accepts, Alone, ObjectNamed, ReadsNamed, StopRaised,
           Unready, NeverCrashes
<1>6. CASE Check_Partition(t)
    <2>1. /\ pc[t] = "open" /\ job[t].kind = "QUICK" /\ pc'[t] = "mount"
          /\ \A u \in Threads : u # t => pc'[u] = pc[u]
          /\ UNCHANGED <<available, control, found, listing, scan_Object, handler, request,
                         crashed, job>>
        BY <1>6, <1>a DEF Check_Partition, Accepts
    <2>2. Alone' /\ ObjectNamed' /\ StopRaised' /\ NeverCrashes'
        BY <1>a, <2>1 DEF Alone, ObjectNamed, StopRaised, NeverCrashes
    <2>3. ReadsNamed'
        BY <1>a, <2>1 DEF ReadsNamed
    <2>4. Unready'
        BY <1>a, <2>1 DEF Unready
    <2> QED
        BY <2>2, <2>3, <2>4
<1>7. CASE Read_Partition_Data(t)
    <2>0. /\ \A u \in Threads : u # t => job'[u] = job[u]
          /\ \A u \in Threads : job'[u].kind = job[u].kind
          /\ \A u \in Threads : job'[u].requested = job[u].requested
          /\ \A u \in Threads : job'[u].stopped = job[u].stopped
          /\ pc'[t] = "search" => job'[t].target = scan_Object
          /\ pc'[t] # "search" => job'[t].target = job[t].target
        <3>1. CASE job' = job /\ pc'[t] # "search"
            BY <3>1
        <3>2. CASE job' = [job EXCEPT ![t].target = scan_Object] /\ pc'[t] = "search"
            BY <1>b, <3>2 DEF Jobs
        <3> QED
            BY <1>7, <3>1, <3>2 DEF Read_Partition_Data
    <2> QED
        BY <1>7, <1>a, <2>0 DEF Read_Partition_Data, Alone, ObjectNamed, ReadsNamed, StopRaised,
               Unready, NeverCrashes
<1>8. CASE Quick_Scan_File(t)
    BY <1>8, <1>a DEF Quick_Scan_File, Alone, ObjectNamed, ReadsNamed, StopRaised,
           Unready, NeverCrashes
<1>9. CASE Half_Way(t)
    <2>1. /\ pc[t] = "half" /\ pc'[t] = "decide"
          /\ \A u \in Threads : u # t => pc'[u] = pc[u]
          /\ UNCHANGED <<available, control, found, listing, scan_Object, handler, request,
                         crashed, job>>
        BY <1>9 DEF Half_Way
    <2> QED
        BY <1>a, <2>1 DEF Accepts, Alone, ObjectNamed, ReadsNamed, StopRaised, Unready, NeverCrashes
<1>10. CASE Photorec_Context_Init(t)
    BY <1>10, <1>a DEF Photorec_Context_Init, Alone, ObjectNamed, ReadsNamed, StopRaised,
           Unready, NeverCrashes
<1>11. CASE Deep_Scan_Block(t)
    <2>0. /\ \A u \in Threads : u # t => job'[u] = job[u]
          /\ \A u \in Threads : job'[u].kind = job[u].kind
          /\ \A u \in Threads : job'[u].requested = job[u].requested
          /\ \A u \in Threads : job'[u].stopped = job[u].stopped
          /\ job'[t].target = job[t].target
          /\ pc[t] = "turn" /\ pc'[t] \in {"search", "decide"}
          /\ \A u \in Threads : u # t => pc'[u] = pc[u]
        BY <1>11, BlockJob
    <2>1. UNCHANGED <<available, control, found, listing, scan_Object, handler, request, crashed>>
        BY <1>11 DEF Deep_Scan_Block
    <2>2. job[t].kind = "DEEP"
        BY <1>11 DEF Deep_Scan_Block
    <2> QED
        BY <1>a, <2>0, <2>1, <2>2 DEF Alone, ObjectNamed, ReadsNamed, StopRaised, Unready,
               NeverCrashes
<1>18. CASE Deep_Scan_Turn(t)
    BY <1>18, <1>a DEF Deep_Scan_Turn, Set_Percent, Alone, ObjectNamed, ReadsNamed, StopRaised,
           Unready, NeverCrashes
<1>12. CASE Deep_Scan_Ends(t)
    BY <1>12, <1>a DEF Deep_Scan_Ends, Alone, ObjectNamed, ReadsNamed, StopRaised,
           Unready, NeverCrashes
<1>13. CASE Decide(t)
    <2>1. /\ pc[t] = "decide"
          /\ pc'[t] = IF control = "SCAN_STOP" THEN "abort_percent" ELSE "publish"
          /\ \A u \in Threads : u # t => pc'[u] = pc[u]
          /\ UNCHANGED <<available, control, found, listing, scan_Object, handler, request,
                         crashed, job>>
        BY <1>13 DEF Decide
    <2> QED
        BY <1>a, <2>1 DEF Accepts, Alone, ObjectNamed, ReadsNamed, StopRaised, Unready, NeverCrashes
<1>14. CASE Publish(t)
    <2>1. ReadsNamed'
        <3>1. listing'[job[t].kind] \in {job[t].requested.partition, NULL}
            <4>1. job[t].kind = "QUICK" => found \in {job[t].requested.partition, NULL}
                BY <1>14, <1>a DEF Publish, ReadsNamed
            <4>2. job[t].kind # "QUICK" => job[t].target = job[t].requested
                BY <1>14, <1>a, <1>b DEF Publish, ReadsNamed, Kinds
            <4> QED
                BY <1>14, <1>b, <4>1, <4>2 DEF Publish
        <3> QED
            BY <1>14, <1>a, <3>1 DEF Publish, ReadsNamed
    <2>2. Alone' /\ ObjectNamed' /\ StopRaised' /\ Unready' /\ NeverCrashes'
        BY <1>14, <1>a DEF Publish, Alone, ObjectNamed, StopRaised, Unready, NeverCrashes
    <2> QED
        BY <2>1, <2>2
<1>15. CASE Full(t)
    BY <1>15, <1>a DEF Full, Set_Percent, Alone, ObjectNamed, ReadsNamed, StopRaised,
           Unready, NeverCrashes
<1>16. CASE Mark_Idle(t)
    BY <1>16, <1>a DEF Mark_Idle, Set_Status, Alone, ObjectNamed, ReadsNamed, StopRaised,
           Unready, NeverCrashes
<1>17. CASE Mark_List(t)
    BY <1>17, <1>a DEF Mark_List, Set_List_Available, Alone, ObjectNamed, ReadsNamed, StopRaised,
           Unready, NeverCrashes
<1> QED
    BY <1>1, <1>2, <1>3, <1>4, <1>5, <1>6, <1>7, <1>8, <1>9, <1>10, <1>11, <1>12, <1>13, <1>14,
       <1>15, <1>16, <1>17, <1>18 DEF ScannerStep, Use_Scan_Object

\* A pair of numbers that resolves to a partition resolves to its disk.
LEMMA TargetsResolve ==
    \A r \in Requests :
        /\ r.target \in ScanObjects
        /\ r.target.partition # NULL => r.target.disk # NULL
BY VolumesAssumption, NoRequestType DEF Requests, Targets, NoObject

LEMMA PatientHandler ==
    ASSUME Patience = "patient", PatientInv, Scan_Handler \/ HandlerStep
    PROVE  Alone' /\ ObjectNamed' /\ ReadsNamed' /\ StopRaised' /\ Unready' /\ NeverCrashes'
<1> USE DEF PatientInv, TypeInv, TypeOK, Handle, ThreadsUnchanged, shared, contents, Live,
            Running, Starting, Preparing, Working, Publishing, Early, Starts
<1>1. CASE Scan_Handler
    BY <1>1 DEF Scan_Handler, MayStart, MayStop, Alone, ObjectNamed, ReadsNamed, StopRaised,
           Unready, NeverCrashes
<1>2. CASE Set_Scan_Disk
    BY <1>2 DEF Set_Scan_Disk, ScanObjects, Alone, ObjectNamed, ReadsNamed, StopRaised,
           Unready, NeverCrashes
<1>3. CASE Set_Scan_Partition
    <2>1. Accepted => scan_Object' = request.target /\ Accepts(request.op, request.target)
        BY <1>3, TargetsResolve DEF Set_Scan_Partition, Accepted, Accepts, ObjectNamed, ScanObjects
    <2> QED
        BY <1>3, <2>1 DEF Set_Scan_Partition, Alone, ObjectNamed, ReadsNamed, StopRaised,
               Unready, NeverCrashes
<1>4. CASE Check_Busy
    BY <1>4 DEF Check_Busy, Alone, ObjectNamed, ReadsNamed, StopRaised, Unready, NeverCrashes
<1>5. ASSUME NEW t \in Threads, Create_Thread(t)
      PROVE  Alone' /\ ObjectNamed' /\ ReadsNamed' /\ StopRaised' /\ Unready' /\ NeverCrashes'
    <2>1. /\ job'[t].kind = request.op /\ job'[t].requested = request.target
          /\ job'[t].target = NoObject /\ job'[t].stopped = "no"
          /\ pc'[t] = "created"
          /\ \A u \in Threads : u # t => pc'[u] = pc[u] /\ job'[u] = job[u]
        BY <1>5 DEF Create_Thread, NoJob
    <2>2. \A u \in Threads : ~Live(u)
        BY <1>5 DEF Create_Thread, Alone
    <2> QED
        BY <1>5, <2>1, <2>2 DEF Create_Thread, Alone, ObjectNamed, ReadsNamed, StopRaised,
               Unready, NeverCrashes
<1>6. CASE Create_Fails
    BY <1>6 DEF Create_Fails, Alone, ObjectNamed, ReadsNamed, StopRaised, Unready, NeverCrashes
<1>7. CASE Stop_Scan_Process
    BY <1>7 DEF Stop_Scan_Process, Alone, ObjectNamed, ReadsNamed, StopRaised, Unready,
           NeverCrashes
<1>8. CASE Accept_Stop
    <2>1. \A u \in Threads :
              /\ job'[u].kind = job[u].kind /\ job'[u].requested = job[u].requested
              /\ job'[u].target = job[u].target
              /\ job'[u].stopped # "no" => job[u].stopped # "no" \/ pc[u] \in Preparing \cup Working
        BY <1>8 DEF Accept_Stop, Jobs
    <2>2. /\ handler = "set_stop" /\ handler' = "receive" /\ control' = "SCAN_STOP"
          /\ UNCHANGED <<available, pc, found, listing, scan_Object, request, crashed>>
        BY <1>8 DEF Accept_Stop, Set_Control
    <2>3. Alone' /\ ReadsNamed' /\ Unready' /\ NeverCrashes'
        BY <2>1, <2>2 DEF Alone, ReadsNamed, Unready, NeverCrashes
    <2>4. ObjectNamed'
        BY <2>1, <2>2 DEF ObjectNamed
    <2>5. StopRaised'
        BY <2>1, <2>2 DEF Alone, StopRaised
    <2> QED
        BY <2>3, <2>4, <2>5
<1> QED
    BY <1>1, <1>2, <1>3, <1>4, <1>5, <1>6, <1>7, <1>8 DEF HandlerStep

\* Set_Percent touches nothing that this invariant is about.
SameButPercent ==
    UNCHANGED <<status, available, control, scan_Object, contents, pc, job, handler, request,
                crashed>>

LEMMA PercentOnly ==
    /\ UNCHANGED vars => SameButPercent
    /\ \A t \in Threads : Percent_Step(t) => SameButPercent
BY DEF vars, shared, SameButPercent, Percent_Step, HandlerUnchanged

LEMMA PatientInvariant == ASSUME Patience = "patient" PROVE Spec => []PatientInv
<1>1. Init => PatientInv
    <2>1. Init => Alone /\ ObjectNamed /\ ReadsNamed /\ StopRaised /\ Unready /\ NeverCrashes
        BY DEF Init, NoJob, Alone, ObjectNamed, ReadsNamed, StopRaised, Unready, NeverCrashes,
               Live, Running, Starts
    <2> QED
        BY <2>1, InitType DEF PatientInv
<1>2. PatientInv /\ TypeInv' /\ [Next]_vars => PatientInv'
    <2>1. PatientInv /\ SameButPercent
              => Alone' /\ ObjectNamed' /\ ReadsNamed' /\ StopRaised' /\ Unready' /\ NeverCrashes'
        BY DEF SameButPercent, PatientInv, Alone, ObjectNamed, ReadsNamed, StopRaised, Unready,
               NeverCrashes, Live, Running, contents
    <2> QED
        BY <2>1, PercentOnly, PatientScanner, PatientHandler DEF Next, PatientInv
<1> QED
    BY <1>1, <1>2, TypeInvariant, PTL DEF Spec

\* One client that waits for the end of a scan before it asks for the next never has a scan
\* read another disk or partition than its request named (scan_component.c:555-578, 34-48).
THEOREM PatientReadsItsObject ==
    ASSUME Patience = "patient" PROVE Spec => []ScanReadsItsObject
<1>1. PatientInv => ScanReadsItsObject
    BY DEF PatientInv, ReadsNamed, ScanReadsItsObject
<1> QED
    BY PatientInvariant, <1>1, PTL

\* With the same client, no list is announced LIST_READY while a scan writes it
\* (scan_component.c:458-478, 487-510).
THEOREM PatientReadyListIsComplete ==
    ASSUME Patience = "patient" PROVE Spec => []ReadyListIsComplete
<1>1. PatientInv => ReadyListIsComplete
    BY DEF PatientInv, Unready, ReadyListIsComplete, Running, Live, Starting, Working
<1> QED
    BY PatientInvariant, <1>1, PTL

\* With the same client, no request makes a scan dereference a NULL disk or partition
\* (common.c:663-677).
THEOREM PatientNeverCrashes ==
    ASSUME Patience = "patient" PROVE Spec => []NeverCrashes
<1>1. PatientInv => NeverCrashes
    BY DEF PatientInv
<1> QED
    BY PatientInvariant, <1>1, PTL

----------------------------------------------------------------------------
(* Refinement of ScanService *)

\* What the service shows is what its only running thread, if there is one, is doing.
View == /\ \A t \in Threads : Running(t) =>
               /\ RunningKind = job[t].kind
               /\ RunningSubject = job[t].requested.partition
        /\ (\A t \in Threads : ~Running(t)) => RunningKind = "IDLE" /\ RunningSubject = NULL

LEMMA ViewOfRunner == Alone => View
<1> SUFFICES ASSUME Alone PROVE View
    OBVIOUS
<1>1. ASSUME NEW t \in Threads, Running(t)
      PROVE  /\ RunningKind = job[t].kind
             /\ RunningSubject = job[t].requested.partition
    <2>1. SomeRunning /\ \A u \in Threads : Running(u) => u = t
        BY <1>1 DEF SomeRunning, Alone, Running
    <2>2. Runner \in Threads /\ Running(Runner)
        BY <2>1 DEF SomeRunning, Runner
    <2> QED
        BY <2>1, <2>2 DEF RunningKind, RunningSubject
<1>2. (\A t \in Threads : ~Running(t)) => RunningKind = "IDLE" /\ RunningSubject = NULL
    BY DEF SomeRunning, RunningKind, RunningSubject
<1> QED
    BY <1>1, <1>2 DEF View

\* A step that neither starts nor ends a thread's run, and writes at most the list and the
\* result of the running kind, is invisible.
LEMMA Invisible ==
    ASSUME TypeInv, Alone, View, View',
           \A t \in Threads :
               /\ Running(t)' = Running(t)
               /\ Running(t) => /\ job'[t].kind = job[t].kind
                                /\ job'[t].requested = job[t].requested,
           \A k \in Kinds : (\A t \in Threads : Running(t) => job[t].kind # k)
               => available'[k] = available[k] /\ listing'[k] = listing[k]
    PROVE  UNCHANGED <<RunningKind, RunningSubject, Readable>>
<1>1. RunningKind' = RunningKind /\ RunningSubject' = RunningSubject
    BY DEF View
<1>2. \A k \in Kinds : k # RunningKind
          => available'[k] = available[k] /\ listing'[k] = listing[k]
    BY DEF View
<1>3. Readable' = Readable
    BY <1>1, <1>2 DEF Readable
<1> QED
    BY <1>1, <1>3

LEMMA ServiceHandler ==
    ASSUME PatientInv, View, View', Scan_Handler \/ HandlerStep
    PROVE  UNCHANGED <<RunningKind, RunningSubject, Readable>>
<1>1. /\ UNCHANGED <<available, listing>>
      /\ \A t \in Threads : Running(t)' = Running(t)
    BY DEF PatientInv, TypeInv, TypeOK, Scan_Handler, HandlerStep, Set_Scan_Disk,
           Set_Scan_Partition, Check_Busy, Create_Thread, Create_Fails, Stop_Scan_Process,
           Accept_Stop, Handle, ThreadsUnchanged, shared, contents, Running, Live, Starting
<1>2. ASSUME NEW t \in Threads, Running(t)
      PROVE  job'[t].kind = job[t].kind /\ job'[t].requested = job[t].requested
    BY <1>2 DEF PatientInv, TypeInv, TypeOK, Jobs, Scan_Handler, HandlerStep, Set_Scan_Disk,
           Set_Scan_Partition, Check_Busy, Create_Thread, Create_Fails, Stop_Scan_Process,
           Accept_Stop, ThreadsUnchanged, Running, Live
<1> QED
    BY <1>1, <1>2, Invisible DEF PatientInv

LEMMA ServiceBegins ==
    ASSUME PatientInv, View, View', NEW t \in Threads, Mark_Busy(t)
    PROVE  Service!Begin(job[t].kind, job[t].requested.partition)
<1> USE DEF PatientInv, TypeInv, TypeOK
<1>1. /\ pc[t] = "mark_busy" /\ pc' = [pc EXCEPT ![t] = "mark_unready"]
      /\ UNCHANGED <<available, listing, job>>
    BY DEF Mark_Busy, Goto, shared, contents
<1>2. \A u \in Threads : ~Running(u)
    BY <1>1 DEF Alone, Running, Live, Starting
<1>3. Running(t)'
    BY <1>1 DEF Running, Live, Starting
<1>4. /\ RunningKind = "IDLE" /\ RunningSubject = NULL
      /\ RunningKind' = job[t].kind
      /\ RunningSubject' = job[t].requested.partition
    BY <1>1, <1>2, <1>3 DEF View
<1>5. Readable' = [Readable EXCEPT ![job[t].kind] = NULL]
    BY <1>1, <1>4 DEF Readable, Kinds
<1> QED
    BY <1>4, <1>5 DEF Service!Begin

LEMMA ServiceEnds ==
    ASSUME PatientInv, View, View', NEW t \in Threads, Mark_List(t)
    PROVE  Service!Complete \/ Service!Abandon
<1> USE DEF PatientInv, TypeInv, TypeOK
<1> DEFINE k == job[t].kind
<1>1. /\ pc[t] \in {"ready", "abort_list"} /\ pc' = [pc EXCEPT ![t] = "free"]
      /\ listing' = listing
      /\ available' = [available EXCEPT ![k] =
                          IF pc[t] = "ready" THEN "LIST_READY" ELSE "LIST_NOT_READY"]
    BY DEF Mark_List, Set_List_Available, Goto, shared, contents
<1>2. k \in Kinds
    BY DEF Jobs
<1>3. Running(t) /\ \A u \in Threads : ~Running(u)'
    BY <1>1 DEF Alone, Running, Live, Starting
<1>4. /\ RunningKind = k /\ RunningSubject = job[t].requested.partition
      /\ RunningKind' = "IDLE" /\ RunningSubject' = NULL
    BY <1>3 DEF View
<1>5. "IDLE" \notin Kinds
    BY DEF Kinds
<1>6. Readable' = [Readable EXCEPT ![k] = IF pc[t] = "ready" THEN listing[k] ELSE NULL]
    BY <1>1, <1>2, <1>4, <1>5 DEF Readable
<1>7. Readable[k] = NULL /\ (Readable = [Readable EXCEPT ![k] = NULL])
    BY <1>2, <1>4 DEF Readable
<1>8. pc[t] = "ready" => listing[k] \in {RunningSubject, NULL}
    BY <1>3, <1>4 DEF ReadsNamed, Running
<1> QED
    BY <1>2, <1>4, <1>6, <1>7, <1>8 DEF Service!Complete, Service!Abandon

LEMMA ServiceScanner ==
    ASSUME PatientInv, View, View', NEW t \in Threads, ScannerStep(t),
           ~Mark_Busy(t), ~Mark_List(t), ~Percent_Step(t)
    PROVE  UNCHANGED <<RunningKind, RunningSubject, Readable>>
<1> USE DEF PatientInv, TypeInv, TypeOK
<1>1. /\ \A u \in Threads : Running(u)' = Running(u)
      /\ \A u \in Threads : Running(u) => u = t
    BY DEF ScannerStep, Use_Scan_Object, Meets_Null,
           Goto, Reset_Percent, Mark_Unready, Allow, Null_Dereference,
           Check_Partition, Read_Partition_Data, Quick_Scan_File, Half_Way,
           Photorec_Context_Init, Deep_Scan_Turn, Deep_Scan_Block, Deep_Scan_Ends,
               Decide, Publish, Full, Mark_Idle, Alone, Running, Live, Starting
<1>2. job'[t].kind = job[t].kind /\ job'[t].requested = job[t].requested
    <2>1. job[t] \in Jobs
        OBVIOUS
    <2>2. CASE Deep_Scan_Block(t)
        BY <2>2, BlockJob
    <2>3. CASE Read_Partition_Data(t) \/ Photorec_Context_Init(t)
        BY <2>1, <2>3 DEF Read_Partition_Data, Photorec_Context_Init, Jobs
    <2>4. CASE ~(Deep_Scan_Block(t) \/ Read_Partition_Data(t) \/ Photorec_Context_Init(t))
        BY <2>4 DEF ScannerStep, Use_Scan_Object, Meets_Null,
               Reset_Percent, Mark_Unready, Allow, Null_Dereference,
               Check_Partition, Quick_Scan_File, Half_Way, Deep_Scan_Turn, Deep_Scan_Ends, Decide,
               Publish, Full, Mark_Idle
    <2> QED
        BY <2>2, <2>3, <2>4
<1>3. \A k \in Kinds : (\A u \in Threads : Running(u) => job[u].kind # k)
          => available'[k] = available[k] /\ listing'[k] = listing[k]
    BY <1>1 DEF ScannerStep, Use_Scan_Object, Meets_Null,
           Goto, Reset_Percent, Mark_Unready, Allow, Null_Dereference,
           Check_Partition, Read_Partition_Data, Quick_Scan_File, Half_Way,
           Photorec_Context_Init, Deep_Scan_Turn, Deep_Scan_Block, Deep_Scan_Ends,
               Decide, Publish, Full, Mark_Idle, Set_List_Available, Running, Live, Starting, shared, contents
<1> QED
    BY <1>1, <1>2, <1>3, Invisible

\* With one client that waits for a scan to end before it starts another, the threads, the
\* flags and the unlocked shared context implement ScanService: one scan at a time, nothing
\* of a running kind readable, and only the volume that was named ever delivered
\* (scan_component.c:454-594).
THEOREM Implementation == ASSUME Patience = "patient" PROVE Spec => ImplementsService
<1>1. Init => Service!Init
    <2> SUFFICES ASSUME Init PROVE Service!Init
        OBVIOUS
    <2>1. Alone /\ \A t \in Threads : ~Running(t)
        BY DEF Init, Alone, Running, Live, Starts
    <2>2. RunningKind = "IDLE" /\ RunningSubject = NULL
        BY <2>1, ViewOfRunner DEF View
    <2>3. Readable = [k \in Kinds |-> NULL]
        BY DEF Init, Info_Context_Reset, Readable
    <2> QED
        BY <2>2, <2>3 DEF Service!Init
<1>2. PatientInv /\ View /\ View' /\ [Next]_vars => [Service!Next]_(Service!vars)
    <2> SUFFICES ASSUME PatientInv, View, View', [Next]_vars
                 PROVE  [Service!Next]_(Service!vars)
        OBVIOUS
    <2>0. SameButPercent => UNCHANGED Service!vars
        BY DEF SameButPercent, contents, Service!vars, RunningKind, RunningSubject, Readable,
               SomeRunning, Runner, Running, Live
    <2>1. CASE Scan_Handler \/ HandlerStep
        BY <2>1, ServiceHandler DEF Service!vars
    <2>2. ASSUME NEW t \in Threads, ScannerStep(t) PROVE [Service!Next]_(Service!vars)
        <3>1. CASE Mark_Busy(t)
            <4>1. job[t].kind \in Kinds
                BY DEF PatientInv, TypeInv, TypeOK, Jobs
            <4>2. job[t].requested.partition \in Volumes
                BY <3>1 DEF Mark_Busy, Goto, PatientInv, TypeInv, TypeOK, ObjectNamed, Accepts,
                       Live, ScanObjects, VolumeOrNull
            <4> QED
                BY <3>1, <4>1, <4>2, ServiceBegins DEF Service!Next
        <3>2. CASE Mark_List(t)
            BY <3>2, ServiceEnds DEF Service!Next
        <3>3. CASE ~Mark_Busy(t) /\ ~Mark_List(t) /\ ~Percent_Step(t)
            BY <2>2, <3>3, ServiceScanner DEF Service!vars
        <3>4. CASE Percent_Step(t)
            BY <3>4, <2>0, PercentOnly
        <3> QED
            BY <3>1, <3>2, <3>3, <3>4
    <2>3. CASE UNCHANGED vars
        BY <2>3, <2>0, PercentOnly
    <2> QED
        BY <2>1, <2>2, <2>3 DEF Next
<1>3. PatientInv => Alone
    BY DEF PatientInv
<1> QED
    BY <1>1, <1>2, <1>3, ViewOfRunner, PatientInvariant, PTL
    DEF Spec, ImplementsService, Service!Spec

=============================================================================
