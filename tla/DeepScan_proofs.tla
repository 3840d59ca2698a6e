--------------------------- MODULE DeepScan_proofs ---------------------------
(***************************************************************************)
(* Theorems about DeepScan, for any number of extensions, files and recup  *)
(* directories, any size of a directory, with or without a report, and any *)
(* stops, crashes, files that cannot be deleted or moved, and directories  *)
(* that cannot be removed:                                                 *)
(*                                                                         *)
(*   - types, and the count of files never beyond those found;             *)
(*   - no found file is lost whose move does not fail, no directory with   *)
(*     files of the scan is passed over, and a list that is announced      *)
(*     stands for these files, where they belong;                          *)
(*   - an extension whose setting was saved is enabled after a restart.    *)
(*                                                                         *)
(* PlaceInv, the inductive invariant of the second, says where the files   *)
(* of the scan (Own) may be at each of its stages: there are none at its   *)
(* start, then they are in the recup directories up to dir_num, which all  *)
(* exist, then in those from index on or where they belong.                *)
(***************************************************************************)
EXTENDS DeepScan, FiniteSetTheorems, TLAPS

\* What TypeOK rests on: a scan counts no more files than it found.
TypeInv ==
    /\ TypeOK
    /\ scanner = "carve" => file_nbr <= Cardinality(found \ Report)
    /\ scanner = "move" => index \in 1 .. MAX_DIR

----------------------------------------------------------------------------
(* Types *)

\* Directories of different numbers, or of different kinds, are different.
LEMMA DirectoryNames ==
    /\ \A m, n : Recup(m) = Recup(n) => m = n
    /\ \A m, n : Recup(m) # Sorted(n)
    /\ \A n \in 1 .. MAX_DIR : Recup(n) \in Directories
    /\ \A k \in Kinds \cup {0} : Sorted(k) \in Directories
    /\ \A n \in Int : Recup(n) \in Directories => n \in 1 .. MAX_DIR
BY DeepScanAssumption DEF Recup, Sorted, Directories, Kinds

\* photorec_mkdir makes a directory (photorec.c:268-307).
LEMMA MkdirType ==
    ASSUME NEW from \in Nat \ {0}, dirs \subseteq Directories, Photorec_Mkdir(from)
    PROVE  dirs' \subseteq Directories /\ dir_num' \in 1 .. MAX_DIR
<1>1. PICK n \in from .. MAX_DIR : dirs' = dirs \cup {Recup(n)} /\ dir_num' = n
    BY DEF Photorec_Mkdir
<1>2. n \in 1 .. MAX_DIR
    BY DeepScanAssumption
<1> QED
    BY <1>1, <1>2, DirectoryNames

\* The report is not among the files that are counted.
LEMMA OneMore ==
    ASSUME found \subseteq Names, NEW f \in Files \ found
    PROVE  /\ Cardinality(found \ Report) \in Nat /\ Cardinality(Files) \in Nat
           /\ Cardinality((found \cup {f}) \ Report) = Cardinality(found \ Report) + 1
           /\ Cardinality((found \cup {f}) \ Report) <= Cardinality(Files)
<1> DEFINE counted == found \ Report
<1>1. (found \cup {f}) \ Report = counted \cup {f} /\ counted \subseteq Files /\ f \notin counted
    BY DeepScanAssumption DEF Names
<1>2. IsFiniteSet(Files) /\ IsFiniteSet(counted) /\ IsFiniteSet(counted \cup {f})
    BY <1>1, DeepScanAssumption, FS_Subset
<1> HIDE DEF counted
<1>3. /\ Cardinality(counted) \in Nat /\ Cardinality(Files) \in Nat
      /\ Cardinality(counted \cup {f}) = Cardinality(counted) + 1
      /\ Cardinality(counted \cup {f}) <= Cardinality(Files)
    BY <1>1, <1>2, FS_CardinalityType, FS_AddElement, FS_Subset
<1> QED
    BY <1>1, <1>3 DEF counted

\* The count of files starts at none.
LEMMA NoneCounted ==
    ASSUME NEW S \in SUBSET Names
    PROVE  0 \in 0 .. Cardinality(Files) /\ 0 <= Cardinality(S \ Report)
<1>1. S \ Report \subseteq Files
    BY DEF Names
<1>2. Cardinality(Files) \in Nat /\ Cardinality(S \ Report) \in Nat
    BY <1>1, DeepScanAssumption, FS_CardinalityType, FS_Subset
<1> QED
    BY <1>2

\* What a deletion leaves.
LEMMA DeleteType ==
    ASSUME TypeOK, NEW all \in SUBSET Directories, Delete_Diectory(all)
    PROVE  /\ dirs' \subseteq Directories /\ stored' \subseteq Directories \X Names
           /\ left' \subseteq stored'
<1>1. PICK kept \in SUBSET {s \in stored : s[1] \in all} :
          /\ stored' = {s \in stored : s[1] \notin all} \cup kept
          /\ left' = {s \in left : s[1] \notin all} \cup kept
          /\ dirs' \subseteq dirs
    BY DEF Delete_Diectory
<1> QED
    BY <1>1 DEF TypeOK

\* What start-up makes of the configuration file is a setting of every extension.
LEMMA AppliedType == ASSUME TypeOK PROVE Applied \subseteq [Kinds -> BOOLEAN]
<1> SUFFICES ASSUME NEW e \in Applied PROVE e \in [Kinds -> BOOLEAN]
    OBVIOUS
<1>1. CASE config.state = "missing"
    BY <1>1, DeepScanAssumption DEF Applied
<1>2. CASE config.state = "empty"
    BY <1>2 DEF Applied
<1>3. CASE config.state = "written"
    <2>1. PICK tail \in BOOLEAN :
              e = [k \in Kinds |-> tail \/ \E m \in k .. Extensions : config.digits[m]]
        BY <1>3 DEF Applied
    <2>2. \A k \in Kinds : (tail \/ \E m \in k .. Extensions : config.digits[m]) \in BOOLEAN
        OBVIOUS
    <2> QED
        BY <2>1, <2>2, Zenon
<1>4. config.state \in {"missing", "empty", "written"}
    BY DEF TypeOK
<1> QED
    BY <1>1, <1>2, <1>3, <1>4

LEMMA InitType == Init => TypeInv
<1> SUFFICES ASSUME Init PROVE TypeInv
    OBVIOUS
<1>1. file_nbr = 0 /\ dir_num = 1 /\ index = 1 /\ found = {} /\ enable = Default
    BY DEF Init
<1>2. file_nbr \in 0 .. Cardinality(Files) /\ file_nbr <= Cardinality(found \ Report)
    BY <1>1, NoneCounted
<1>3. dir_num \in 1 .. MAX_DIR /\ index \in 1 .. MAX_DIR + 1
    BY <1>1, DeepScanAssumption
<1>4. enable \in [Kinds -> BOOLEAN]
    BY <1>1, DeepScanAssumption
<1>5. config \in [state : {"missing", "empty", "written"}, digits : [Kinds -> BOOLEAN]]
    BY DeepScanAssumption DEF Init, ConfigFile
<1>6. stopped \in BOOLEAN
    BY DEF Init
<1> QED
    BY <1>2, <1>3, <1>4, <1>5, <1>6 DEF Init, TypeInv, TypeOK

LEMMA StepType == ASSUME TypeInv, [Next]_vars PROVE TypeInv'
<1> USE DEF TypeInv, TypeOK, disk, params, walk
<1>1. ASSUME NEW k \in Kinds, NEW value \in BOOLEAN, Set_DeepScan_File_Extension(k, value)
      PROVE  TypeInv'
    BY <1>1 DEF Set_DeepScan_File_Extension
<1>2. CASE Save_File_Extension_Support_List_Config
    <2>1. Default \in [Kinds -> BOOLEAN]
        BY DeepScanAssumption
    <2>2. config' \in [state : {"missing", "empty", "written"}, digits : [Kinds -> BOOLEAN]]
        BY <1>2, <2>1 DEF Save_File_Extension_Support_List_Config, ConfigFile
    <2> QED
        BY <1>2, <2>2 DEF Save_File_Extension_Support_List_Config
<1>3. CASE Deep_Scan_File_With_Param
    BY <1>3 DEF Deep_Scan_File_With_Param, Step
<1>4. CASE Stop_Scan_Process
    BY <1>4 DEF Stop_Scan_Process
<1>5. CASE Deep_Scan_File_Clean
    <2>1. /\ dirs' \subseteq Directories /\ stored' \subseteq Directories \X Names
          /\ left' \subseteq stored'
        BY <1>5, DeleteType DEF Deep_Scan_File_Clean
    <2> QED
        BY <1>5, <2>1 DEF Deep_Scan_File_Clean, Step
<1>6. CASE Params_Reset
    <2>1. dirs' \subseteq Directories /\ dir_num' \in 1 .. MAX_DIR
        BY <1>6, MkdirType DEF Params_Reset
    <2>2. file_nbr' = 0 /\ found' \subseteq Names
        BY <1>6 DEF Params_Reset, Names
    <2>3. file_nbr' \in 0 .. Cardinality(Files) /\ file_nbr' <= Cardinality(found' \ Report)
        BY <2>2, NoneCounted
    <2>4. stored' \subseteq Directories \X Names
        BY <1>6, <2>1, <2>2, DirectoryNames DEF Params_Reset
    <2> QED
        BY <1>6, <2>1, <2>2, <2>3, <2>4 DEF Params_Reset, Step
<1>7. CASE Find_Offset
    <2>1. file_nbr' = 0 /\ UNCHANGED found
        BY <1>7 DEF Find_Offset
    <2>2. file_nbr' \in 0 .. Cardinality(Files) /\ file_nbr' <= Cardinality(found' \ Report)
        BY <2>1, NoneCounted
    <2> QED
        BY <1>7, <2>2 DEF Find_Offset, Step
<1>8. CASE File_Found
    <2>1. PICK f \in Files \ found : /\ found' = found \cup {f}
                                    /\ stored' = stored \cup {<<Recup(dir_num), f>>}
        BY <1>8 DEF File_Found
    <2>2. dir_num + 1 \in Nat \ {0}
        BY DeepScanAssumption
    <2>3. dirs' \subseteq Directories /\ dir_num' \in 1 .. MAX_DIR
        <3>1. CASE Photorec_Mkdir(dir_num + 1)
            BY <2>2, <3>1, MkdirType
        <3>2. CASE UNCHANGED <<dirs, dir_num>>
            BY <3>2
        <3> QED
            BY <1>8, <3>1, <3>2 DEF File_Found
    <2>4. file_nbr' = file_nbr + 1
        BY <1>8 DEF File_Found
    <2>5. file_nbr' \in 0 .. Cardinality(Files) /\ file_nbr' <= Cardinality(found' \ Report)
        <3>1. file_nbr <= Cardinality(found \ Report) /\ file_nbr \in Nat
            BY <1>8 DEF File_Found, Step
        <3>2. /\ Cardinality(found \ Report) \in Nat /\ Cardinality(Files) \in Nat
              /\ Cardinality(found' \ Report) = Cardinality(found \ Report) + 1
              /\ Cardinality(found' \ Report) <= Cardinality(Files)
            BY <2>1, OneMore
        <3> HIDE DEF TypeInv, TypeOK
        <3> QED
            BY <2>4, <3>1, <3>2
    <2>6. stored' \subseteq Directories \X Names /\ found' \subseteq Names
        BY <2>1, DirectoryNames DEF Names
    <2> QED
        BY <1>8, <2>1, <2>3, <2>5, <2>6 DEF File_Found, Step
<1>9. CASE Pass_Ends
    BY <1>9 DEF Pass_Ends, Step
<1>10. CASE Decide
    <2>1. 1 \in 1 .. MAX_DIR + 1
        BY DeepScanAssumption
    <2> QED
        BY <1>10, <2>1 DEF Decide, Step
<1>11. CASE Open_Directory
    <2>1. Recup(index) \in dirs => index \in 1 .. MAX_DIR
        BY DirectoryNames
    <2> QED
        BY <1>11, <2>1 DEF Open_Directory, Step
<1>12. CASE Move_Files
    <2> DEFINE From(f) == <<Recup(index), f>>
               To(f) == <<Sorted(Extension[f]), f>>
    <2>1. PICK f \in visit :
              /\ visit' = visit \ {f}
              /\ \/ /\ dirs' = dirs \cup {Sorted(Extension[f])}
                    /\ stored' = (stored \ {From(f)}) \cup {To(f)}
                    /\ left' = IF From(f) \in left THEN (left \ {From(f)}) \cup {To(f)} ELSE left
                    /\ UNCHANGED unmoved
                 \/ /\ dirs' \in {dirs, dirs \cup {Sorted(Extension[f])}}
                    /\ unmoved' = IF From(f) \in left THEN unmoved ELSE unmoved \cup {f}
                    /\ UNCHANGED <<stored, left>>
        BY <1>12 DEF Move_Files
    <2>2. f \in Names /\ Extension[f] \in Kinds \cup {0}
        BY DeepScanAssumption
    <2>3. dirs' \subseteq Directories /\ stored' \subseteq Directories \X Names /\ left' \subseteq stored'
        BY <2>1, <2>2, DirectoryNames
    <2>4. unmoved' \subseteq Names
        BY <2>1, <2>2
    <2> QED
        BY <1>12, <2>1, <2>3, <2>4 DEF Move_Files, Step
<1>13. CASE Directory_Done
    <2>1. index' \in 1 .. MAX_DIR + 1
        BY <1>13, DeepScanAssumption DEF Directory_Done, Step
    <2>2. Recup(index) \in Directories
        BY <1>13, DirectoryNames DEF Directory_Done, Step
    <2>3. /\ dirs' \subseteq Directories /\ stored' \subseteq Directories \X Names
          /\ left' \subseteq stored'
        BY <1>13, <2>2, DeleteType DEF Directory_Done
    <2> QED
        BY <1>13, <2>1, <2>3 DEF Directory_Done, Step
<1>14. CASE Mark_Ready
    <2>1. 1 \in 1 .. MAX_DIR + 1
        BY DeepScanAssumption
    <2> QED
        BY <1>14, <2>1 DEF Mark_Ready, Step
<1>15. CASE Restart
    <2>1. enable' \in [Kinds -> BOOLEAN]
        BY <1>15, AppliedType DEF Restart
    <2>2. /\ file_nbr' = 0 /\ dir_num' = 1 /\ index' = 1 /\ found' = {} /\ unmoved' = {}
          /\ left' = {} /\ stopped' \in BOOLEAN
        BY <1>15 DEF Restart
    <2>3. file_nbr' \in 0 .. Cardinality(Files) /\ file_nbr' <= Cardinality(found' \ Report)
        BY <2>2, NoneCounted
    <2>4. dir_num' \in 1 .. MAX_DIR /\ index' \in 1 .. MAX_DIR + 1
        BY <2>2, DeepScanAssumption
    <2> QED
        BY <1>15, <2>1, <2>2, <2>3, <2>4 DEF Restart
<1>16. CASE UNCHANGED vars
    BY <1>16 DEF vars
<1> QED
    BY <1>1, <1>2, <1>3, <1>4, <1>5, <1>6, <1>7, <1>8, <1>9, <1>10, <1>11, <1>12, <1>13, <1>14,
       <1>15, <1>16 DEF Next, Deep_Scan_File_Classify

\* Types; in particular the directories stay within those the disk has room for, and the count of
\* files within those there are (photorec.c:268-307, scan_component.c:398-452).
THEOREM TypeCorrect == Spec => []TypeOK
<1>1. Spec => []TypeInv
    BY InitType, StepType, PTL DEF Spec
<1>2. TypeInv => TypeOK
    BY DEF TypeInv
<1> QED
    BY <1>1, <1>2, PTL

----------------------------------------------------------------------------
(* Where the files are *)

Collected == {"find_offset", "carve", "end", "decide"}
Classified == {"open_dir", "move"}

\* Each found file is in one place at most, and in one if its move did not fail; nothing else is
\* stored by the scan.
OnePlace ==
    /\ \A s \in Own : s[2] \in found
    /\ \A s, t \in Own : s[2] = t[2] => s = t
    /\ \A f \in found \ unmoved : \E s \in Own : s[2] = f

InRecup(s, first) == \E n \in first .. dir_num : s[1] = Recup(n)

InPlace(s) == s[1] = Sorted(Extension[s[2]])

\* A file that could not be moved waits for the deletion of its directory.
Doomed(s) == scanner = "move" /\ s[1] = Recup(index) /\ s[2] \notin visit

PlaceInv ==
    /\ \A s \in stored : s[1] \in dirs
    /\ scanner \in {"clean", "mkdir"} => found = {}
    /\ scanner \in {"clean", "mkdir"} \cup Collected => unmoved = {}
    /\ scanner = "mkdir" => Own = {}
    /\ scanner \in Collected \cup Classified \cup {"ready"} =>
          OnePlace /\ \A s \in Own : s[2] \in unmoved => Doomed(s)
    /\ scanner \in Collected => /\ \A m \in 1 .. dir_num : Recup(m) \in dirs
                                /\ \A s \in Own : InRecup(s, 1)
                                /\ \A s \in left : s[1] # Recup(dir_num)
    /\ scanner \in Classified => /\ \A m \in index .. dir_num : Recup(m) \in dirs
                                 /\ \A s \in Own : InRecup(s, index) \/ InPlace(s)
    /\ scanner = "move" => /\ \A f \in visit : <<Recup(index), f>> \in stored
                           /\ \A s \in Own : s[1] = Recup(index) => s[2] \in visit \cup unmoved
    /\ scanner = "ready" => \A s \in Own : InPlace(s)
    /\ available = "LIST_READY" => /\ scanner = "none" /\ OnePlace
                                   /\ \A s \in Own : InPlace(s) /\ s[2] \notin unmoved

\* Pairs of a directory and a file.
LEMMA Pairs ==
    ASSUME TypeInv
    PROVE  /\ \A s \in stored : s = <<s[1], s[2]>> /\ s[2] \in Names
           /\ Own \subseteq stored /\ Own \cap left = {} /\ left \subseteq stored
BY DEF TypeInv, TypeOK, Own

\* Only what could not be deleted is left of some directories, and none of it is the scan's own.
LEMMA Deleted ==
    ASSUME TypeInv, NEW all, Delete_Diectory(all), \A s \in stored : s[1] \in dirs
    PROVE  /\ Own' = {s \in Own : s[1] \notin all}
           /\ dirs' \subseteq dirs /\ \A d \in dirs : d \notin all => d \in dirs'
           /\ \A s \in stored' : s[1] \in dirs'
<1>1. PICK kept \in SUBSET {s \in stored : s[1] \in all} :
          /\ stored' = {s \in stored : s[1] \notin all} \cup kept
          /\ left' = {s \in left : s[1] \notin all} \cup kept
          /\ \E gone \in SUBSET (all \ {s[1] : s \in kept}) : dirs' = dirs \ gone
    BY DEF Delete_Diectory
<1>2. Own' = stored' \ left' /\ Own = stored \ left
    BY DEF Own
<1>3. PICK gone \in SUBSET (all \ {s[1] : s \in kept}) : dirs' = dirs \ gone
    BY <1>1
<1>4. Own' = {s \in Own : s[1] \notin all}
    BY <1>1, <1>2
<1>5. \A s \in kept : s[1] \in dirs /\ s[1] \notin gone
    BY <1>3
<1> QED
    BY <1>1, <1>3, <1>4, <1>5

\* photorec_mkdir makes a directory that was not there, and leaves no gap (photorec.c:268-307).
LEMMA MkdirPlace ==
    ASSUME TypeInv, NEW from \in Nat \ {0}, Photorec_Mkdir(from),
           \A m \in 1 .. from - 1 : Recup(m) \in dirs
    PROVE  /\ dirs' = dirs \cup {Recup(dir_num')} /\ Recup(dir_num') \notin dirs
           /\ dir_num' \in from .. MAX_DIR
           /\ \A m \in 1 .. dir_num' : Recup(m) \in dirs'
<1>1. PICK n \in from .. MAX_DIR :
          /\ n \notin RecupDirs /\ \A m \in from .. n - 1 : m \in RecupDirs
          /\ dirs' = dirs \cup {Recup(n)} /\ dir_num' = n
    BY DEF Photorec_Mkdir
<1>2. n \in 1 .. MAX_DIR /\ MAX_DIR \in Nat
    BY DeepScanAssumption
<1>3. Recup(n) \notin dirs
    BY <1>1, <1>2 DEF RecupDirs
<1>4. \A m \in 1 .. n : m \in 1 .. from - 1 \/ m \in from .. n - 1 \/ m = n
    BY <1>2
<1>5. \A m \in 1 .. n : Recup(m) \in dirs'
    BY <1>1, <1>4 DEF RecupDirs
<1> QED
    BY <1>1, <1>3, <1>5

LEMMA StepPlace == ASSUME TypeInv, PlaceInv, [Next]_vars PROVE PlaceInv'
<1> USE DEF disk, params, walk, Collected, Classified
<1>s. /\ scanner \in {"none", "clean", "mkdir", "find_offset", "carve", "end", "decide", "open_dir",
                      "move", "ready"}
      /\ dir_num \in 1 .. MAX_DIR /\ index \in 1 .. MAX_DIR + 1 /\ MAX_DIR \in Nat \ {0}
    BY DeepScanAssumption DEF TypeInv, TypeOK
<1>p. /\ \A s \in stored : s = <<s[1], s[2]>> /\ s[2] \in Names
      /\ Own \subseteq stored /\ Own \cap left = {} /\ left \subseteq stored
    BY Pairs
\* Steps that touch no file.
<1>1. CASE /\ UNCHANGED <<dirs, stored, left, found, unmoved, dir_num>>
           /\ \/ UNCHANGED <<scanner, index, visit, available>>
              \/ Find_Offset \/ Pass_Ends \/ Decide \/ Mark_Ready
    <2>1. \A s, n : InRecup(s, n)' <=> InRecup(s, n)
        BY <1>1 DEF InRecup
    <2>2. Own' = Own
        BY <1>1 DEF Own
    <2>3. OnePlace' <=> OnePlace
        BY <1>1, <2>2 DEF OnePlace
    <2>4. CASE UNCHANGED <<scanner, index, visit, available>>
        BY <1>1, <2>1, <2>2, <2>3, <2>4 DEF PlaceInv, InPlace, Doomed
    <2>5. CASE Find_Offset \/ Pass_Ends
        BY <1>1, <2>1, <2>2, <2>3, <2>5 DEF PlaceInv, InPlace, Find_Offset, Pass_Ends, Step, Doomed
    <2>6. CASE Decide
        BY <1>1, <2>1, <2>2, <2>3, <2>6 DEF PlaceInv, InPlace, Decide, Step, Doomed
    <2>7. CASE Mark_Ready
        BY <1>1, <2>1, <2>2, <2>3, <2>7 DEF PlaceInv, InPlace, Mark_Ready, Step, Doomed
    <2> QED
        BY <1>1, <2>4, <2>5, <2>6, <2>7
<1>2. CASE Deep_Scan_File_With_Param
    BY <1>2 DEF Deep_Scan_File_With_Param, Step, PlaceInv
<1>3. CASE Deep_Scan_File_Clean
    <2>1. /\ scanner = "clean" /\ scanner' = "mkdir" /\ UNCHANGED <<found, unmoved, available>>
          /\ Delete_Diectory(dirs)
        BY <1>3 DEF Deep_Scan_File_Clean, Step
    <2>2. available # "LIST_READY" /\ found = {} /\ unmoved = {} /\ \A s \in stored : s[1] \in dirs
        BY <2>1 DEF PlaceInv
    <2>3. Own' = {s \in Own : s[1] \notin dirs} /\ \A s \in stored' : s[1] \in dirs'
        BY <2>1, <2>2, Deleted
    <2>4. Own' = {}
        BY <1>p, <2>2, <2>3
    <2> QED
        BY <2>1, <2>2, <2>3, <2>4 DEF PlaceInv
<1>4. CASE Params_Reset
    <2>1. /\ scanner = "mkdir" /\ scanner' = "find_offset" /\ Photorec_Mkdir(1)
          /\ stored' = stored \cup {<<Recup(dir_num'), f>> : f \in found'}
          /\ UNCHANGED <<left, unmoved, available>>
        BY <1>4 DEF Params_Reset, Step
    <2>2. /\ available # "LIST_READY" /\ unmoved = {} /\ Own = {}
          /\ \A s \in stored : s[1] \in dirs
        BY <2>1 DEF PlaceInv
    <2>3. /\ dirs' = dirs \cup {Recup(dir_num')} /\ Recup(dir_num') \notin dirs
          /\ dir_num' \in 1 .. MAX_DIR
          /\ \A m \in 1 .. dir_num' : Recup(m) \in dirs'
        <3>1. \A m \in 1 .. 1 - 1 : Recup(m) \in dirs
            OBVIOUS
        <3> QED
            BY <2>1, <3>1, MkdirPlace
    <2> DEFINE here == Recup(dir_num')
               new == {<<here, f>> : f \in found'}
    <2>4. /\ \A s \in new : s[1] = here /\ s[2] \in found' /\ s = <<s[1], s[2]>>
          /\ \A f \in found' : <<here, f>> \in new /\ <<here, f>>[2] = f
        OBVIOUS
    <2>5. stored' = stored \cup new
        BY <2>1
    <2>6. here \in dirs' /\ dirs \subseteq dirs' /\ here \notin dirs
        BY <2>3
    <2>7. ASSUME NEW s, s[1] = here PROVE InRecup(s, 1)'
        <3>1. dir_num' \in 1 .. dir_num'
            BY <2>3
        <3> QED
            BY <2>7, <3>1 DEF InRecup
    <2>8. \A s \in left : s[1] # here
        BY <1>p, <2>2, <2>6
    <2> HIDE DEF new, here
    <2>9. Own' = new
        BY <2>1, <2>2, <2>4, <2>5, <2>8 DEF Own
    <2>10. \A s, t \in new : s[2] = t[2] => s = t
        BY <2>4
    <2>11. OnePlace' /\ \A s \in Own' : s[2] \notin unmoved'
        BY <2>1, <2>2, <2>4, <2>9, <2>10 DEF OnePlace
    <2>12. \A s \in stored' : s[1] \in dirs'
        BY <2>2, <2>4, <2>5, <2>6
    <2>13. \A s \in left' : s[1] # Recup(dir_num')
        BY <2>1, <2>8 DEF here
    <2>14. \A s \in Own' : InRecup(s, 1)'
        BY <2>4, <2>7, <2>9
    <2> QED
        BY <2>1, <2>2, <2>3, <2>11, <2>12, <2>13, <2>14 DEF PlaceInv
<1>5. CASE File_Found
    <2>1. PICK f \in Files \ found : /\ found' = found \cup {f}
                                    /\ stored' = stored \cup {<<Recup(dir_num), f>>}
        BY <1>5 DEF File_Found
    <2>2. /\ scanner = "carve" /\ scanner' = "carve"
          /\ UNCHANGED <<left, unmoved, index, visit, available>>
        BY <1>5 DEF File_Found, Step
    <2>3. /\ available # "LIST_READY" /\ OnePlace
          /\ \A m \in 1 .. dir_num : Recup(m) \in dirs
          /\ \A s \in Own : InRecup(s, 1)
          /\ \A s \in left : s[1] # Recup(dir_num)
          /\ \A s \in stored : s[1] \in dirs
        BY <2>2 DEF PlaceInv
    <2> DEFINE here == <<Recup(dir_num), f>>
    <2>4. here[1] = Recup(dir_num) /\ here[2] = f
        OBVIOUS
    <2>5. stored' = stored \cup {here} /\ here \notin left
        BY <2>1, <2>3, <2>4
    <2>6. InRecup(here, 1) /\ here[1] \in dirs
        BY <1>s, <2>3, <2>4 DEF InRecup
    <2> HIDE DEF here
    <2>7. Own' = Own \cup {here}
        BY <2>2, <2>5 DEF Own
    <2>8. OnePlace'
        BY <2>1, <2>2, <2>3, <2>4, <2>7 DEF OnePlace
    <2>9. unmoved' = {}
        BY <2>2 DEF PlaceInv
    <2>10. /\ dirs \subseteq dirs' /\ dir_num' \in dir_num .. MAX_DIR
           /\ \A m \in 1 .. dir_num' : Recup(m) \in dirs'
           /\ \A s \in left : s[1] # Recup(dir_num')
        <3>1. CASE Photorec_Mkdir(dir_num + 1)
            <4>1. dir_num + 1 \in Nat \ {0} /\ (dir_num + 1) - 1 = dir_num
                BY <1>s
            <4>2. /\ dirs' = dirs \cup {Recup(dir_num')} /\ Recup(dir_num') \notin dirs
                  /\ dir_num' \in dir_num + 1 .. MAX_DIR
                  /\ \A m \in 1 .. dir_num' : Recup(m) \in dirs'
                BY <2>3, <3>1, <4>1, MkdirPlace
            <4>3. dir_num' \in dir_num .. MAX_DIR
                BY <1>s, <4>2
            <4> QED
                BY <1>p, <2>3, <4>2, <4>3
        <3>2. CASE UNCHANGED <<dirs, dir_num>>
            BY <1>s, <2>3, <3>2
        <3> QED
            BY <1>5, <3>1, <3>2 DEF File_Found
    <2>11. \A s \in Own' : InRecup(s, 1)'
        <3>1. \A s : InRecup(s, 1) => InRecup(s, 1)'
            BY <1>s, <2>10 DEF InRecup
        <3> QED
            BY <2>3, <2>6, <2>7, <3>1
    <2>12. \A s \in stored' : s[1] \in dirs'
        BY <2>3, <2>5, <2>6, <2>10
    <2> QED
        BY <2>2, <2>3, <2>8, <2>9, <2>10, <2>11, <2>12 DEF PlaceInv
<1>6. CASE Open_Directory
    <2>1. /\ UNCHANGED <<dirs, stored, left, found, unmoved, dir_num, index, available>>
          /\ scanner = "open_dir"
        BY <1>6 DEF Open_Directory, Step
    <2>2. Own' = Own
        BY <2>1 DEF Own
    <2>3. /\ available # "LIST_READY" /\ OnePlace /\ \A s \in Own : s[2] \notin unmoved
          /\ \A m \in index .. dir_num : Recup(m) \in dirs
          /\ \A s \in Own : InRecup(s, index) \/ InPlace(s)
          /\ \A s \in stored : s[1] \in dirs
        BY <2>1 DEF PlaceInv, Doomed
    <2>4. OnePlace' /\ \A s \in Own' : s[2] \notin unmoved'
        BY <2>1, <2>2, <2>3 DEF OnePlace
    <2>5. \A s : (InRecup(s, index)' <=> InRecup(s, index)) /\ (InPlace(s)' <=> InPlace(s))
        BY <2>1 DEF InRecup, InPlace
    <2>6. CASE Recup(index) \in dirs
        <3>1. scanner' = "move" /\ visit' = {f \in Names : <<Recup(index), f>> \in stored}
            BY <1>6, <2>6 DEF Open_Directory, Step
        <3>2. \A s \in Own : s[1] = Recup(index) => s[2] \in visit'
            BY <1>p, <3>1
        <3>3. /\ \A f \in visit' : <<Recup(index'), f>> \in stored'
              /\ \A s \in Own' : s[1] = Recup(index') => s[2] \in visit'
            BY <2>1, <2>2, <3>1, <3>2
        <3> QED
            BY <2>1, <2>2, <2>3, <2>4, <2>5, <3>1, <3>3 DEF PlaceInv
    <2>7. CASE Recup(index) \notin dirs
        <3>1. scanner' = "ready"
            BY <1>6, <2>7 DEF Open_Directory, Step
        <3>2. dir_num < index
            BY <1>s, <2>3, <2>7
        <3>3. \A s \in Own : InPlace(s)
            BY <1>s, <2>3, <3>2 DEF InRecup
        <3> QED
            BY <2>1, <2>2, <2>3, <2>4, <2>5, <3>1, <3>3 DEF PlaceInv
    <2> QED
        BY <2>6, <2>7
<1>7. CASE Move_Files
    <2> DEFINE From(f) == <<Recup(index), f>>
               To(f) == <<Sorted(Extension[f]), f>>
    <2>1. PICK f \in visit :
              /\ visit' = visit \ {f}
              /\ \/ /\ To(f) \notin stored
                    /\ dirs' = dirs \cup {Sorted(Extension[f])}
                    /\ stored' = (stored \ {From(f)}) \cup {To(f)}
                    /\ left' = IF From(f) \in left THEN (left \ {From(f)}) \cup {To(f)} ELSE left
                    /\ UNCHANGED unmoved
                 \/ /\ dirs' \in {dirs, dirs \cup {Sorted(Extension[f])}}
                    /\ unmoved' = IF From(f) \in left THEN unmoved ELSE unmoved \cup {f}
                    /\ UNCHANGED <<stored, left>>
        BY <1>7 DEF Move_Files
    <2>2. /\ scanner = "move" /\ scanner' = "move"
          /\ UNCHANGED <<index, found, dir_num, available>>
        BY <1>7 DEF Move_Files, Step
    <2>3. /\ available # "LIST_READY" /\ OnePlace /\ \A s \in Own : s[2] \in unmoved => Doomed(s)
          /\ \A m \in index .. dir_num : Recup(m) \in dirs
          /\ \A s \in Own : InRecup(s, index) \/ InPlace(s)
          /\ \A g \in visit : <<Recup(index), g>> \in stored
          /\ \A s \in Own : s[1] = Recup(index) => s[2] \in visit \cup unmoved
          /\ \A s \in stored : s[1] \in dirs
        BY <2>2 DEF PlaceInv
    <2> DEFINE here == Recup(index)
               from == From(f)
               to == To(f)
    <2>4. /\ from[1] = here /\ from[2] = f /\ to[2] = f /\ to[1] # here
          /\ InPlace(to) /\ from \in stored
          /\ \A s \in stored : s[1] = here /\ s[2] = f => s = from
        BY <1>p, <2>1, <2>3, DirectoryNames DEF InPlace
    <2>5. dirs \subseteq dirs'
        BY <2>1
    <2>6. /\ \A s : (InRecup(s, index)' <=> InRecup(s, index)) /\ (InPlace(s)' <=> InPlace(s))
          /\ \A s : Doomed(s) <=> s[1] = here /\ s[2] \notin visit
          /\ \A s : Doomed(s)' <=> s[1] = here /\ s[2] \notin visit'
        BY <2>2 DEF InRecup, InPlace, Doomed
    <2>7. \A g \in visit' : <<Recup(index), g>> # from /\ <<Recup(index), g>> # to
        BY <2>1, <2>4
    <2>8. \A m \in index' .. dir_num' : Recup(m) \in dirs'
        BY <2>2, <2>3, <2>5
    \* The move succeeds, for a file that was left.
    <2>9. CASE /\ to \notin stored /\ dirs' = dirs \cup {to[1]}
               /\ stored' = (stored \ {from}) \cup {to}
               /\ left' = (left \ {from}) \cup {to} /\ from \in left /\ unmoved' = unmoved
        <3> HIDE DEF here, from, to
        <3>1. Own' = Own
            BY <2>9 DEF Own
        <3>2. from \notin Own
            BY <1>p, <2>9
        <3>3. OnePlace'
            BY <2>2, <2>3, <2>9, <3>1 DEF OnePlace
        <3>4. \A s \in Own' : s[2] \in unmoved' => Doomed(s)'
            BY <2>1, <2>3, <2>6, <2>9, <3>1
        <3>5. \A s \in Own' : s[1] = here => s[2] \in visit' \cup unmoved'
            BY <1>p, <2>1, <2>3, <2>4, <2>9, <3>1, <3>2 DEF here
        <3>6. \A s \in stored' : s[1] \in dirs'
            BY <2>3, <2>9
        <3>7. \A g \in visit' : <<Recup(index'), g>> \in stored'
            BY <2>1, <2>2, <2>3, <2>7, <2>9
        <3>8. \A s \in Own' : (InRecup(s, index) \/ InPlace(s))'
            BY <2>3, <2>6, <3>1
        <3> QED
            BY <2>2, <2>3, <2>8, <3>3, <3>4, <3>5, <3>6, <3>7, <3>8 DEF PlaceInv, here
    \* The move succeeds, for a file of this scan.
    <2>10. CASE /\ to \notin stored /\ dirs' = dirs \cup {to[1]}
                /\ stored' = (stored \ {from}) \cup {to}
                /\ left' = left /\ from \notin left /\ unmoved' = unmoved
        <3> HIDE DEF here, from, to
        <3>1. from \in Own /\ Own' = (Own \ {from}) \cup {to}
            BY <1>p, <2>4, <2>10 DEF Own
        <3>2. f \notin unmoved
            BY <2>1, <2>3, <2>4, <2>6, <3>1
        <3>3. f \in found /\ \A s \in Own : s[2] = f => s = from
            BY <2>3, <2>4, <3>1 DEF OnePlace
        <3>4. OnePlace'
            <4>1. \A s \in Own' : s = to \/ (s \in Own /\ s[2] # f)
                BY <3>1, <3>3
            <4>2. \A g \in found \ unmoved : \E s \in Own' : s[2] = g
                <5>1. ASSUME NEW g \in found \ unmoved, g # f PROVE \E s \in Own' : s[2] = g
                    <6>1. PICK s \in Own : s[2] = g
                        BY <2>3, <5>1 DEF OnePlace
                    <6> QED
                        BY <2>4, <3>1, <5>1, <6>1
                <5> QED
                    BY <2>4, <3>1, <5>1
            <4>3. \A s, t \in Own' : s[2] = t[2] => s = t
                BY <2>3, <2>4, <4>1 DEF OnePlace
            <4>4. \A s \in Own' : s[2] \in found
                BY <2>3, <2>4, <3>3, <4>1 DEF OnePlace
            <4> QED
                BY <2>2, <2>10, <4>2, <4>3, <4>4 DEF OnePlace
        <3>5. \A s \in Own' : s[2] \in unmoved' => Doomed(s)'
            BY <2>1, <2>3, <2>4, <2>6, <2>10, <3>1, <3>2
        <3>6. \A s \in Own' : s[1] = here => s[2] \in visit' \cup unmoved'
            BY <1>p, <2>1, <2>3, <2>4, <2>10, <3>1, <3>3 DEF here
        <3>7. \A s \in stored' : s[1] \in dirs'
            BY <2>3, <2>10
        <3>8. \A g \in visit' : <<Recup(index'), g>> \in stored'
            BY <2>1, <2>2, <2>3, <2>7, <2>10
        <3>9. \A s \in Own' : (InRecup(s, index) \/ InPlace(s))'
            BY <2>3, <2>4, <2>6, <3>1
        <3> QED
            BY <2>2, <2>3, <2>8, <3>4, <3>5, <3>6, <3>7, <3>8, <3>9 DEF PlaceInv, here
    \* The move fails.
    <2>11. CASE /\ dirs' \in {dirs, dirs \cup {to[1]}} /\ UNCHANGED <<stored, left>>
                /\ unmoved' = IF from \in left THEN unmoved ELSE unmoved \cup {f}
        <3> HIDE DEF here, from, to
        <3>1. Own' = Own
            BY <2>11 DEF Own
        <3>2. OnePlace'
            BY <2>2, <2>3, <2>11, <3>1 DEF OnePlace
        <3>3. \A s \in Own : s[2] = f /\ from \notin left => s = from
            BY <1>p, <2>3, <2>4 DEF OnePlace, Own
        <3>4. \A s \in Own' : s[2] \in unmoved' => Doomed(s)'
            BY <2>1, <2>3, <2>4, <2>6, <2>11, <3>1, <3>3
        <3>5. \A s \in Own' : s[1] = here => s[2] \in visit' \cup unmoved'
            BY <1>p, <2>1, <2>3, <2>4, <2>11, <3>1 DEF here
        <3>6. \A s \in stored' : s[1] \in dirs'
            BY <2>3, <2>5, <2>11
        <3>7. \A g \in visit' : <<Recup(index'), g>> \in stored'
            BY <2>1, <2>2, <2>3, <2>11
        <3>8. \A s \in Own' : (InRecup(s, index) \/ InPlace(s))'
            BY <2>3, <2>6, <3>1
        <3> QED
            BY <2>2, <2>3, <2>8, <3>2, <3>4, <3>5, <3>6, <3>7, <3>8 DEF PlaceInv, here
    <2>12. to[1] = Sorted(Extension[f])
        OBVIOUS
    <2> QED
        BY <2>1, <2>9, <2>10, <2>11, <2>12
<1>8. CASE Directory_Done
    <2>1. /\ scanner = "move" /\ scanner' = "open_dir" /\ index' = index + 1 /\ visit = {}
          /\ UNCHANGED <<found, unmoved, dir_num, available>>
          /\ Delete_Diectory({Recup(index)})
        BY <1>8 DEF Directory_Done, Step
    <2>2. /\ available # "LIST_READY" /\ OnePlace /\ \A s \in Own : s[2] \in unmoved => Doomed(s)
          /\ \A m \in index .. dir_num : Recup(m) \in dirs
          /\ \A s \in Own : InRecup(s, index) \/ InPlace(s)
          /\ \A s \in Own : s[1] = Recup(index) => s[2] \in visit \cup unmoved
          /\ \A s \in stored : s[1] \in dirs
        BY <2>1 DEF PlaceInv
    <2>3. /\ Own' = {s \in Own : s[1] # Recup(index)}
          /\ dirs' \subseteq dirs /\ \A d \in dirs : d # Recup(index) => d \in dirs'
          /\ \A s \in stored' : s[1] \in dirs'
        BY <2>1, <2>2, Deleted
    <2>4. \A s \in Own' : s[2] \notin unmoved'
        BY <2>1, <2>2, <2>3 DEF Doomed
    <2>5. OnePlace'
        BY <2>1, <2>2, <2>3 DEF OnePlace
    <2>6. \A s \in Own' : (InRecup(s, index) \/ InPlace(s))'
        <3>1. ASSUME NEW s \in Own', InRecup(s, index) PROVE InRecup(s, index)'
            <4>1. PICK n \in index .. dir_num : s[1] = Recup(n)
                BY <3>1 DEF InRecup
            <4>2. n # index
                BY <2>3, <4>1
            <4>3. n \in index' .. dir_num'
                BY <1>s, <2>1, <4>1, <4>2
            <4> QED
                BY <4>1, <4>3 DEF InRecup
        <3>2. \A s : InPlace(s)' <=> InPlace(s)
            BY DEF InPlace
        <3> QED
            BY <2>2, <2>3, <3>1, <3>2
    <2>7. \A m \in index' .. dir_num' : Recup(m) \in dirs'
        BY <1>s, <2>1, <2>2, <2>3, DirectoryNames
    <2> QED
        BY <2>1, <2>2, <2>3, <2>4, <2>5, <2>6, <2>7 DEF PlaceInv
<1>9. CASE Restart
    BY <1>9 DEF Restart, PlaceInv
<1> QED
    <2>1. CASE \E k \in Kinds, value \in BOOLEAN : Set_DeepScan_File_Extension(k, value)
        BY <1>1, <2>1 DEF Set_DeepScan_File_Extension
    <2>2. CASE Save_File_Extension_Support_List_Config \/ Stop_Scan_Process \/ UNCHANGED vars
        BY <1>1, <2>2 DEF Save_File_Extension_Support_List_Config, Stop_Scan_Process, vars
    <2>3. CASE Find_Offset \/ Pass_Ends \/ Decide \/ Mark_Ready
        BY <1>1, <2>3 DEF Find_Offset, Pass_Ends, Decide, Mark_Ready
    <2> QED
        BY <1>2, <1>3, <1>4, <1>5, <1>6, <1>7, <1>8, <1>9, <2>1, <2>2, <2>3
           DEF Next, Deep_Scan_File_Classify

LEMMA PlaceCorrect == Spec => [](TypeInv /\ PlaceInv)
<1>1. Init => PlaceInv
    BY DEF Init, PlaceInv, Collected, Classified
<1> QED
    BY <1>1, InitType, StepType, StepPlace, PTL DEF Spec

\* Whatever scans, stops, crashes and failures to delete or to move came before, a list that is
\* announced stands for the found files, each where it belongs, but for those whose move failed,
\* and for nothing else but what could not be deleted (scan_component.c:334-452, 484-511).
THEOREM AnnouncedSorted == Spec => []ReadyMeansSorted
<1>1. ASSUME TypeInv, PlaceInv, available = "LIST_READY"
      PROVE  Own = {<<Sorted(Extension[f]), f>> : f \in found \ unmoved}
    <2>1. OnePlace /\ \A s \in Own : InPlace(s) /\ s[2] \notin unmoved
        BY <1>1 DEF PlaceInv
    <2>2. \A s \in Own : s = <<s[1], s[2]>>
        BY <1>1, Pairs
    <2>3. ASSUME NEW s \in Own PROVE s \in {<<Sorted(Extension[f]), f>> : f \in found \ unmoved}
        BY <2>1, <2>2 DEF OnePlace, InPlace
    <2>4. ASSUME NEW f \in found \ unmoved PROVE <<Sorted(Extension[f]), f>> \in Own
        <3>1. PICK s \in Own : s[2] = f
            BY <2>1 DEF OnePlace
        <3> QED
            BY <2>1, <2>2, <3>1 DEF InPlace
    <2> QED
        BY <2>3, <2>4
<1> QED
    BY <1>1, PlaceCorrect, PTL DEF ReadyMeansSorted

\* A found file whose move does not fail is never lost nor kept twice on its way from photorec to
\* the directory of its extension, although what is not moved is deleted with its directory
\* (scan_component.c:398-452).
THEOREM NoFileLost == Spec => []NothingLost
<1>1. ASSUME PlaceInv, scanner \in {"carve", "decide", "open_dir", "move", "ready"},
             NEW f \in found \ unmoved
      PROVE  Cardinality({s \in Own : s[2] = f}) = 1
    <2>1. OnePlace
        BY <1>1 DEF PlaceInv, Collected, Classified
    <2>2. PICK s \in Own : s[2] = f
        BY <2>1 DEF OnePlace
    <2>3. {t \in Own : t[2] = f} = {s}
        BY <2>1, <2>2 DEF OnePlace
    <2> QED
        BY <2>3, FS_Singleton
<1>2. PlaceInv => NothingLost
    BY <1>1 DEF NothingLost
<1> QED
    BY <1>2, PlaceCorrect, PTL

\* A classification ends at the first number without a directory, and there are no files of its
\* scan beyond it (photorec.c:268, scan_component.c:417-424).
THEOREM NoGap == Spec => []RecupHasNoGap
<1>1. ASSUME TypeInv, PlaceInv, scanner \in {"open_dir", "move"}, NEW n \in RecupDirs,
             In(Recup(n)) \ left # {}, NEW m \in index .. n
      PROVE  m \in RecupDirs
    <2>1. /\ \A i \in index .. dir_num : Recup(i) \in dirs
          /\ \A s \in Own : InRecup(s, index) \/ InPlace(s)
        BY <1>1 DEF PlaceInv, Classified
    <2>2. PICK s \in Own : s[1] = Recup(n)
        BY <1>1 DEF In, Own
    <2>3. n \in index .. dir_num
        BY <2>1, <2>2, DirectoryNames DEF InRecup, InPlace
    <2>4. /\ dir_num \in 1 .. MAX_DIR /\ index \in 1 .. MAX_DIR + 1 /\ n \in 1 .. MAX_DIR
          /\ MAX_DIR \in Nat
        BY <1>1, DeepScanAssumption DEF TypeInv, TypeOK, RecupDirs
    <2> QED
        BY <2>1, <2>3, <2>4 DEF RecupDirs
<1>2. TypeInv /\ PlaceInv => RecupHasNoGap
    BY <1>1 DEF RecupHasNoGap
<1> QED
    BY <1>2, PlaceCorrect, PTL

----------------------------------------------------------------------------
(* The configuration file *)

\* The digits are read together with those after them, which can only enable more: no setting
\* that was saved is lost by a restart (common.c:763-821).
THEOREM SettingsSurvive == Spec => EnabledSurvives
<1>1. ASSUME TypeInv, [Next]_vars
      PROVE  [saving = "none" /\ saving' = "none" /\ config.state = "written"
                => \A k \in Kinds : config.digits[k] => enable'[k]]_enable
    <2> SUFFICES ASSUME enable' # enable, saving' = "none", config.state = "written",
                        NEW k \in Kinds, config.digits[k]
                 PROVE  enable'[k]
        OBVIOUS
    <2>1. Restart
        BY <1>1 DEF Next, Set_DeepScan_File_Extension, Save_File_Extension_Support_List_Config,
               Deep_Scan_File_With_Param, Stop_Scan_Process, Deep_Scan_File_Clean, Params_Reset,
               Find_Offset, File_Found, Pass_Ends, Decide, Open_Directory, Move_Files,
               Directory_Done, Mark_Ready, Deep_Scan_File_Classify, vars
    <2>2. PICK tail \in BOOLEAN :
              enable' = [i \in Kinds |-> tail \/ \E m \in i .. Extensions : config.digits[m]]
        <3>1. Applied = {[i \in Kinds |-> tail \/ \E m \in i .. Extensions : config.digits[m]]
                           : tail \in BOOLEAN}
            BY DEF Applied
        <3> QED
            BY <2>1, <3>1 DEF Restart
    <2>3. k \in k .. Extensions
        BY DeepScanAssumption DEF Kinds
    <2>4. enable'[k] = (tail \/ \E m \in k .. Extensions : config.digits[m])
        BY <2>2
    <2>5. \E m \in k .. Extensions : config.digits[m]
        BY <2>3
    <2> QED
        BY <2>4, <2>5
<1> QED
    BY <1>1, InitType, StepType, PTL DEF Spec, EnabledSurvives
=============================================================================
